------------------------ MODULE RuleConfigsSerialProofs ------------------------
(***************************************************************************)
(* What the optimistic lock achieves when requests do not overlap, for any *)
(* number of clients, rules and versions and whatever stale views the      *)
(* clients act on.                                                         *)
(*                                                                         *)
(* Serial is inductive with TypeOK and Consistent: a request in flight is  *)
(* alone, so the row it loaded is still the row there is (Current), and a  *)
(* view with the row's lock value still shows the row (ViewsSee).          *)
(*                                                                         *)
(* The refinement of RuleBook rests on Serial and NumberedNext: a commit   *)
(* changes the rule as it is, and a publication is numbered one past the   *)
(* last.                                                                   *)
(***************************************************************************)
EXTENDS RuleConfigsProofs, FiniteSetTheorems

Busy(c) == requests[c].pc # "idle"
Mutating(c) == requests[c].op \in {"save", "publish", "rollback"}

Alone == \A c, d \in Clients : Busy(c) /\ Busy(d) => c = d

\* A request in flight has an operation, and works on a rule that is as loaded.
Current ==
  \A c \in Clients : Busy(c) =>
    /\ requests[c].op # "none"
    /\ requests[c].op # "create" => requests[c].rule \in Live
    /\ Mutating(c) => requests[c].loaded = records[requests[c].rule]

\* What the checks before a commit have established.
Checked ==
  \A c \in Clients :
    /\ Mutating(c) /\ requests[c].pc \in {"number", "commit"}
       /\ requests[c].loaded.published # 0
       => requests[c].content.type = requests[c].loaded.type
    /\ Committing(c, {"publish"}) =>
         \A r \in VersionsOf(requests[c].rule) : r.version < requests[c].version

\* A view of a rule that was not deleted is older than the row, or shows it.
ViewsSee ==
  \A c \in Clients : views[c] # NoView /\ ~views[c].gone =>
    /\ views[c].rule \in Live
    /\ views[c].row.lock <= records[views[c].rule].lock
    /\ views[c].row.lock = records[views[c].rule].lock => views[c].row = records[views[c].rule]

\* A request is for the rule its client has open, which is as the client saw it.
ActsOnView ==
  \A c \in Clients : Busy(c) /\ requests[c].op # "create" =>
    /\ views[c] # NoView /\ views[c].rule = requests[c].rule
    /\ ~views[c].gone => views[c].row = records[views[c].rule]

Serial == Alone /\ Current /\ Checked /\ ViewsSee /\ ActsOnView /\ RowTellsItsState

LEMMA SerialInit == Init => Serial
BY DEF Init, Serial, Alone, Current, Checked, ViewsSee, ActsOnView, RowTellsItsState,
       Busy, Mutating, Committing, Idle, Live

\* A request starts only when no other is in flight.
LEMMA StartsAlone ==
  ASSUME MaxInFlight <= 1, IsFiniteSet(Clients), NEW c \in Clients, CanStart(c)
  PROVE  \A d \in Clients : ~Busy(d)
<1>1. IsFiniteSet(InFlight) /\ Cardinality(InFlight) \in Nat
  BY FS_Subset, FS_CardinalityType DEF InFlight
<1>2. Cardinality(InFlight) = 0
  BY <1>1, RuleConfigsAssumption DEF CanStart
<1>3. InFlight = {}
  BY <1>1, <1>2, FS_EmptySet
<1> QED
  BY <1>3 DEF InFlight, Busy

\* A step of client c that leaves tables and views alone: it is enough to look at
\* what c's request holds then.
LEMMA RequestSerial ==
  ASSUME TypeOK, Serial, NEW c \in Clients, NEW r \in Requests,
         requests' = [requests EXCEPT ![c] = r],
         UNCHANGED <<records, history, views>>,
         r.pc # "idle" => \A d \in Clients \ {c} : ~Busy(d),
         r.pc # "idle" => r.op # "none",
         r.pc # "idle" /\ r.op # "create" =>
           /\ r.rule \in Live /\ views[c] # NoView /\ views[c].rule = r.rule
           /\ ~views[c].gone => views[c].row = records[views[c].rule],
         r.pc # "idle" /\ r.op \in {"save", "publish", "rollback"} =>
           r.loaded = records[r.rule],
         r.op \in {"save", "publish", "rollback"} /\ r.pc \in {"number", "commit"}
           /\ r.loaded.published # 0 => r.content.type = r.loaded.type,
         r.pc = "commit" /\ r.op = "publish" =>
           \A h \in VersionsOf(r.rule) : h.version < r.version
  PROVE  Serial'
<1>1. requests'[c] = r /\ \A d \in Clients \ {c} : requests'[d] = requests[d]
  BY DEF TypeOK
<1>2. Alone'
  BY <1>1 DEF Serial, Alone, Busy
<1>3. Current'
  BY <1>1 DEF Serial, Current, Busy, Mutating, Live
<1>4. Checked'
  BY <1>1 DEF Serial, Checked, Mutating, Committing, VersionsOf
<1>5. ViewsSee'
  BY DEF Serial, ViewsSee, Live
<1>6. ActsOnView'
  BY <1>1 DEF Serial, ActsOnView, Busy
<1>7. RowTellsItsState'
  BY DEF Serial, RowTellsItsState, Live, VersionsOf
<1> QED
  BY <1>2, <1>3, <1>4, <1>5, <1>6, <1>7 DEF Serial

\* A view, which a client takes between its requests.
LEMMA ViewSerial ==
  ASSUME TypeOK, Serial, NEW c \in Clients, View(c)
  PROVE  Serial'
<1>1. PICK i \in Live :
        views' = [views EXCEPT ![c] = [rule |-> i, row |-> records[i], gone |-> FALSE]]
  BY DEF View
<1>2. /\ views'[c].rule = i /\ views'[c].row = records[i] /\ ~Busy(c)
      /\ \A d \in Clients \ {c} : views'[d] = views[d]
      /\ UNCHANGED <<records, history, requests>>
  BY <1>1 DEF View, TypeOK, Busy, Idle
<1>3. records[i].lock \in Nat
  BY DEF TypeOK, Records, Live
<1>4. Alone' /\ Current' /\ Checked' /\ RowTellsItsState'
  BY <1>2 DEF Serial, Alone, Current, Checked, RowTellsItsState, Busy, Mutating, Committing,
              Live, VersionsOf
<1>5. ViewsSee'
  BY <1>2, <1>3 DEF Serial, ViewsSee, Live
<1>6. ActsOnView'
  BY <1>2 DEF Serial, ActsOnView, Busy
<1> QED
  BY <1>4, <1>5, <1>6 DEF Serial

\* The start of a request.
LEMMA StartsSerial ==
  ASSUME MaxInFlight <= 1, IsFiniteSet(Clients), TypeOK, Serial, NEW c \in Clients,
         StartCreate(c) \/ StartSave(c) \/ StartPublish(c)
           \/ StartRollback(c) \/ StartDelete(c)
  PROVE  Serial'
<1>1. CanStart(c)
  BY DEF StartCreate, StartSave, StartPublish, StartRollback, StartMutation, StartDelete
<1>2. \A d \in Clients : ~Busy(d)
  BY <1>1, StartsAlone
<1>3. CASE StartCreate(c)
  <2>1. PICK content \in Contents :
          requests' = [requests EXCEPT ![c] =
                         [Idle EXCEPT !.pc = "check", !.op = "create", !.content = content]]
    BY <1>3 DEF StartCreate
  <2> DEFINE r == [Idle EXCEPT !.pc = "check", !.op = "create", !.content = content]
  <2>2. r \in Requests /\ r.op = "create" /\ r.pc = "check"
    BY DEF Idle, Requests, Steps, Ops
  <2> QED
    BY <1>2, <1>3, <2>1, <2>2, RequestSerial DEF StartCreate
<1>4. ASSUME LockMatches(c)
      PROVE  /\ views[c] # NoView /\ views[c].rule \in Live /\ views[c].rule \in RuleIds
             /\ records[views[c].rule] \in Records
             /\ ~views[c].gone => views[c].row = records[views[c].rule]
  BY <1>4 DEF LockMatches, Live, Views, TypeOK, Serial, ViewsSee
<1>5. ASSUME NEW op \in {"save", "publish", "rollback"},
             NEW pc \in {"source", "check"},
             NEW content \in Contents \cup {NoContent}, NEW version \in Nat,
             StartMutation(c, op, pc, content, version)
      PROVE  Serial'
  <2> DEFINE r == [pc |-> pc, op |-> op, rule |-> views[c].rule,
                   loaded |-> records[views[c].rule],
                   content |-> content, version |-> version]
  <2>1. LockMatches(c) /\ requests' = [requests EXCEPT ![c] = r]
        /\ UNCHANGED <<records, history, views>>
    BY <1>5 DEF StartMutation
  <2>2. /\ r \in Requests /\ r.op = op /\ r.pc = pc /\ r.rule = views[c].rule
        /\ r.loaded = records[views[c].rule]
    BY <1>4, <2>1 DEF Requests, Steps, Ops
  <2> HIDE DEF r
  <2> QED
    BY <1>2, <1>4, <2>1, <2>2, RequestSerial
<1>6. CASE StartSave(c)
  BY <1>5, <1>6 DEF StartSave
<1>7. CASE StartPublish(c)
  BY <1>5, <1>7 DEF StartPublish
<1>8. CASE StartRollback(c)
  BY <1>5, <1>8 DEF StartRollback
<1>9. CASE StartDelete(c)
  <2> DEFINE r == [Idle EXCEPT !.pc = "commit", !.op = "delete", !.rule = views[c].rule]
  <2>1. LockMatches(c) /\ requests' = [requests EXCEPT ![c] = r]
        /\ UNCHANGED <<records, history, views>>
    BY <1>9 DEF StartDelete
  <2>2. r \in Requests /\ r.op = "delete" /\ r.pc = "commit" /\ r.rule = views[c].rule
    BY <1>4, <2>1 DEF Idle, Requests, Steps, Ops
  <2> HIDE DEF r
  <2> QED
    BY <1>2, <1>4, <2>1, <2>2, RequestSerial
<1> QED
  BY <1>3, <1>6, <1>7, <1>8, <1>9

\* A request between its start and its commit.
LEMMA MovesSerial ==
  ASSUME TypeOK, Serial, NEW c \in Clients,
         ReadSource(c) \/ CheckType(c) \/ NumberVersion(c) \/ Abort(c)
  PROVE  Serial'
<1> DEFINE q == requests[c]
<1>1. q \in Requests
  BY DEF TypeOK
<1>2. q.pc # "idle" => \A d \in Clients \ {c} : ~Busy(d)
  BY DEF Serial, Alone, Busy
<1>3. q.pc # "idle" =>
        /\ q.op # "none"
        /\ q.op # "create" =>
             /\ q.rule \in Live /\ views[c] # NoView /\ views[c].rule = q.rule
             /\ ~views[c].gone => views[c].row = records[views[c].rule]
        /\ q.op \in {"save", "publish", "rollback"} => q.loaded = records[q.rule]
  BY DEF Serial, Current, ActsOnView, Busy, Mutating
<1>4. CASE ReadSource(c)
  <2>1. PICK row \in VersionsOf(q.rule) :
          requests' = [requests EXCEPT ![c].pc = "check", ![c].content = row.content,
                                       ![c].version = 0]
    BY <1>4 DEF ReadSource
  <2> DEFINE r == [q EXCEPT !.pc = "check", !.content = row.content, !.version = 0]
  <2>2. row.content \in Contents
    BY <2>1 DEF VersionsOf, VersionRows, TypeOK
  <2>3. /\ r \in Requests /\ r.pc = "check" /\ r.op = q.op /\ r.rule = q.rule
        /\ r.loaded = q.loaded
    BY <1>1, <2>2 DEF Requests, Steps
  <2>4. requests' = [requests EXCEPT ![c] = r]
    BY <1>1, <2>1 DEF TypeOK
  <2>5. q.pc # "idle" /\ UNCHANGED <<records, history, views>>
    BY <1>4 DEF ReadSource
  <2> HIDE DEF r, q
  <2> QED
    BY <1>2, <1>3, <2>3, <2>4, <2>5, RequestSerial
<1>5. CASE CheckType(c)
  <2> DEFINE r == [q EXCEPT !.pc = IF q.op = "publish" THEN "number" ELSE "commit"]
  <2>1. /\ r \in Requests /\ r.op = q.op /\ r.rule = q.rule /\ r.loaded = q.loaded
        /\ r.content = q.content
        /\ r.pc = IF q.op = "publish" THEN "number" ELSE "commit"
    BY <1>1 DEF Requests, Steps
  <2>2. /\ requests' = [requests EXCEPT ![c] = r] /\ UNCHANGED <<records, history, views>>
        /\ q.pc # "idle"
        /\ q.op # "create" /\ q.loaded.published # 0 => q.content.type = q.loaded.type
    BY <1>5 DEF CheckType, TypeAllowed
  <2> HIDE DEF r, q
  <2> QED
    BY <1>2, <1>3, <2>1, <2>2, RequestSerial
<1>6. CASE NumberVersion(c)
  <2>1. PICK v \in 1..MaxVersions :
          /\ IsNextVersion(q.rule, v)
          /\ requests' = [requests EXCEPT ![c].pc = "commit", ![c].version = v]
    BY <1>6 DEF NumberVersion
  <2> DEFINE r == [q EXCEPT !.pc = "commit", !.version = v]
  <2>2. /\ r \in Requests /\ r.pc = "commit" /\ r.op = q.op /\ r.rule = q.rule
        /\ r.loaded = q.loaded /\ r.content = q.content /\ r.version = v
    <3>1. v \in Nat
      OBVIOUS
    <3>2. r = [q EXCEPT !.pc = "commit", !.version = v]
      OBVIOUS
    <3> HIDE DEF r, q
    <3> QED
      BY <1>1, <3>1, <3>2 DEF Requests, Steps
  <2>3. requests' = [requests EXCEPT ![c] = r]
    BY <1>1, <2>1 DEF TypeOK
  <2>4. q.pc = "number" /\ UNCHANGED <<records, history, views>>
    BY <1>6 DEF NumberVersion
  <2>5. q.op \in {"save", "publish", "rollback"} /\ q.loaded.published # 0 =>
          q.content.type = q.loaded.type
    BY <2>4 DEF Serial, Checked, Mutating
  <2>6. \A h \in VersionsOf(q.rule) : h.version < v
    BY <2>1 DEF IsNextVersion
  <2> HIDE DEF r, q
  <2> QED
    BY <1>2, <1>3, <2>2, <2>3, <2>4, <2>5, <2>6, RequestSerial
<1>7. CASE Abort(c)
  <2>1. Idle \in Requests /\ Idle.pc = "idle" /\ Idle.op = "none"
    BY DEF Idle, Requests, Steps, Ops
  <2> QED
    BY <1>7, <2>1, RequestSerial DEF Abort
<1> QED
  BY <1>4, <1>5, <1>6, <1>7

\* After a commit nothing is in flight: what remains is the rows and the views.
LEMMA CommitSerial ==
  ASSUME TypeOK, Serial, NEW c \in Clients, Busy(c), Finish(c),
         ViewsSee', RowTellsItsState'
  PROVE  Serial'
<1>1. \A d \in Clients : requests'[d].pc = "idle"
  BY DEF Serial, Alone, Busy, Finish, Idle, TypeOK
<1>2. Alone' /\ Current' /\ Checked' /\ ActsOnView'
  BY <1>1 DEF Alone, Current, Checked, ActsOnView, Busy, Mutating, Committing
<1> QED
  BY <1>2 DEF Serial

\* A new rule is a first draft, and no view that is not gone shows its id.
LEMMA CreateSerial ==
  ASSUME TypeOK, Serial, NEW c \in Clients, CommitCreate(c)
  PROVE  Serial'
<1>1. PICK i \in RuleIds :
        /\ IsNextId(i)
        /\ records' = [records EXCEPT ![i] = NewRow(requests[c].content)]
  BY DEF CommitCreate
<1>2. requests[c].content \in Contents
  BY DEF CommitCreate, Committing, TypeOK, HoldsWhatItNeeds
<1>3. NewRow(requests[c].content) \in Records
  BY <1>2 DEF NewRow, Records, Contents
<1>4. Live' = Live \cup {i} /\ i \notin Live
  BY <1>1, <1>3, RuleConfigsAssumption DEF TypeOK, IsNextId, RuleIds, Live
<1>5. \A j \in Live : records'[j] = records[j]
  BY <1>1, <1>4 DEF TypeOK, Live
<1>6. records'[i] = NewRow(requests[c].content)
  BY <1>1 DEF TypeOK
<1>7. UNCHANGED <<history, views>> /\ Finish(c) /\ Busy(c)
  BY DEF CommitCreate, Committing, Busy
<1>8. ViewsSee'
  BY <1>4, <1>5, <1>7 DEF ViewsSee, Serial
<1>9. RowTellsItsState'
  BY <1>4, <1>5, <1>6, <1>7 DEF RowTellsItsState, Serial, NewRow, VersionsOf
<1> QED
  BY <1>7, <1>8, <1>9, CommitSerial

\* What an UPDATE without overlap leaves: the row the request meant to write,
\* one lock value on, and no view of the client.
LEMMA UpdateSerial ==
  ASSUME TypeOK, Serial, NEW c \in Clients, Mutating(c), Busy(c),
         NEW new \in Records, new.lock = requests[c].loaded.lock + 1,
         UpdateRule(c, new)
  PROVE  LET i == requests[c].rule
         IN  /\ i \in Live /\ Live' = Live
             /\ records[i] = requests[c].loaded /\ records[i] \in Records
             /\ records'[i] = new
             /\ \A j \in Live \ {i} : records'[j] = records[j]
             /\ ViewsSee'
<1> DEFINE i == requests[c].rule
<1>1. requests[c].loaded \in Records
  BY DEF Mutating, Busy, TypeOK, HoldsWhatItNeeds
<1>2. /\ i \in Live /\ Live' = Live
      /\ \A j \in Live \ {i} : records'[j] = records[j]
      /\ records'[i] = Updated(records[i], requests[c].loaded, new)
  BY <1>1, UpdateRuleFacts
<1>3. records[i] = requests[c].loaded
  BY DEF Serial, Current
<1>4. Updated(records[i], requests[c].loaded, new) = new
  BY <1>1, <1>3 DEF Updated, Written, Records
<1>5. views' = [views EXCEPT ![c] = NoView]
  BY DEF UpdateRule
<1>6. ViewsSee'
  <2> SUFFICES ASSUME NEW d \in Clients, views'[d] # NoView, ~views'[d].gone
               PROVE  /\ views'[d].rule \in Live'
                      /\ views'[d].row.lock <= records'[views'[d].rule].lock
                      /\ views'[d].row.lock = records'[views'[d].rule].lock =>
                           views'[d].row = records'[views'[d].rule]
    BY DEF ViewsSee
  <2>1. views'[d] = views[d]
    BY <1>5 DEF TypeOK
  <2>2. views[d].row.lock \in Nat /\ records[i].lock \in Nat
    BY <1>1, <1>3, <2>1 DEF TypeOK, Views, Records
  <2>3. /\ views[d].rule \in Live /\ views[d].row.lock <= records[views[d].rule].lock
        /\ views[d].row.lock = records[views[d].rule].lock =>
             views[d].row = records[views[d].rule]
    BY <2>1 DEF Serial, ViewsSee
  <2>4. records'[i].lock = records[i].lock + 1
    BY <1>2, <1>3, <1>4
  <2>5. CASE views[d].rule = i
    BY <1>2, <2>1, <2>2, <2>3, <2>4, <2>5
  <2>6. CASE views[d].rule # i
    BY <1>2, <2>1, <2>3, <2>6
  <2> QED
    BY <2>5, <2>6
<1> QED
  BY <1>1, <1>2, <1>3, <1>4, <1>6

\* A saved draft is numbered one past the published version.
LEMMA DraftSerial ==
  ASSUME TypeOK, Serial, NEW c \in Clients, CommitDraft(c)
  PROVE  Serial'
<1> DEFINE i == requests[c].rule
<1> DEFINE new == DraftRow(requests[c].loaded, requests[c].content)
<1>1. Mutating(c) /\ Busy(c) /\ UpdateRule(c, new) /\ Finish(c) /\ UNCHANGED history
  BY DEF CommitDraft, Committing, Mutating, Busy
<1>2. requests[c].loaded \in Records /\ requests[c].content \in Contents
  BY DEF CommitDraft, Committing, TypeOK, HoldsWhatItNeeds
<1>3. new \in Records /\ new.lock = requests[c].loaded.lock + 1
  BY <1>2, NewRowsType DEF DraftRow
<1>4. /\ i \in Live /\ Live' = Live
      /\ records[i] = requests[c].loaded /\ records[i] \in Records
      /\ records'[i] = new
      /\ \A j \in Live \ {i} : records'[j] = records[j]
      /\ ViewsSee'
  BY <1>1, <1>3, UpdateSerial
<1>5. records[i].status = "draft" => records[i].draft = records[i].published + 1
  BY <1>4 DEF Serial, RowTellsItsState
<1>6. NextDraftVersion(records[i]) = records[i].published + 1
  BY <1>4, <1>5 DEF NextDraftVersion, Records
<1>7. /\ new.type = new.content.type /\ new.published = records[i].published
      /\ new.status = "draft" /\ new.draft = new.published + 1
  BY <1>4, <1>6 DEF DraftRow
<1> HIDE DEF new, i
<1>8. RowTellsItsState'
  BY <1>1, <1>4, <1>7 DEF Serial, RowTellsItsState, VersionsOf
<1> QED
  BY <1>1, <1>4, <1>8, CommitSerial

\* A published row holds the content of the version it adds, the newest one.
LEMMA PublishSerial ==
  ASSUME TypeOK, Serial, NEW c \in Clients, CommitPublish(c)
  PROVE  Serial'
<1> DEFINE i == requests[c].rule
<1> DEFINE v == requests[c].version
<1> DEFINE new == PublishedRow(requests[c].loaded, requests[c].content, v)
<1> DEFINE added == [rule |-> i, version |-> v, content |-> requests[c].content]
<1>1. /\ Mutating(c) /\ Busy(c) /\ UpdateRule(c, new) /\ Finish(c)
      /\ Committing(c, {"publish"}) /\ history' = history \cup {added}
  BY DEF CommitPublish, Committing, Mutating, Busy
<1>2. /\ requests[c].loaded \in Records /\ requests[c].content \in Contents /\ v \in Nat
      /\ history \in SUBSET VersionRows
  BY <1>1 DEF Committing, TypeOK, HoldsWhatItNeeds, Requests
<1>3. new \in Records /\ new.lock = requests[c].loaded.lock + 1
  BY <1>2, NewRowsType DEF PublishedRow
<1>4. /\ i \in Live /\ Live' = Live
      /\ records'[i] = new
      /\ \A j \in Live \ {i} : records'[j] = records[j]
      /\ ViewsSee'
  BY <1>1, <1>3, UpdateSerial
<1>5. \A r \in history : r.rule = i => r.version < v
  BY <1>1 DEF Serial, Checked, VersionsOf
<1>6. /\ new.type = new.content.type /\ new.published = v /\ new.status = "published"
      /\ new.content = requests[c].content
      /\ added.rule = i /\ added.version = v /\ added.content = requests[c].content
  BY DEF PublishedRow
<1>7. \A r \in history : r.version \in Nat
  BY <1>2 DEF VersionRows
<1> HIDE DEF new, i, v, added
<1>8. RowTellsItsState'
  <2> SUFFICES ASSUME NEW j \in Live
               PROVE  LET row == records'[j]
                      IN  /\ row.type = row.content.type
                          /\ row.published # 0 =>
                               \A r \in history' : r.rule = j => r.version <= row.published
                          /\ row.status = "published" =>
                               \E r \in history' : /\ r.rule = j
                                                   /\ r.version = row.published
                                                   /\ r.content = row.content
                          /\ row.status = "draft" => row.draft = row.published + 1
    BY <1>4 DEF RowTellsItsState, VersionsOf
  <2>1. CASE j = i
    BY <1>1, <1>2, <1>4, <1>5, <1>6, <1>7, <2>1
  <2>2. CASE j # i
    BY <1>1, <1>4, <1>6, <2>2 DEF Serial, RowTellsItsState, VersionsOf
  <2> QED
    BY <2>1, <2>2
<1> QED
  BY <1>1, <1>4, <1>8, CommitSerial

\* A deletion marks the views of the rule, and touches no other rule.
LEMMA DeleteSerial ==
  ASSUME TypeOK, Serial, NEW c \in Clients, CommitDelete(c)
  PROVE  Serial'
<1> DEFINE i == requests[c].rule
<1>1. /\ history' = history \ VersionsOf(i)
      /\ records' = [records EXCEPT ![i] = NoRecord]
      /\ Finish(c) /\ Busy(c)
      /\ \A d \in Clients :
           views'[d] = IF views[d] # NoView /\ views[d].rule = i
                       THEN [views[d] EXCEPT !.gone = TRUE] ELSE views[d]
  BY DEF CommitDelete, Committing, Busy
<1> HIDE DEF i
<1>2. Live' = Live \ {i} /\ \A j \in Live' : records'[j] = records[j]
  BY <1>1 DEF Live, TypeOK
<1>3. ViewsSee'
  <2> SUFFICES ASSUME NEW d \in Clients, views'[d] # NoView, ~views'[d].gone
               PROVE  /\ views[d] # NoView /\ ~views[d].gone /\ views[d].rule # i
                      /\ views'[d] = views[d]
    BY <1>2 DEF Serial, ViewsSee
  <2>1. views[d] # NoView => views[d] \in Views
    BY DEF TypeOK
  <2> QED
    BY <1>1, <2>1 DEF Views
<1>4. RowTellsItsState'
  BY <1>1, <1>2 DEF Serial, RowTellsItsState, VersionsOf
<1> QED
  BY <1>1, <1>3, <1>4, CommitSerial

LEMMA SerialStep ==
  ASSUME MaxInFlight <= 1, IsFiniteSet(Clients), TypeOK, Serial, [Next]_vars
  PROVE  Serial'
<1>1. CASE UNCHANGED vars
  BY <1>1 DEF vars, Serial, Alone, Current, Checked, ViewsSee, ActsOnView,
              RowTellsItsState, Busy, Mutating, Committing, Live, VersionsOf
<1> QED
  BY <1>1, ViewSerial, StartsSerial, MovesSerial, CreateSerial, DraftSerial,
     PublishSerial, DeleteSerial DEF Next

-----------------------------------------------------------------------------
(* Theorems *)

\* Without overlap a row tells where its rule stands, whatever stale views the
\* clients act on.
THEOREM RowsTellTheirState ==
  ASSUME MaxInFlight <= 1, IsFiniteSet(Clients)
  PROVE  Spec => []RowTellsItsState
<1>1. TypeOK /\ Serial /\ [Next]_vars => Serial'
  BY SerialStep
<1>2. Serial => RowTellsItsState
  BY DEF Serial
<1> QED
  BY <1>1, <1>2, TypeCorrect, SerialInit, PTL DEF Spec

\* Nobody overwrites or deletes what they have not seen, as long as requests do
\* not overlap: the comparison of lock values achieves that.
THEOREM OverwritesAreSeen ==
  ASSUME MaxInFlight <= 1, IsFiniteSet(Clients)
  PROVE  Spec => NoSilentOverwrite
<1> DEFINE Seen ==
      \A c \in Clients : \A i \in Live :
        /\ requests[c] # Idle /\ requests'[c] = Idle
        /\ records'[i] # records[i]
        /\ ~views[c].gone
        => i = views[c].rule /\ records[i] = views[c].row
<1>1. ASSUME TypeOK, Serial, [Next]_vars
      PROVE  [Seen]_vars
  <2> SUFFICES ASSUME NEW d \in Clients,
                      CommitCreate(d) \/ CommitDraft(d) \/ CommitPublish(d) \/ CommitDelete(d),
                      NEW c \in Clients, NEW i \in Live,
                      requests[c] # Idle, requests'[c] = Idle, records'[i] # records[i],
                      ~views[c].gone
               PROVE  i = views[c].rule /\ records[i] = views[c].row
    <3>1. ASSUME NEW d \in Clients,
                 \/ View(d)
                 \/ StartCreate(d) \/ StartSave(d) \/ StartPublish(d)
                 \/ StartRollback(d) \/ StartDelete(d)
                 \/ ReadSource(d) \/ CheckType(d) \/ NumberVersion(d) \/ Abort(d)
          PROVE  UNCHANGED records
      BY <3>1 DEF View, StartCreate, StartSave, StartPublish, StartRollback,
                  StartMutation, StartDelete, ReadSource, CheckType, NumberVersion, Abort
    <3> QED
      BY <1>1, <3>1 DEF Next
  <2>1. requests[d].pc = "commit" /\ requests' = [requests EXCEPT ![d] = Idle]
    BY DEF CommitCreate, CommitDraft, CommitPublish, CommitDelete, Committing, Finish
  <2>2. c = d
    BY <1>1, <2>1 DEF TypeOK
  <2>3. ~CommitCreate(d)
    <3> SUFFICES ASSUME CommitCreate(d) PROVE FALSE
      OBVIOUS
    <3>1. PICK k \in RuleIds :
            IsNextId(k) /\ records' = [records EXCEPT ![k] = NewRow(requests[d].content)]
      BY DEF CommitCreate
    <3>2. k \notin Live
      BY <3>1, RuleConfigsAssumption DEF IsNextId, Live, RuleIds
    <3> QED
      BY <1>1, <3>1, <3>2 DEF TypeOK, Live
  <2>4. requests[d].op # "create" /\ requests[d].rule = i
    BY <1>1, <2>3 DEF CommitDraft, CommitPublish, CommitDelete, Committing, UpdateRule,
                      TypeOK, Live
  <2>5. Busy(d)
    BY <2>1 DEF Busy
  <2> QED
    BY <1>1, <2>2, <2>4, <2>5 DEF Serial, ActsOnView
<1>2. TypeOK /\ Serial /\ [Next]_vars => Serial'
  BY SerialStep
<1> QED
  BY <1>1, <1>2, TypeCorrect, SerialInit, PTL DEF Spec, NoSilentOverwrite

\* What a commit does to a rule that was published before it, without overlap:
\* only the rule of the request changes, and its type does not.
LEMMA CommitKeepsType ==
  ASSUME TypeOK, Serial, NEW c \in Clients,
         CommitDraft(c) \/ CommitPublish(c)
  PROVE  LET i == requests[c].rule
         IN  /\ i \in Live /\ Live' = Live /\ records[i] \in Records
             /\ \A j \in Live \ {i} : records'[j] = records[j]
             /\ records'[i].type = requests[c].content.type
             /\ records[i].published # 0 => records'[i].type = records[i].type
             /\ CommitDraft(c) => records'[i].published = records[i].published
             /\ CommitPublish(c) => records'[i].published = requests[c].version
<1> DEFINE i == requests[c].rule
<1> DEFINE loaded == requests[c].loaded
<1> DEFINE content == requests[c].content
<1>1. /\ Mutating(c) /\ Busy(c) /\ requests[c].pc = "commit"
      /\ loaded \in Records /\ content \in Contents /\ requests[c].version \in Nat
  BY DEF CommitDraft, CommitPublish, Committing, Mutating, Busy, TypeOK,
         HoldsWhatItNeeds, Requests
<1>2. PICK new \in Records :
        /\ UpdateRule(c, new)
        /\ new.lock = loaded.lock + 1 /\ new.type = content.type
        /\ CommitDraft(c) => new.published = loaded.published
        /\ CommitPublish(c) => new.published = requests[c].version
  <2>1. CASE CommitDraft(c)
    <3> DEFINE new == DraftRow(loaded, content)
    <3>1. ~CommitPublish(c)
      BY <2>1 DEF CommitDraft, CommitPublish, Committing
    <3>2. UpdateRule(c, new) /\ new \in Records /\ new.lock = loaded.lock + 1
          /\ new.type = content.type /\ new.published = loaded.published
      BY <1>1, <2>1, NewRowsType DEF CommitDraft, DraftRow
    <3> QED
      BY <3>1, <3>2
  <2>2. CASE CommitPublish(c)
    <3> DEFINE new == PublishedRow(loaded, content, requests[c].version)
    <3>1. ~CommitDraft(c)
      BY <2>2 DEF CommitDraft, CommitPublish, Committing
    <3>2. UpdateRule(c, new) /\ new \in Records /\ new.lock = loaded.lock + 1
          /\ new.type = content.type /\ new.published = requests[c].version
      BY <1>1, <2>2, NewRowsType DEF CommitPublish, PublishedRow
    <3> QED
      BY <3>1, <3>2
  <2> QED
    BY <2>1, <2>2
<1>3. /\ i \in Live /\ Live' = Live
      /\ records[i] = loaded /\ records[i] \in Records
      /\ records'[i] = new
      /\ \A j \in Live \ {i} : records'[j] = records[j]
  BY <1>1, <1>2, UpdateSerial
<1>4. loaded.published # 0 => content.type = loaded.type
  BY <1>1 DEF Serial, Checked
<1> QED
  BY <1>2, <1>3, <1>4

\* Without overlap the query type of a published rule never changes.
THEOREM PublishedTypesAreStable ==
  ASSUME MaxInFlight <= 1, IsFiniteSet(Clients)
  PROVE  Spec => PublishedTypeIsStable
<1> DEFINE Stable ==
      \A i \in Live \cap Live' :
        records[i].published # 0 => records'[i].type = records[i].type
<1>1. ASSUME TypeOK, Serial, [Next]_vars
      PROVE  [Stable]_vars
  <2> SUFFICES ASSUME NEW c \in Clients,
                      \/ View(c)
                      \/ StartCreate(c) \/ StartSave(c) \/ StartPublish(c)
                      \/ StartRollback(c) \/ StartDelete(c)
                      \/ ReadSource(c) \/ CheckType(c) \/ NumberVersion(c) \/ Abort(c)
                      \/ CommitCreate(c) \/ CommitDraft(c) \/ CommitPublish(c)
                      \/ CommitDelete(c)
               PROVE  Stable
    BY <1>1 DEF Next
  <2>1. CASE CommitCreate(c)
    <3>1. PICK k \in RuleIds :
            IsNextId(k) /\ records' = [records EXCEPT ![k] = NewRow(requests[c].content)]
      BY <2>1 DEF CommitCreate
    <3>2. k \notin Live
      BY <3>1, RuleConfigsAssumption DEF IsNextId, Live, RuleIds
    <3> QED
      BY <1>1, <3>1, <3>2 DEF TypeOK, Live
  <2>2. CASE CommitDraft(c) \/ CommitPublish(c)
    BY <1>1, <2>2, CommitKeepsType
  <2>3. CASE CommitDelete(c)
    BY <1>1, <2>3 DEF CommitDelete, TypeOK, Live
  <2> QED
    BY <2>1, <2>2, <2>3
       DEF View, StartCreate, StartSave, StartPublish, StartRollback, StartMutation,
           StartDelete, ReadSource, CheckType, NumberVersion, Abort
<1>2. TypeOK /\ Serial /\ [Next]_vars => Serial'
  BY SerialStep
<1> QED
  BY <1>1, <1>2, TypeCorrect, SerialInit, PTL DEF Spec, PublishedTypeIsStable

-----------------------------------------------------------------------------
(* What the runtime sees *)

\* No version has the number that stands for "never published".
Numbered ==
  /\ \A h \in history : h.version # 0
  /\ \A c \in Clients : Committing(c, {"publish"}) => requests[c].version # 0

LEMMA NumberedInit == Init => Numbered
BY DEF Init, Numbered, Committing, Idle

LEMMA NumberedStep == TypeOK /\ Numbered /\ [Next]_vars => Numbered'
<1> SUFFICES ASSUME TypeOK, Numbered, [Next]_vars
             PROVE  Numbered'
  OBVIOUS
<1>1. CASE UNCHANGED vars
  BY <1>1 DEF vars, Numbered, Committing
<1>2. ASSUME NEW c \in Clients,
             View(c) \/ StartCreate(c) \/ StartSave(c) \/ StartPublish(c)
               \/ StartRollback(c) \/ StartDelete(c) \/ Abort(c)
      PROVE  Numbered'
  <2>1. UNCHANGED history
    BY <1>2 DEF View, StartCreate, StartSave, StartPublish, StartRollback, StartMutation,
                StartDelete, Abort
  <2>2. ~Committing(c, {"publish"})' \/ requests' = requests
    <3>1. CASE View(c)
      BY <3>1 DEF View
    <3>2. CASE StartCreate(c)
      BY <3>2 DEF StartCreate, Committing, Idle, TypeOK
    <3>4. CASE StartDelete(c)
      BY <3>4 DEF StartDelete, Committing, Idle, TypeOK
    <3>5. CASE Abort(c)
      BY <3>5 DEF Abort, Committing, Idle, TypeOK
    <3>3. CASE StartSave(c) \/ StartPublish(c) \/ StartRollback(c)
      BY <3>3 DEF StartSave, StartPublish, StartRollback, StartMutation, Committing, TypeOK
    <3> QED
      BY <1>2, <3>1, <3>2, <3>3, <3>4, <3>5
  <2>3. \A d \in Clients \ {c} : requests'[d] = requests[d]
    BY <1>2 DEF View, StartCreate, StartSave, StartPublish, StartRollback, StartMutation,
                StartDelete, Abort, TypeOK
  <2> QED
    BY <2>1, <2>2, <2>3 DEF Numbered, Committing
<1>3. ASSUME NEW c \in Clients, ReadSource(c) \/ CheckType(c)
      PROVE  Numbered'
  <2>1. /\ UNCHANGED history
        /\ \A d \in Clients \ {c} : requests'[d] = requests[d]
    BY <1>3 DEF ReadSource, CheckType, TypeOK
  <2>2. ~Committing(c, {"publish"})'
    <3>1. requests[c] \in Requests
      BY DEF TypeOK
    <3>2. CASE ReadSource(c)
      BY <3>1, <3>2 DEF ReadSource, Committing, TypeOK, Requests
    <3>3. CASE CheckType(c)
      BY <3>1, <3>3 DEF CheckType, Committing, TypeOK, Requests
    <3> QED
      BY <1>3, <3>2, <3>3
  <2> QED
    BY <2>1, <2>2 DEF Numbered, Committing
<1>4. ASSUME NEW c \in Clients, NumberVersion(c)
      PROVE  Numbered'
  <2>1. PICK v \in 1..MaxVersions :
          requests' = [requests EXCEPT ![c].pc = "commit", ![c].version = v]
    BY <1>4 DEF NumberVersion
  <2>2. /\ UNCHANGED history
        /\ \A d \in Clients \ {c} : requests'[d] = requests[d]
        /\ requests'[c].version = v
    BY <1>4, <2>1 DEF NumberVersion, TypeOK, Requests
  <2>3. v # 0
    BY RuleConfigsAssumption
  <2> QED
    BY <2>2, <2>3 DEF Numbered, Committing
<1>5. ASSUME NEW c \in Clients,
             CommitCreate(c) \/ CommitDraft(c) \/ CommitPublish(c) \/ CommitDelete(c)
      PROVE  Numbered'
  <2>1. /\ \A d \in Clients \ {c} : requests'[d] = requests[d]
        /\ ~Committing(c, {"publish"})'
    BY <1>5 DEF CommitCreate, CommitDraft, CommitPublish, CommitDelete, Finish, Committing,
                Idle, TypeOK
  <2>2. \A h \in history' : h.version # 0
    BY <1>5 DEF Numbered, CommitCreate, CommitDraft, CommitPublish, CommitDelete
  <2> QED
    BY <2>1, <2>2 DEF Numbered, Committing
<1> QED
  BY <1>1, <1>2, <1>3, <1>4, <1>5 DEF Next

\* The version row h is what a lookup of "type" finds.
Answers(h, type) ==
  h.rule \in Live /\ records[h.rule].type = type /\ records[h.rule].published = h.version

\* Lookups see the same if the same rows answer.
LEMMA SameRuntime ==
  ASSUME NEW type \in Types,
         \A h : (h \in history' /\ Answers(h, type)') <=> (h \in history /\ Answers(h, type))
  PROVE  Runtime(type)' = Runtime(type)
BY DEF Runtime, Answers

\* A new rule has no version to answer with.
LEMMA CreateKeepsRuntime ==
  ASSUME TypeOK, Consistent, Numbered, NEW c \in Clients, CommitCreate(c), NEW type \in Types
  PROVE  Runtime(type)' = Runtime(type)
<1>1. PICK i \in RuleIds :
        IsNextId(i) /\ records' = [records EXCEPT ![i] = NewRow(requests[c].content)]
  BY DEF CommitCreate
<1>2. i \notin Live
  BY <1>1, RuleConfigsAssumption DEF IsNextId, Live, RuleIds
<1>3. \A h \in history : h.rule \in Live /\ h.rule # i /\ h.rule \in RuleIds
  BY <1>2 DEF Consistent, HistoryHasRule, Live
<1>4. \A j \in RuleIds \ {i} : records'[j] = records[j] /\ (j \in Live' <=> j \in Live)
  BY <1>1 DEF TypeOK, Live
<1>5. UNCHANGED history
  BY DEF CommitCreate
<1>6. \A h \in history : Answers(h, type)' <=> Answers(h, type)
  BY <1>3, <1>4 DEF Answers
<1> QED
  BY <1>5, <1>6, SameRuntime

\* A draft of a published rule keeps its type, any other draft has no version.
LEMMA DraftKeepsRuntime ==
  ASSUME TypeOK, Serial, Numbered, NEW c \in Clients, CommitDraft(c), NEW type \in Types
  PROVE  Runtime(type)' = Runtime(type)
<1> DEFINE i == requests[c].rule
<1>1. /\ i \in Live /\ Live' = Live
      /\ \A j \in Live \ {i} : records'[j] = records[j]
      /\ records[i].published # 0 => records'[i].type = records[i].type
      /\ records'[i].published = records[i].published
  BY CommitKeepsType
<1>2. UNCHANGED history
  BY DEF CommitDraft
<1> HIDE DEF i
<1>3. ASSUME NEW h \in history
      PROVE  Answers(h, type)' <=> Answers(h, type)
  <2>1. h.version # 0
    BY DEF Numbered
  <2>2. CASE h.rule = i
    BY <1>1, <2>1, <2>2 DEF Answers
  <2>3. CASE h.rule # i
    BY <1>1, <2>3 DEF Answers
  <2> QED
    BY <2>2, <2>3
<1> QED
  BY <1>2, <1>3, SameRuntime

\* Publishing changes the lookup of the rule's type, to the version it adds.
LEMMA PublishReachesRuntime ==
  ASSUME TypeOK, Serial, Consistent', Numbered, NEW c \in Clients, CommitPublish(c),
         NEW type \in Types, Runtime(type)' # Runtime(type)
  PROVE  \E r \in history' \ history : r.content.type = type /\ Runtime(type)' = {r.content}
<1> DEFINE i == requests[c].rule
<1> DEFINE v == requests[c].version
<1> DEFINE added == [rule |-> i, version |-> v, content |-> requests[c].content]
<1>1. /\ i \in Live /\ Live' = Live
      /\ \A j \in Live \ {i} : records'[j] = records[j]
      /\ records'[i].type = requests[c].content.type
      /\ records[i].published # 0 => records'[i].type = records[i].type
      /\ records'[i].published = v
  BY CommitKeepsType DEF CommitPublish
<1>2. history' = history \cup {added} /\ Committing(c, {"publish"})
  BY DEF CommitPublish
<1>3. added.rule = i /\ added.version = v /\ added.content = requests[c].content
  OBVIOUS
<1>4. v # 0 /\ v \in Nat
  BY <1>2 DEF Numbered, TypeOK, Requests
<1>5. \A h \in history : h.rule = i => h.version # v /\ h.version # 0
  <2>1. \A h \in history : h.version \in Nat
    BY DEF TypeOK, VersionRows
  <2> QED
    BY <1>2, <1>4, <2>1 DEF Serial, Checked, VersionsOf, Numbered
<1> HIDE DEF i, v, added
<1>6. records'[i].type = type
  <2> SUFFICES ASSUME records'[i].type # type
               PROVE  Runtime(type)' = Runtime(type)
    OBVIOUS
  <2>1. \A h \in {added} : ~Answers(h, type)' /\ h \notin history
    BY <1>1, <1>3, <1>5 DEF Answers
  <2>2. ASSUME NEW h \in history
        PROVE  Answers(h, type)' <=> Answers(h, type)
    <3>1. CASE h.rule = i
      BY <1>1, <1>5, <3>1 DEF Answers
    <3>2. CASE h.rule # i
      BY <1>1, <3>2 DEF Answers
    <3> QED
      BY <3>1, <3>2
  <2> QED
    BY <1>2, <2>1, <2>2, SameRuntime
<1>7. \A h \in history' : Answers(h, type)' <=> h = added
  <2>1. \A h \in {added} : Answers(h, type)'
    BY <1>1, <1>3, <1>6 DEF Answers
  <2>2. ASSUME NEW h \in history, Answers(h, type)'
        PROVE  FALSE
    <3>1. h.rule = i
      BY <1>1, <1>6, <2>2 DEF Answers, Consistent, KeysAreUnique
    <3> QED
      BY <1>1, <1>5, <2>2, <3>1 DEF Answers
  <2> QED
    BY <1>2, <2>1, <2>2
<1>8. Runtime(type)' = {added.content}
  BY <1>2, <1>7 DEF Runtime, Answers
<1>9. added \notin history
  BY <1>3, <1>5
<1> QED
  BY <1>1, <1>2, <1>3, <1>6, <1>8, <1>9

\* Deleting a rule leaves the lookup of its type without an answer.
LEMMA DeleteReachesRuntime ==
  ASSUME TypeOK, Consistent, NEW c \in Clients, CommitDelete(c),
         NEW type \in Types, Runtime(type)' # Runtime(type)
  PROVE  Runtime(type)' = {} /\ \E i \in Live \ Live' : records[i].type = type
<1> DEFINE i == requests[c].rule
<1>1. /\ history' = history \ VersionsOf(i)
      /\ records' = [records EXCEPT ![i] = NoRecord]
  BY DEF CommitDelete
<1> HIDE DEF i
<1>2. Live' = Live \ {i} /\ \A j \in Live' : records'[j] = records[j]
  BY <1>1 DEF Live, TypeOK
<1>3. \A h \in history' : h \in history /\ h.rule # i
                          /\ (Answers(h, type)' <=> Answers(h, type))
  BY <1>1, <1>2 DEF VersionsOf, Answers
<1>4. PICK h \in history : h.rule = i /\ Answers(h, type)
  <2> SUFFICES ASSUME \A h \in history : Answers(h, type) => h.rule # i
               PROVE  Runtime(type)' = Runtime(type)
    OBVIOUS
  <2>1. \A h \in history : Answers(h, type) => h \in history'
    BY <1>1 DEF VersionsOf
  <2> QED
    BY <1>3, <2>1, SameRuntime
<1>5. i \in Live /\ records[i].type = type
  BY <1>4 DEF Answers
<1>6. \A g \in history' : ~Answers(g, type)'
  BY <1>2, <1>3, <1>5 DEF Answers, Consistent, KeysAreUnique
<1>7. Runtime(type)' = {}
  BY <1>6 DEF Runtime, Answers
<1> QED
  BY <1>2, <1>5, <1>7

\* Without overlap, a lookup of a query type changes only by a publication or a
\* deletion of the rule with that type: drafts and rollbacks never reach it.
THEOREM OnlyPublishedIsLookedUp ==
  ASSUME MaxInFlight <= 1, IsFiniteSet(Clients)
  PROVE  Spec => OnlyPublishingReachesRuntime
<1> DEFINE Reaches ==
      \A type \in Types : Runtime(type)' # Runtime(type) =>
        \/ Runtime(type)' = {}
             /\ \E i \in Live \ Live' : records[i].type = type
        \/ \E r \in history' \ history :
             r.content.type = type /\ Runtime(type)' = {r.content}
<1>1. ASSUME TypeOK, Serial, Consistent, Numbered, [Next]_vars, Consistent'
      PROVE  [Reaches]_vars
  <2>1. ASSUME NEW c \in Clients,
               \/ View(c)
               \/ StartCreate(c) \/ StartSave(c) \/ StartPublish(c)
               \/ StartRollback(c) \/ StartDelete(c)
               \/ ReadSource(c) \/ CheckType(c) \/ NumberVersion(c) \/ Abort(c),
               NEW type \in Types
        PROVE  Runtime(type)' = Runtime(type)
    <3>1. UNCHANGED <<records, history>>
      BY <2>1 DEF View, StartCreate, StartSave, StartPublish, StartRollback, StartMutation,
                  StartDelete, ReadSource, CheckType, NumberVersion, Abort
    <3> QED
      BY <3>1 DEF Runtime, Live
  <2> QED
    BY <1>1, <2>1, CreateKeepsRuntime, DraftKeepsRuntime, PublishReachesRuntime,
       DeleteReachesRuntime DEF Next
<1>2. TypeOK /\ Serial /\ [Next]_vars => Serial'
  BY SerialStep
<1>3. TypeOK /\ Consistent /\ [Next]_vars => Consistent'
  BY ConsistentStep
<1> QED
  BY <1>1, <1>2, <1>3, TypeCorrect, SerialInit, ConsistentInit, NumberedInit, NumberedStep,
     PTL DEF Spec, OnlyPublishingReachesRuntime

-----------------------------------------------------------------------------
(* The rules as their readers find them *)

\* A publication about to commit has the number that follows the last one.
NumberedNext ==
  \A c \in Clients : Committing(c, {"publish"}) =>
    LET n == requests[c].version
    IN /\ n \in 1..MaxVersions
       /\ n = 1 \/ \E r \in VersionsOf(requests[c].rule) : r.version = n - 1

LEMMA NumberedNextInit == Init => NumberedNext
BY DEF Init, NumberedNext, Committing, Idle

LEMMA NumberedNextStep ==
  ASSUME TypeOK, Serial, NumberedNext, [Next]_vars
  PROVE  NumberedNext'
<1>1. CASE UNCHANGED vars
  BY <1>1 DEF vars, NumberedNext, Committing, VersionsOf
<1>2. ASSUME NEW c \in Clients, NumberVersion(c)
      PROVE  NumberedNext'
  <2>1. PICK v \in 1..MaxVersions :
          /\ IsNextVersion(requests[c].rule, v)
          /\ requests' = [requests EXCEPT ![c].pc = "commit", ![c].version = v]
    BY <1>2 DEF NumberVersion
  <2>2. /\ UNCHANGED history
        /\ \A d \in Clients \ {c} : requests'[d] = requests[d]
        /\ requests'[c].version = v /\ requests'[c].rule = requests[c].rule
    BY <1>2, <2>1 DEF NumberVersion, TypeOK, Requests
  <2>3. v = 1 \/ \E r \in VersionsOf(requests[c].rule) : r.version = v - 1
    BY <2>1 DEF IsNextVersion
  <2>4. v \in 1..MaxVersions /\ \A i : VersionsOf(i)' = VersionsOf(i)
    BY <2>2 DEF VersionsOf
  <2>5. ASSUME NEW d \in Clients, Committing(d, {"publish"})'
        PROVE  LET n == requests'[d].version
               IN /\ n \in 1..MaxVersions
                  /\ n = 1 \/ \E r \in VersionsOf(requests'[d].rule) : r.version = n - 1
    <3>1. CASE d = c
      BY <2>2, <2>3, <2>4, <3>1
    <3>2. CASE d # c
      BY <2>2, <2>5, <3>2 DEF NumberedNext, Committing
    <3> QED
      BY <3>1, <3>2
  <2>6. \A d \in Clients : VersionsOf(requests'[d].rule) = VersionsOf(requests[d].rule)'
    BY <2>2 DEF VersionsOf
  <2> QED
    BY <2>5, <2>6 DEF NumberedNext
<1>3. ASSUME NEW c \in Clients,
             View(c) \/ StartCreate(c) \/ StartSave(c) \/ StartPublish(c)
               \/ StartRollback(c) \/ StartDelete(c) \/ Abort(c)
               \/ ReadSource(c) \/ CheckType(c)
      PROVE  NumberedNext'
  <2>1. UNCHANGED history
    BY <1>3 DEF View, StartCreate, StartSave, StartPublish, StartRollback, StartMutation,
                StartDelete, Abort, ReadSource, CheckType
  <2>2. ~Committing(c, {"publish"})' \/ requests' = requests
    <3>1. CASE View(c)
      BY <3>1 DEF View
    <3>2. CASE StartCreate(c)
      BY <3>2 DEF StartCreate, Committing, Idle, TypeOK
    <3>3. CASE StartSave(c) \/ StartPublish(c) \/ StartRollback(c)
      BY <3>3 DEF StartSave, StartPublish, StartRollback, StartMutation, Committing, TypeOK
    <3>4. CASE StartDelete(c)
      BY <3>4 DEF StartDelete, Committing, Idle, TypeOK
    <3>5. CASE Abort(c)
      BY <3>5 DEF Abort, Committing, Idle, TypeOK
    <3>6. CASE ReadSource(c)
      BY <3>6 DEF ReadSource, Committing, TypeOK, Requests
    <3>7. CASE CheckType(c)
      BY <3>7 DEF CheckType, Committing, TypeOK, Requests
    <3> QED
      BY <1>3, <3>1, <3>2, <3>3, <3>4, <3>5, <3>6, <3>7
  <2>3. \A d \in Clients \ {c} : requests'[d] = requests[d]
    BY <1>3 DEF View, StartCreate, StartSave, StartPublish, StartRollback, StartMutation,
                StartDelete, Abort, ReadSource, CheckType, TypeOK
  <2> QED
    BY <2>1, <2>2, <2>3 DEF NumberedNext, Committing, VersionsOf
<1>4. ASSUME NEW c \in Clients,
             CommitCreate(c) \/ CommitDraft(c) \/ CommitPublish(c) \/ CommitDelete(c)
      PROVE  NumberedNext'
  <2>1. /\ \A d \in Clients \ {c} : requests'[d] = requests[d]
        /\ ~Committing(c, {"publish"})' /\ Busy(c)
    BY <1>4 DEF CommitCreate, CommitDraft, CommitPublish, CommitDelete, Finish, Committing,
                Idle, TypeOK, Busy
  <2>2. \A d \in Clients \ {c} : ~Committing(d, {"publish"})
    BY <2>1 DEF Serial, Alone, Busy, Committing
  <2> QED
    BY <2>1, <2>2 DEF NumberedNext, Committing
<1> QED
  BY <1>1, <1>2, <1>3, <1>4 DEF Next

\* A step that shows one rule differently.
LEMMA BookWith ==
  ASSUME NEW i \in RuleIds, NEW rule, Live' = Live \cup {i}, Shown(i)' = rule,
         \A j \in Live \ {i} : Shown(j)' = Shown(j)
  PROVE  [j \in Live |-> Shown(j)]' = Book!With(i, rule)
BY DEF Book!With, Book!Present

LEMMA ShownStays ==
  ASSUME NEW j, records'[j] = records[j],
         \A h : h.rule = j => (h \in history' <=> h \in history)
  PROVE  Shown(j)' = Shown(j)
<1>1. VersionsOf(j)' = VersionsOf(j)
  BY DEF VersionsOf
<1> QED
  BY <1>1 DEF Shown

LEMMA TypeFreeInBook ==
  ASSUME RowTellsItsState, NEW i, NEW type, TypeIsFree(i, type)
  PROVE  Book!IsFree(i, type)
BY DEF TypeIsFree, RowTellsItsState, Book!IsFree, Book!Present, Shown

\* What runs was published.
LEMMA RunsIsPublished ==
  ASSUME Numbered, NEW i \in Live, Shown(i).runs # {}
  PROVE  records[i].published # 0
BY DEF Numbered, Shown, VersionsOf

LEMMA CreateKeepsBook ==
  ASSUME TypeOK, Serial, Consistent, NEW c \in Clients, CommitCreate(c)
  PROVE  Book!Next
<1> DEFINE text == requests[c].content
<1>1. PICK i \in RuleIds :
        /\ IsNextId(i) /\ TypeIsFree(i, text.type)
        /\ records' = [records EXCEPT ![i] = NewRow(text)]
  BY DEF CommitCreate
<1>2. text \in Contents
  BY DEF CommitCreate, Committing, TypeOK, HoldsWhatItNeeds
<1>20. NewRow(text) \in Records
  BY <1>2 DEF NewRow, Records, Contents
<1>3. i \notin Live
  BY <1>1, RuleConfigsAssumption DEF IsNextId, Live, RuleIds
<1>4. UNCHANGED history
  BY DEF CommitCreate
<1> HIDE DEF text
<1>5. records'[i] = NewRow(text) /\ \A j \in Live \ {i} : records'[j] = records[j]
  BY <1>1 DEF TypeOK, Live
<1>6. Live' = Live \cup {i}
  BY <1>1, <1>20, <1>5, RuleConfigsAssumption DEF Live, TypeOK
<1>7. VersionsOf(i)' = {}
  BY <1>3, <1>4 DEF VersionsOf, Consistent, HistoryHasRule
<1>8. Shown(i)' = [text |-> text, runs |-> {}, published |-> {}]
  BY <1>5, <1>7 DEF Shown, NewRow
<1>9. \A j \in Live \ {i} : Shown(j)' = Shown(j)
  BY <1>4, <1>5, ShownStays
<1>10. [j \in Live |-> Shown(j)]' = Book!With(i, [text |-> text, runs |-> {}, published |-> {}])
  BY <1>6, <1>8, <1>9, BookWith
<1>11. Book!IsFree(i, text.type)
  BY <1>1, TypeFreeInBook DEF Serial
<1>12. i \notin Book!Present
  BY <1>3 DEF Book!Present
<1>13. Book!Create(i)
  BY <1>2, <1>10, <1>11, <1>12 DEF Book!Create
<1> QED
  BY <1>13 DEF Book!Next

LEMMA DraftKeepsBook ==
  ASSUME TypeOK, Serial, Numbered, NEW c \in Clients, CommitDraft(c)
  PROVE  Book!Next
<1>0. PICK i, text, new :
        /\ i = requests[c].rule /\ text = requests[c].content
        /\ new = DraftRow(requests[c].loaded, text)
  OBVIOUS
<1>1. Mutating(c) /\ Busy(c) /\ UpdateRule(c, new) /\ UNCHANGED history
  BY <1>0 DEF CommitDraft, Committing, Mutating, Busy
<1>2. requests[c].loaded \in Records /\ text \in Contents
  BY <1>0 DEF CommitDraft, Committing, TypeOK, HoldsWhatItNeeds
<1>3. new \in Records /\ new.lock = requests[c].loaded.lock + 1
  BY <1>0, <1>2, NewRowsType DEF DraftRow
<1>4. /\ i \in Live /\ Live' = Live /\ i \in RuleIds
      /\ records[i] = requests[c].loaded
      /\ records'[i] = new
      /\ \A j \in Live \ {i} : records'[j] = records[j]
  BY <1>0, <1>1, <1>3, UpdateSerial DEF Live
<1>5. new.content = text /\ new.type = text.type /\ new.published = records[i].published
  BY <1>0, <1>4 DEF DraftRow
<1>6. records[i].published # 0 => text.type = records[i].type
  BY <1>0, <1>4 DEF CommitDraft, Committing, Mutating, Serial, Checked
<1>7. \A j \in Live \ {i} : records[j].type # text.type
  BY <1>0, <1>1, <1>2, <1>3, <1>4, <1>5, UpdateRuleFacts
<1>8. VersionsOf(i)' = VersionsOf(i)
  BY <1>1 DEF VersionsOf
<1>9. Shown(i)' = [Shown(i) EXCEPT !.text = text]
  <2>1. records'[i].content = text /\ records'[i].published = records[i].published
    BY <1>4, <1>5
  <2>2. Shown(i)' = [text |-> text, runs |-> Shown(i).runs, published |-> Shown(i).published]
    BY <1>8, <2>1 DEF Shown
  <2>3. Shown(i) = [text |-> Shown(i).text, runs |-> Shown(i).runs,
                    published |-> Shown(i).published]
    BY DEF Shown
  <2> HIDE DEF Shown
  <2> QED
    BY <2>2, <2>3
<1>10. \A j \in Live \ {i} : Shown(j)' = Shown(j)
  BY <1>1, <1>4, ShownStays
<1>11. [j \in Live |-> Shown(j)]' = Book!With(i, [Shown(i) EXCEPT !.text = text])
  BY <1>4, <1>9, <1>10, BookWith
<1>12. Book!IsFree(i, text.type)
  BY <1>7, TypeFreeInBook DEF Serial, TypeIsFree
<1>13. Shown(i).runs # {} => text.type = Shown(i).text.type
  <2>1. records[i].type = records[i].content.type
    BY <1>4 DEF Serial, RowTellsItsState
  <2>2. Shown(i).text = records[i].content
    BY DEF Shown
  <2> QED
    BY <1>4, <1>6, <2>1, <2>2, RunsIsPublished
<1>14. Book!MayBecome(i, text)
  BY <1>4, <1>12, <1>13 DEF Book!MayBecome
<1>15. Book!Edit(i)
  BY <1>2, <1>4, <1>11, <1>14 DEF Book!Edit, Book!Present
<1> QED
  BY <1>4, <1>15 DEF Book!Next

\* A publication is the next one of its rule and becomes what the rule runs on.
LEMMA PublishKeepsBook ==
  ASSUME TypeOK, Serial, Numbered, NumberedNext, NEW c \in Clients, CommitPublish(c)
  PROVE  Book!Next
<1>0. PICK i, text, n, new :
        /\ i = requests[c].rule /\ text = requests[c].content /\ n = requests[c].version
        /\ new = PublishedRow(requests[c].loaded, text, n)
  OBVIOUS
<1>1. /\ Mutating(c) /\ Busy(c) /\ Committing(c, {"publish"}) /\ UpdateRule(c, new)
      /\ history' = history \cup {[rule |-> i, version |-> n, content |-> text]}
  BY <1>0 DEF CommitPublish, Committing, Mutating, Busy
<1>2. requests[c].loaded \in Records /\ text \in Contents
  BY <1>0, <1>1 DEF Committing, TypeOK, HoldsWhatItNeeds
<1>3. n \in 1..MaxVersions /\ n \in Nat
  BY <1>0, <1>1 DEF NumberedNext, TypeOK, Requests
<1>4. new \in Records /\ new.lock = requests[c].loaded.lock + 1
  BY <1>0, <1>2, <1>3, NewRowsType DEF PublishedRow
<1>5. /\ i \in Live /\ Live' = Live /\ i \in RuleIds
      /\ records[i] = requests[c].loaded
      /\ records'[i] = new
      /\ \A j \in Live \ {i} : records'[j] = records[j]
  BY <1>0, <1>1, <1>4, UpdateSerial DEF Live
<1>6. new.content = text /\ new.type = text.type /\ new.published = n
  BY <1>0 DEF PublishedRow
<1>7. records[i].published # 0 => text.type = records[i].type
  BY <1>0, <1>1, <1>5 DEF Committing, Serial, Checked
<1>8. \A j \in Live \ {i} : records[j].type # text.type
  BY <1>0, <1>1, <1>2, <1>4, <1>5, <1>6, UpdateRuleFacts
<1>9. /\ \A r \in VersionsOf(i) : r.version < n
      /\ n = 1 \/ \E r \in VersionsOf(i) : r.version = n - 1
  BY <1>0, <1>1 DEF Serial, Checked, NumberedNext
<1>10. VersionsOf(i)' = VersionsOf(i) \cup {[rule |-> i, version |-> n, content |-> text]}
  BY <1>1 DEF VersionsOf
<1>11. Shown(i)' = [text |-> text, runs |-> {text},
                    published |-> Shown(i).published
                                  \cup {[version |-> n, content |-> text]}]
  <2>1. records'[i].content = text /\ records'[i].published = n
    BY <1>5, <1>6
  <2>2. \A r \in VersionsOf(i) : r.version # n
    <3>1. \A r \in VersionsOf(i) : r.version \in Nat
      BY DEF TypeOK, VersionRows, VersionsOf
    <3> QED
      BY <1>3, <1>9, <3>1
  <2> DEFINE row == [rule |-> i, version |-> n, content |-> text]
  <2>30. row.version = n /\ row.content = text
    OBVIOUS
  <2>31. VersionsOf(i)' = VersionsOf(i) \cup {row}
    BY <1>10
  <2> HIDE DEF row
  <2>32. {h \in VersionsOf(i)' : h.version = n} = {row}
    BY <2>2, <2>30, <2>31
  <2>3. {r.content : r \in {h \in VersionsOf(i)' : h.version = n}} = {text}
    BY <2>30, <2>32
  <2>4. {[version |-> r.version, content |-> r.content] : r \in VersionsOf(i)'}
          = {[version |-> r.version, content |-> r.content] : r \in VersionsOf(i)}
            \cup {[version |-> n, content |-> text]}
    BY <2>30, <2>31
  <2>5. Shown(i)' =
          [text |-> text, runs |-> {r.content : r \in {h \in VersionsOf(i)' : h.version = n}},
           published |-> {[version |-> r.version, content |-> r.content] : r \in VersionsOf(i)'}]
    BY <2>1 DEF Shown
  <2>6. Shown(i).published
          = {[version |-> r.version, content |-> r.content] : r \in VersionsOf(i)}
    BY DEF Shown
  <2> QED
    BY <2>3, <2>4, <2>5, <2>6
<1>12. \A j \in Live \ {i} : Shown(j)' = Shown(j)
  <2>1. \A h : h.rule # i => (h \in history' <=> h \in history)
    BY <1>1
  <2> QED
    BY <1>5, <2>1, ShownStays
<1>13. [j \in Live |-> Shown(j)]'
         = Book!With(i, [text |-> text, runs |-> {text},
                         published |-> Shown(i).published
                                       \cup {[version |-> n, content |-> text]}])
  BY <1>5, <1>11, <1>12, BookWith
<1>14. Book!MayBecome(i, text)
  <2>1. Book!IsFree(i, text.type)
    BY <1>8, TypeFreeInBook DEF Serial, TypeIsFree
  <2>2. records[i].type = records[i].content.type
    BY <1>5 DEF Serial, RowTellsItsState
  <2>3. Shown(i).text = records[i].content
    BY DEF Shown
  <2>4. Shown(i).runs # {} => text.type = Shown(i).text.type
    BY <1>5, <1>7, <2>2, <2>3, RunsIsPublished
  <2> QED
    BY <1>5, <2>1, <2>4 DEF Book!MayBecome
<1>15. /\ \A p \in Shown(i).published : p.version < n
       /\ n = 1 \/ \E p \in Shown(i).published : p.version = n - 1
  <2>1. Shown(i).published
          = {[version |-> r.version, content |-> r.content] : r \in VersionsOf(i)}
    BY DEF Shown
  <2>2. ASSUME NEW r \in VersionsOf(i)
        PROVE  \E p \in Shown(i).published : p.version = r.version
    <3>1. PICK p : p = [version |-> r.version, content |-> r.content]
      OBVIOUS
    <3>2. p \in Shown(i).published /\ p.version = r.version
      BY <2>1, <3>1
    <3> QED
      BY <3>2
  <2>3. \A p \in Shown(i).published : \E r \in VersionsOf(i) : p.version = r.version
    BY <2>1
  <2> QED
    BY <1>9, <2>2, <2>3
<1>16. Book!Publish(i)
  BY <1>2, <1>3, <1>5, <1>13, <1>14, <1>15 DEF Book!Publish, Book!Present
<1> QED
  BY <1>5, <1>16 DEF Book!Next

\* A deletion takes the rule away and nothing else.
LEMMA DeleteKeepsBook ==
  ASSUME TypeOK, Serial, NEW c \in Clients, CommitDelete(c)
  PROVE  Book!Next
<1>0. PICK i : i = requests[c].rule
  OBVIOUS
<1>1. /\ history' = history \ VersionsOf(i)
      /\ records' = [records EXCEPT ![i] = NoRecord]
  BY <1>0 DEF CommitDelete
<1>2. i \in Live
  BY <1>0 DEF CommitDelete, Committing, Serial, Current, Busy
<1>3. /\ Live' = Live \ {i} /\ i \in RuleIds
      /\ \A j \in Live \ {i} : records'[j] = records[j]
  BY <1>1, <1>2 DEF Live, TypeOK
<1>4. \A j \in Live \ {i} : Shown(j)' = Shown(j)
  <2>1. \A h : h.rule # i => (h \in history' <=> h \in history)
    BY <1>1 DEF VersionsOf
  <2> QED
    BY <1>3, <2>1, ShownStays
<1>5. [j \in Live |-> Shown(j)]' = [j \in Live \ {i} |-> Shown(j)]
  BY <1>3, <1>4
<1>6. Book!Delete(i)
  BY <1>2, <1>5 DEF Book!Delete, Book!Present
<1> QED
  BY <1>3, <1>6 DEF Book!Next

\* The rule store implements RuleBook while requests do not overlap: every commit is
\* one change of one rule as it is, and nothing else a request does can be seen.
THEOREM ImplementsBook ==
  ASSUME MaxInFlight <= 1, IsFiniteSet(Clients)
  PROVE  Spec => KeepsBook
<1>1. Init => Book!Init
  BY DEF Init, Book!Init, Live
<1>2. ASSUME TypeOK, Serial, Consistent, Numbered, NumberedNext, [Next]_vars
      PROVE  [Book!Next]_([i \in Live |-> Shown(i)])
  <2>1. ASSUME UNCHANGED <<records, history>>
        PROVE  UNCHANGED [i \in Live |-> Shown(i)]
    BY <2>1 DEF Live, Shown, VersionsOf
  <2>2. CASE UNCHANGED vars
    BY <2>1, <2>2 DEF vars
  <2>3. ASSUME NEW c \in Clients,
               \/ View(c)
               \/ StartCreate(c) \/ StartSave(c) \/ StartPublish(c)
               \/ StartRollback(c) \/ StartDelete(c)
               \/ ReadSource(c) \/ CheckType(c) \/ NumberVersion(c) \/ Abort(c)
        PROVE  UNCHANGED [i \in Live |-> Shown(i)]
    <3>1. UNCHANGED <<records, history>>
      BY <2>3 DEF View, StartCreate, StartSave, StartPublish, StartRollback, StartMutation,
                  StartDelete, ReadSource, CheckType, NumberVersion, Abort
    <3> QED
      BY <2>1, <3>1
  <2> QED
    BY <1>2, <2>2, <2>3, CreateKeepsBook, DraftKeepsBook, PublishKeepsBook, DeleteKeepsBook
       DEF Next
<1>3. TypeOK /\ Serial /\ [Next]_vars => Serial'
  BY SerialStep
<1>4. TypeOK /\ Consistent /\ [Next]_vars => Consistent'
  BY ConsistentStep
<1>5. TypeOK /\ Serial /\ NumberedNext /\ [Next]_vars => NumberedNext'
  BY NumberedNextStep
<1> QED
  BY <1>1, <1>2, <1>3, <1>4, <1>5, TypeCorrect, SerialInit, ConsistentInit, NumberedInit,
     NumberedStep, NumberedNextInit, PTL DEF Spec, KeepsBook, Book!Spec

=============================================================================
