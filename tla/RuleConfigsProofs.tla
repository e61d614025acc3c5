--------------------------- MODULE RuleConfigsProofs ---------------------------
(***************************************************************************)
(* Proofs about RuleConfigs for any number of clients, rules, versions and *)
(* overlapping requests.                                                   *)
(*                                                                         *)
(* Consistent is inductive on its own: no part of it mentions the lock, so *)
(* it does not matter that overlapping requests defeat the lock.           *)
(***************************************************************************)
EXTENDS RuleConfigs, TLAPS

USE RuleConfigsAssumption

\* The initial state is well typed.
LEMMA TypeInit == Init => TypeOK
BY DEF Init, TypeOK, HoldsWhatItNeeds, Idle, RuleIds, Requests, Steps, Ops

\* A step that only replaces a client's request by a well-typed one.
LEMMA RequestStep ==
  ASSUME TypeOK, NEW c \in Clients,
         NEW r \in Requests, HoldsWhatItNeeds(r),
         requests' = [requests EXCEPT ![c] = r],
         UNCHANGED <<records, history, views>>
  PROVE  TypeOK'
BY DEF TypeOK

\* A view, and the start of a request.
LEMMA StartsKeepType ==
  ASSUME TypeOK, NEW c \in Clients,
         View(c) \/ StartCreate(c) \/ StartSave(c) \/ StartPublish(c)
           \/ StartRollback(c) \/ StartDelete(c)
  PROVE  TypeOK'
<1> USE DEF Requests, Steps, Ops, Idle, HoldsWhatItNeeds
<1>1. CASE View(c)
  BY <1>1 DEF View, Views, Live, TypeOK
<1>2. CASE StartCreate(c)
  <2>1. PICK content \in Contents :
          requests' = [requests EXCEPT ![c] =
                         [Idle EXCEPT !.pc = "check", !.op = "create", !.content = content]]
    BY <1>2 DEF StartCreate
  <2> DEFINE r == [Idle EXCEPT !.pc = "check", !.op = "create", !.content = content]
  <2>2. r \in Requests /\ HoldsWhatItNeeds(r)
    OBVIOUS
  <2> QED
    BY <1>2, <2>1, <2>2, RequestStep DEF StartCreate
<1>3. ASSUME NEW op \in {"save", "publish", "rollback"},
             NEW pc \in {"source", "check"},
             NEW content \in Contents \cup {NoContent}, NEW version \in Nat,
             pc = "check" => content \in Contents,
             StartMutation(c, op, pc, content, version)
      PROVE  TypeOK'
  <2> DEFINE r == [pc |-> pc, op |-> op, rule |-> views[c].rule,
                   loaded |-> records[views[c].rule],
                   content |-> content, version |-> version]
  <2>1. /\ views[c].rule \in RuleIds
        /\ records[views[c].rule] \in Records
    BY <1>3 DEF StartMutation, LockMatches, Views, TypeOK
  <2>2. r \in Requests /\ HoldsWhatItNeeds(r)
    BY <1>3, <2>1
  <2> QED
    BY <1>3, <2>2, RequestStep DEF StartMutation
<1>4. CASE StartSave(c)
  BY <1>3, <1>4 DEF StartSave
<1>5. CASE StartPublish(c)
  BY <1>3, <1>5 DEF StartPublish
<1>6. CASE StartRollback(c)
  BY <1>3, <1>6 DEF StartRollback
<1>7. CASE StartDelete(c)
  <2> DEFINE r == [Idle EXCEPT !.pc = "commit", !.op = "delete", !.rule = views[c].rule]
  <2>1. r \in Requests /\ HoldsWhatItNeeds(r)
    BY <1>7 DEF StartDelete, LockMatches, Views, TypeOK
  <2> QED
    BY <1>7, <2>1, RequestStep DEF StartDelete
<1> QED
  BY <1>1, <1>2, <1>4, <1>5, <1>6, <1>7

\* A request between its start and its commit.
LEMMA MovesKeepType ==
  ASSUME TypeOK, NEW c \in Clients,
         ReadSource(c) \/ CheckType(c) \/ NumberVersion(c) \/ Abort(c)
  PROVE  TypeOK'
<1> USE DEF Requests, Steps, Ops, HoldsWhatItNeeds
<1>0. requests[c] \in Requests /\ HoldsWhatItNeeds(requests[c])
  BY DEF TypeOK
<1>1. CASE ReadSource(c)
  <2>1. PICK row \in VersionsOf(requests[c].rule) :
          requests' = [requests EXCEPT ![c].pc = "check", ![c].content = row.content,
                                       ![c].version = 0]
    BY <1>1 DEF ReadSource
  <2>2. row.content \in Contents
    BY <2>1 DEF VersionsOf, VersionRows, TypeOK
  <2> DEFINE r == [requests[c] EXCEPT !.pc = "check", !.content = row.content, !.version = 0]
  <2>3. r \in Requests /\ HoldsWhatItNeeds(r)
    BY <1>0, <2>2
  <2>4. requests' = [requests EXCEPT ![c] = r]
    BY <1>0, <2>1 DEF TypeOK
  <2> QED
    BY <1>1, <2>3, <2>4, RequestStep DEF ReadSource
<1>2. CASE CheckType(c)
  <2> DEFINE r == [requests[c] EXCEPT !.pc =
                     IF requests[c].op = "publish" THEN "number" ELSE "commit"]
  <2>1. r \in Requests /\ HoldsWhatItNeeds(r)
    BY <1>0, <1>2 DEF CheckType
  <2> QED
    BY <1>2, <2>1, RequestStep DEF CheckType
<1>3. CASE NumberVersion(c)
  <2>1. PICK v \in 1..MaxVersions :
          requests' = [requests EXCEPT ![c].pc = "commit", ![c].version = v]
    BY <1>3 DEF NumberVersion
  <2> DEFINE r == [requests[c] EXCEPT !.pc = "commit", !.version = v]
  <2>2. r \in Requests /\ HoldsWhatItNeeds(r)
    <3>1. v \in Nat /\ requests[c].pc = "number"
      BY <1>3 DEF NumberVersion
    <3>2. r = [requests[c] EXCEPT !.pc = "commit", !.version = v]
      OBVIOUS
    <3> HIDE DEF r
    <3> QED
      BY <1>0, <3>1, <3>2
  <2>3. requests' = [requests EXCEPT ![c] = r]
    BY <1>0, <2>1 DEF TypeOK
  <2> QED
    BY <1>3, <2>2, <2>3, RequestStep DEF NumberVersion
<1>4. CASE Abort(c)
  <2>1. Idle \in Requests /\ HoldsWhatItNeeds(Idle)
    BY DEF Idle
  <2> QED
    BY <1>4, <2>1, RequestStep DEF Abort
<1> QED
  BY <1>1, <1>2, <1>3, <1>4

\* The row an UPDATE leaves is a row, whatever the request had loaded.
LEMMA UpdatedType ==
  ASSUME NEW row \in Records, NEW loaded \in Records, NEW new \in Records
  PROVE  Updated(row, loaded, new) \in Records
BY DEF Updated, Written, Records

\* The rows the three mutations write are rows.
LEMMA NewRowsType ==
  ASSUME NEW loaded \in Records, NEW content \in Contents, NEW v \in Nat
  PROVE  /\ DraftRow(loaded, content) \in Records
         /\ PublishedRow(loaded, content, v) \in Records
         /\ NewRow(content) \in Records
<1>1. NextDraftVersion(loaded) \in Nat
  BY DEF NextDraftVersion, Records
<1> QED
  BY <1>1 DEF DraftRow, PublishedRow, NewRow, Records, Contents

\* Ending a request leaves the requests well typed.
LEMMA FinishType ==
  ASSUME TypeOK, NEW c \in Clients, Finish(c),
         records' \in [RuleIds -> Records \cup {NoRecord}],
         history' \in SUBSET VersionRows,
         views' \in [Clients -> Views \cup {NoView}]
  PROVE  TypeOK'
BY DEF TypeOK, HoldsWhatItNeeds, Finish, Idle, Requests, Steps, Ops

\* Every commit keeps the tables well typed.
LEMMA CommitsKeepType ==
  ASSUME TypeOK, NEW c \in Clients,
         CommitCreate(c) \/ CommitDraft(c) \/ CommitPublish(c) \/ CommitDelete(c)
  PROVE  TypeOK'
<1>1. CASE CommitCreate(c)
  <2>1. requests[c].content \in Contents
    BY <1>1 DEF CommitCreate, Committing, TypeOK, HoldsWhatItNeeds
  <2>2. NewRow(requests[c].content) \in Records
    BY <2>1 DEF NewRow, Records, Contents
  <2> QED
    BY <1>1, <2>2, FinishType DEF CommitCreate, TypeOK
<1>2. CASE CommitDraft(c)
  <2>1. /\ requests[c].loaded \in Records
        /\ requests[c].content \in Contents
    BY <1>2 DEF CommitDraft, Committing, TypeOK, HoldsWhatItNeeds
  <2>2. records[requests[c].rule] \in Records
    BY <1>2 DEF CommitDraft, UpdateRule, Live, TypeOK
  <2>3. Updated(records[requests[c].rule], requests[c].loaded,
                DraftRow(requests[c].loaded, requests[c].content)) \in Records
    BY <2>1, <2>2, NewRowsType, UpdatedType
  <2> QED
    BY <1>2, <2>3, FinishType DEF CommitDraft, UpdateRule, TypeOK
<1>3. CASE CommitPublish(c)
  <2>1. /\ requests[c].loaded \in Records
        /\ requests[c].content \in Contents
        /\ requests[c].version \in Nat
        /\ requests[c].rule \in RuleIds
    BY <1>3 DEF CommitPublish, Committing, TypeOK, HoldsWhatItNeeds, Requests
  <2>2. records[requests[c].rule] \in Records
    BY <1>3 DEF CommitPublish, UpdateRule, Live, TypeOK
  <2>3. Updated(records[requests[c].rule], requests[c].loaded,
                PublishedRow(requests[c].loaded, requests[c].content,
                             requests[c].version)) \in Records
    BY <2>1, <2>2, NewRowsType, UpdatedType
  <2>4. history' \in SUBSET VersionRows
    BY <1>3, <2>1 DEF CommitPublish, TypeOK, VersionRows
  <2> QED
    BY <1>3, <2>3, <2>4, FinishType DEF CommitPublish, UpdateRule, TypeOK
<1>4. CASE CommitDelete(c)
  <2>1. views' \in [Clients -> Views \cup {NoView}]
    BY <1>4 DEF CommitDelete, TypeOK, Views
  <2> QED
    BY <1>4, <2>1, FinishType DEF CommitDelete, TypeOK
<1> QED
  BY <1>1, <1>2, <1>3, <1>4

LEMMA TypeStutter == TypeOK /\ UNCHANGED vars => TypeOK'
BY DEF TypeOK, vars

\* Every state of every behaviour is well typed.
THEOREM TypeCorrect == Spec => []TypeOK
<1>1. TypeOK /\ [Next]_vars => TypeOK'
  BY StartsKeepType, MovesKeepType, CommitsKeepType, TypeStutter DEF Next
<1> QED
  BY <1>1, TypeInit, PTL DEF Spec

-----------------------------------------------------------------------------
(* Rules and publish history agree *)

Consistent == PublishedIsRecorded /\ HistoryHasRule /\ KeysAreUnique

LEMMA ConsistentInit == Init => Consistent
BY DEF Init, Consistent, PublishedIsRecorded, HistoryHasRule, KeysAreUnique, Live

\* Steps that write no table change nothing the invariant mentions.
LEMMA ConsistentUnchanged ==
  Consistent /\ UNCHANGED <<records, history>> => Consistent'
BY DEF Consistent, PublishedIsRecorded, HistoryHasRule, KeysAreUnique, Live, VersionsOf

\* A new rule has a free type and claims no version; its id, like any id without
\* a rule, has no version rows.
LEMMA CreateConsistent ==
  ASSUME TypeOK, Consistent, NEW c \in Clients, CommitCreate(c)
  PROVE  Consistent'
<1> USE DEF Live, VersionsOf
<1>1. PICK i \in RuleIds :
        /\ IsNextId(i)
        /\ TypeIsFree(i, requests[c].content.type)
        /\ records' = [records EXCEPT ![i] = NewRow(requests[c].content)]
  BY DEF CommitCreate
<1>2. requests[c].content \in Contents
  BY DEF CommitCreate, Committing, TypeOK, HoldsWhatItNeeds
<1>3. NewRow(requests[c].content) \in Records
  BY <1>2 DEF NewRow, Records, Contents
<1>4. Live' = Live \cup {i} /\ i \notin Live
  BY <1>1, <1>3 DEF TypeOK, IsNextId, RuleIds
<1>5. \A j \in Live : records'[j] = records[j]
  BY <1>1, <1>4 DEF TypeOK
<1>6. /\ records'[i].published = 0
      /\ records'[i].type = requests[c].content.type
  BY <1>1 DEF TypeOK, NewRow
<1>7. UNCHANGED history
  BY DEF CommitCreate
<1>8. PublishedIsRecorded'
  BY <1>4, <1>5, <1>6, <1>7 DEF PublishedIsRecorded, Consistent
<1>9. HistoryHasRule'
  BY <1>4, <1>7 DEF HistoryHasRule, Consistent
<1>10. KeysAreUnique'
  BY <1>1, <1>4, <1>5, <1>6, <1>7 DEF KeysAreUnique, Consistent, TypeIsFree
<1> QED
  BY <1>8, <1>9, <1>10 DEF Consistent

\* What an UPDATE does to the rules: one live row is replaced, its type free.
LEMMA UpdateRuleFacts ==
  ASSUME TypeOK, NEW c \in Clients, NEW new \in Records, UpdateRule(c, new),
         requests[c].loaded \in Records
  PROVE  LET i == requests[c].rule
         IN  /\ i \in Live /\ Live' = Live
             /\ records' = [records EXCEPT ![i] =
                              Updated(records[i], requests[c].loaded, new)]
             /\ \A j \in Live \ {i} : /\ records'[j] = records[j]
                                      /\ records'[j].type # records'[i].type
             /\ records'[i] = Updated(records[i], requests[c].loaded, new)
<1> DEFINE i == requests[c].rule
<1> DEFINE row == Updated(records[i], requests[c].loaded, new)
<1>1. i \in Live /\ i \in RuleIds /\ TypeIsFree(i, row.type)
      /\ records' = [records EXCEPT ![i] = row]
  BY DEF UpdateRule, Live
<1>2. records[i] \in Records
  BY <1>1 DEF TypeOK, Live
<1>3. row \in Records
  BY <1>2, UpdatedType
<1> HIDE DEF row, i
<1>4. records'[i] = row /\ \A j \in RuleIds \ {i} : records'[j] = records[j]
  BY <1>1 DEF TypeOK
<1>5. Live' = Live
  BY <1>1, <1>3, <1>4 DEF Live
<1>6. \A j \in Live \ {i} : records'[j].type # records'[i].type
  BY <1>1, <1>4 DEF TypeIsFree, Live
<1> QED
  BY <1>1, <1>4, <1>5, <1>6 DEF Live, row, i

\* Saving a draft leaves published_version to the row, whatever it has become
\* since the request loaded it.
LEMMA DraftConsistent ==
  ASSUME TypeOK, Consistent, NEW c \in Clients, CommitDraft(c)
  PROVE  Consistent'
<1> DEFINE i == requests[c].rule
<1> DEFINE loaded == requests[c].loaded
<1> DEFINE new == DraftRow(loaded, requests[c].content)
<1>1. loaded \in Records /\ requests[c].content \in Contents
  BY DEF CommitDraft, Committing, TypeOK, HoldsWhatItNeeds
<1>2. new \in Records
  BY <1>1, NewRowsType
<1>3. UpdateRule(c, new) /\ UNCHANGED history
  BY DEF CommitDraft
<1>4. /\ i \in Live /\ Live' = Live
      /\ \A j \in Live \ {i} : /\ records'[j] = records[j]
                               /\ records'[j].type # records'[i].type
      /\ records'[i] = Updated(records[i], loaded, new)
  BY <1>1, <1>2, <1>3, UpdateRuleFacts
<1>5. records'[i].published = records[i].published
  BY <1>4 DEF Updated, Written, DraftRow
<1> HIDE DEF new, loaded, i
<1>6. PublishedIsRecorded'
  BY <1>3, <1>4, <1>5 DEF PublishedIsRecorded, Consistent, VersionsOf
<1>7. HistoryHasRule'
  BY <1>3, <1>4 DEF HistoryHasRule, Consistent
<1>8. KeysAreUnique'
  BY <1>3, <1>4 DEF KeysAreUnique, Consistent
<1> QED
  BY <1>6, <1>7, <1>8 DEF Consistent

\* Publishing adds the version row in the commit that makes a rule claim it.
LEMMA PublishConsistent ==
  ASSUME TypeOK, Consistent, NEW c \in Clients, CommitPublish(c)
  PROVE  Consistent'
<1> DEFINE i == requests[c].rule
<1> DEFINE v == requests[c].version
<1> DEFINE loaded == requests[c].loaded
<1> DEFINE new == PublishedRow(loaded, requests[c].content, v)
<1> DEFINE added == [rule |-> i, version |-> v, content |-> requests[c].content]
<1>1. loaded \in Records /\ requests[c].content \in Contents /\ v \in Nat
  BY DEF CommitPublish, Committing, TypeOK, HoldsWhatItNeeds, Requests
<1>2. new \in Records
  BY <1>1, NewRowsType
<1>3. UpdateRule(c, new) /\ VersionIsFree(i, v) /\ history' = history \cup {added}
  BY DEF CommitPublish
<1>4. /\ i \in Live /\ Live' = Live
      /\ \A j \in Live \ {i} : /\ records'[j] = records[j]
                               /\ records'[j].type # records'[i].type
      /\ records'[i] = Updated(records[i], loaded, new)
  BY <1>1, <1>2, <1>3, UpdateRuleFacts
<1>5. records'[i].published \in {records[i].published, v}
  BY <1>4 DEF Updated, Written, PublishedRow
<1>6. added.rule = i /\ added.version = v
  OBVIOUS
<1>7. \A r \in history : r.rule = i => r.version # v
  BY <1>3 DEF VersionIsFree, VersionsOf
<1> HIDE DEF new, loaded, i, v, added
<1>8. PublishedIsRecorded'
  <2> SUFFICES ASSUME NEW j \in Live, records'[j].published # 0
               PROVE  \E r \in history' : r.rule = j /\ r.version = records'[j].published
    BY <1>4 DEF PublishedIsRecorded, VersionsOf
  <2>1. CASE j = i /\ records'[i].published = v
    BY <1>3, <1>6, <2>1
  <2>2. CASE records'[j].published = records[j].published
    BY <1>3, <2>2 DEF PublishedIsRecorded, Consistent, VersionsOf
  <2> QED
    BY <1>4, <1>5, <2>1, <2>2
<1>9. HistoryHasRule'
  BY <1>3, <1>4, <1>6 DEF HistoryHasRule, Consistent
<1>10. KeysAreUnique'
  BY <1>3, <1>4, <1>6, <1>7 DEF KeysAreUnique, Consistent
<1> QED
  BY <1>8, <1>9, <1>10 DEF Consistent

\* Deleting takes a rule and all its version rows in one commit.
LEMMA DeleteConsistent ==
  ASSUME TypeOK, Consistent, NEW c \in Clients, CommitDelete(c)
  PROVE  Consistent'
<1> DEFINE i == requests[c].rule
<1>1. /\ history' = history \ VersionsOf(i)
      /\ records' = [records EXCEPT ![i] = NoRecord]
  BY DEF CommitDelete
<1> HIDE DEF i
<1>2. Live' = Live \ {i} /\ \A j \in Live' : records'[j] = records[j]
  BY <1>1 DEF Live, TypeOK
<1>3. PublishedIsRecorded'
  BY <1>1, <1>2 DEF PublishedIsRecorded, Consistent, VersionsOf
<1>4. HistoryHasRule'
  BY <1>1, <1>2 DEF HistoryHasRule, Consistent, VersionsOf
<1>5. KeysAreUnique'
  BY <1>1, <1>2 DEF KeysAreUnique, Consistent
<1> QED
  BY <1>3, <1>4, <1>5 DEF Consistent

LEMMA ConsistentStep == TypeOK /\ Consistent /\ [Next]_vars => Consistent'
<1> SUFFICES ASSUME TypeOK, Consistent, [Next]_vars
             PROVE  Consistent'
  OBVIOUS
<1>1. CASE UNCHANGED vars
  BY <1>1, ConsistentUnchanged DEF vars
<1>2. ASSUME NEW c \in Clients,
             \/ View(c)
             \/ StartCreate(c) \/ StartSave(c) \/ StartPublish(c)
             \/ StartRollback(c) \/ StartDelete(c)
             \/ ReadSource(c) \/ CheckType(c) \/ NumberVersion(c) \/ Abort(c)
      PROVE  Consistent'
  BY <1>2, ConsistentUnchanged
     DEF View, StartCreate, StartSave, StartPublish, StartRollback, StartMutation,
         StartDelete, ReadSource, CheckType, NumberVersion, Abort
<1> QED
  BY <1>1, <1>2, CreateConsistent, DraftConsistent, PublishConsistent, DeleteConsistent
     DEF Next

\* However many requests overlap, every rule that claims a published version has
\* it in its history, every version row has its rule, and query types and version
\* numbers stay unique.
THEOREM RulesAndHistoryAgree ==
  Spec => [](PublishedIsRecorded /\ HistoryHasRule /\ KeysAreUnique)
<1>1. TypeOK /\ Consistent /\ [Next]_vars => Consistent'
  BY ConsistentStep
<1>2. Consistent => PublishedIsRecorded /\ HistoryHasRule /\ KeysAreUnique
  BY DEF Consistent
<1> QED
  BY <1>1, <1>2, TypeCorrect, ConsistentInit, PTL DEF Spec

\* A deletion takes the history with the rule, so no version row is left behind
\* that a later rule with the same id would take for its own.
THEOREM HistoryHasItsRule == Spec => []HistoryHasRule
BY RulesAndHistoryAgree, PTL

\* Requests that checked the same row before either committed still leave query
\* types and version numbers unique.
THEOREM KeysStayUnique == Spec => []KeysAreUnique
BY RulesAndHistoryAgree, PTL

\* The publish history is append-only, but for the deletion of a whole rule.
THEOREM PublishHistoryIsAppendOnly == Spec => HistoryIsAppendOnly
<1> DEFINE Kept ==
      \A r \in history :
        r \in history' \/ (r.rule \notin Live' /\ VersionsOf(r.rule)' = {})
<1>1. TypeOK /\ [Next]_vars => [Kept]_vars
  <2> SUFFICES ASSUME TypeOK, NEW c \in Clients,
                      \/ View(c)
                      \/ StartCreate(c) \/ StartSave(c) \/ StartPublish(c)
                      \/ StartRollback(c) \/ StartDelete(c)
                      \/ ReadSource(c) \/ CheckType(c) \/ NumberVersion(c) \/ Abort(c)
                      \/ CommitCreate(c) \/ CommitDraft(c) \/ CommitPublish(c)
                      \/ CommitDelete(c)
               PROVE  Kept
    BY DEF Next
  <2>1. CASE CommitDelete(c)
    <3>1. /\ history' = history \ VersionsOf(requests[c].rule)
          /\ records' = [records EXCEPT ![requests[c].rule] = NoRecord]
      BY <2>1 DEF CommitDelete
    <3> QED
      BY <3>1 DEF VersionsOf, Live, TypeOK
  <2>2. CASE CommitPublish(c)
    BY <2>2 DEF CommitPublish
  <2> QED
    BY <2>1, <2>2
       DEF View, StartCreate, StartSave, StartPublish, StartRollback, StartMutation,
           StartDelete, ReadSource, CheckType, NumberVersion, Abort,
           CommitCreate, CommitDraft
<1> QED
  BY <1>1, TypeCorrect, PTL DEF Spec, HistoryIsAppendOnly

=============================================================================
