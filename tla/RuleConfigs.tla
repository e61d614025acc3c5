------------------------------ MODULE RuleConfigs ------------------------------
(***************************************************************************)
(* Query rules of one project: the editable draft, the published versions  *)
(* and the optimistic lock of rule_configs/service.py.                     *)
(*                                                                         *)
(* A client views a rule, then sends one request at a time.  A request is  *)
(* a coroutine with a database session of its own: it gives way at every   *)
(* await, so a request is one action per database round trip, and what it  *)
(* read before an await may be stale after it.  A commit is one step: the  *)
(* first write of a transaction takes SQLite's write lock.                 *)
(***************************************************************************)
EXTENDS Naturals, FiniteSets

CONSTANTS
  Clients,      \* project members editing rules, each with one request at most
  Types,        \* query types, the command keys a rule answers to
  Bodies,       \* what a rule's Markdown holds besides its query type
  MaxRules,     \* bound: rules that live at the same time
  MaxVersions,  \* bound: published versions of a rule
  MaxLock,      \* bound: optimistic lock value a request may raise from
  MaxInFlight,  \* requests served at the same time; 1 is a server without overlap
  NoRecord,     \* an id that holds no rule
  NoContent,    \* a request that carries no content
  NoView        \* a client that has no rule open

RuleIds == 1..MaxRules
Contents == [type : Types, body : Bodies]

\* One row of rule_configs.  published = 0 is a NULL published_version.
Records == [type : Types, content : Contents, status : {"draft", "published"},
            draft : Nat, published : Nat, lock : Nat]

\* One row of rule_config_versions.
VersionRows == [rule : RuleIds, version : Nat, content : Contents]

Ops == {"none", "create", "save", "publish", "rollback", "delete"}

\* Where a request waits: before reading the rollback source, before the query
\* type checks, before numbering the version, before its commit.
Steps == {"idle", "source", "check", "number", "commit"}

Requests == [pc : Steps, op : Ops, rule : RuleIds \cup {0},
             loaded : Records \cup {NoRecord},
             content : Contents \cup {NoContent}, version : Nat]

Views == [rule : RuleIds, row : Records, gone : BOOLEAN]

ASSUME RuleConfigsAssumption ==
  /\ MaxRules \in Nat \ {0} /\ MaxVersions \in Nat /\ MaxLock \in Nat
  /\ MaxInFlight \in Nat
  /\ NoRecord \notin Records /\ NoContent \notin Contents /\ NoView \notin Views

VARIABLES
  records,   \* rule_configs, by id
  history,   \* rule_config_versions
  requests,  \* what each client's request holds in memory
  views      \* the row each client last saw; "gone" (bookkeeping) once deleted

vars == <<records, history, requests, views>>

Idle == [pc |-> "idle", op |-> "none", rule |-> 0, loaded |-> NoRecord,
         content |-> NoContent, version |-> 0]

-----------------------------------------------------------------------------
(* The tables *)

Live == {i \in RuleIds : records[i] # NoRecord}

VersionsOf(i) == {r \in history : r.rule = i}

\* SQLite hands out the largest rowid in use plus one (no AUTOINCREMENT), so
\* the id of a deleted rule can come back.
IsNextId(i) == /\ \A j \in Live : j < i
               /\ i = 1 \/ i - 1 \in Live

\* _next_version: the largest recorded version plus one.
IsNextVersion(i, v) == /\ \A r \in VersionsOf(i) : r.version < v
                       /\ v = 1 \/ \E r \in VersionsOf(i) : r.version = v - 1

\* The unique index on (project, family, query_type).
TypeIsFree(i, type) == \A j \in Live \ {i} : records[j].type # type

\* Fault: no unique index on the version rows.
AnyVersionIsFree(i, v) == TRUE

\* The unique index on (rule_config_id, version).
VersionIsFree(i, v) == \A r \in VersionsOf(i) : r.version # v

\* What a bot lookup of a query type runs on (load_published_rule_config).
Runtime(type) ==
  {r.content : r \in {h \in history : /\ h.rule \in Live
                                      /\ records[h.rule].type = type
                                      /\ records[h.rule].published = h.version}}

-----------------------------------------------------------------------------
(* Requests *)

InFlight == {c \in Clients : requests[c].pc # "idle"}

CanStart(c) == requests[c] = Idle /\ Cardinality(InFlight) < MaxInFlight

\* Fault: the lock value the client sends is not compared.
LockMatchesAnything(c) == views[c] # NoView /\ records[views[c].rule] # NoRecord

\* The rule the client has open still exists with the lock value the client
\* sends; any other request ends at once with a 404 or a 409.
LockMatches(c) ==
  /\ views[c] # NoView
  /\ records[views[c].rule] # NoRecord
  /\ records[views[c].rule].lock = views[c].row.lock

\* The GET of a rule, and the db.refresh behind the answer of a mutation.
View(c) ==
  /\ requests[c] = Idle
  /\ \E i \in Live :
       views' = [views EXCEPT ![c] = [rule |-> i, row |-> records[i], gone |-> FALSE]]
  /\ UNCHANGED <<records, history, requests>>

StartCreate(c) ==
  /\ CanStart(c)
  /\ \E content \in Contents :
       requests' = [requests EXCEPT ![c] =
                      [Idle EXCEPT !.pc = "check", !.op = "create", !.content = content]]
  /\ UNCHANGED <<records, history, views>>

\* save, publish and rollback of a rule: read the record, compare the lock.
StartMutation(c, op, pc, content, version) ==
  /\ CanStart(c)
  /\ LockMatches(c)
  /\ records[views[c].rule].lock < MaxLock
  /\ requests' = [requests EXCEPT ![c] =
                    [pc |-> pc, op |-> op, rule |-> views[c].rule,
                     loaded |-> records[views[c].rule],
                     content |-> content, version |-> version]]
  /\ UNCHANGED <<records, history, views>>

StartSave(c) ==
  \E content \in Contents : StartMutation(c, "save", "check", content, 0)

StartPublish(c) ==
  \E content \in Contents : StartMutation(c, "publish", "check", content, 0)

StartRollback(c) ==
  \E version \in 1..MaxVersions :
    StartMutation(c, "rollback", "source", NoContent, version)

StartDelete(c) ==
  /\ CanStart(c)
  /\ LockMatches(c)
  /\ requests' = [requests EXCEPT ![c] =
                    [Idle EXCEPT !.pc = "commit", !.op = "delete", !.rule = views[c].rule]]
  /\ UNCHANGED <<records, history, views>>

\* Rollback reads the version it copies; without it the request ends (Abort).
ReadSource(c) ==
  /\ requests[c].pc = "source"
  /\ \E r \in VersionsOf(requests[c].rule) :
       /\ r.version = requests[c].version
       /\ requests' = [requests EXCEPT ![c].pc = "check", ![c].content = r.content,
                                       ![c].version = 0]
  /\ UNCHANGED <<records, history, views>>

\* Fault: the rename of a published rule is not refused.
TypeAllowedIfFree(c) == TypeIsFree(requests[c].rule, requests[c].content.type)

\* _validate_query_type_constraints: a rule published when it was loaded keeps
\* its type, and no other rule has the type now.
TypeAllowed(c) ==
  LET r == requests[c]
  IN  /\ r.op # "create" /\ r.loaded.published # 0 => r.content.type = r.loaded.type
      /\ TypeIsFree(r.rule, r.content.type)

CheckType(c) ==
  /\ requests[c].pc = "check"
  /\ TypeAllowed(c)
  /\ requests' = [requests EXCEPT ![c].pc =
                    IF requests[c].op = "publish" THEN "number" ELSE "commit"]
  /\ UNCHANGED <<records, history, views>>

NumberVersion(c) ==
  /\ requests[c].pc = "number"
  /\ \E v \in 1..MaxVersions :
       /\ IsNextVersion(requests[c].rule, v)
       /\ requests' = [requests EXCEPT ![c].pc = "commit", ![c].version = v]
  /\ UNCHANGED <<records, history, views>>

\* Any end without a write: content that does not validate, a type that is
\* taken or may not change, a version that is missing, an IntegrityError or a
\* StaleDataError at the commit, a locked database.  The client keeps its view.
Abort(c) ==
  /\ requests[c].pc # "idle"
  /\ requests' = [requests EXCEPT ![c] = Idle]
  /\ UNCHANGED <<records, history, views>>

-----------------------------------------------------------------------------
(* Commits *)

\* The session's UPDATE names only the columns whose value the request changed
\* since it loaded the record: the others keep what another request wrote.
Written(row, loaded, new) == IF new = loaded THEN row ELSE new

Updated(row, loaded, new) ==
  [type      |-> Written(row.type, loaded.type, new.type),
   content   |-> Written(row.content, loaded.content, new.content),
   status    |-> Written(row.status, loaded.status, new.status),
   draft     |-> Written(row.draft, loaded.draft, new.draft),
   published |-> Written(row.published, loaded.published, new.published),
   lock      |-> Written(row.lock, loaded.lock, new.lock)]

\* Fault: every save numbers a further draft.
NextDraftVersionAlways(loaded) == loaded.draft + 1

NextDraftVersion(loaded) ==
  IF loaded.published = 0 THEN 1
  ELSE IF loaded.status = "draft" /\ loaded.draft > loaded.published
       THEN loaded.draft
       ELSE loaded.published + 1

\* Fault: the name of the operation is written as the status.
DraftRowWrongStatus(loaded, content) ==
  [type |-> content.type, content |-> content, status |-> "saved",
   draft |-> NextDraftVersion(loaded), published |-> loaded.published,
   lock |-> loaded.lock + 1]

\* Fault: saving a draft withdraws the published version.
DraftRowUnpublished(loaded, content) ==
  [type |-> content.type, content |-> content, status |-> "draft",
   draft |-> NextDraftVersion(loaded), published |-> 0, lock |-> loaded.lock + 1]

DraftRow(loaded, content) ==
  [type |-> content.type, content |-> content, status |-> "draft",
   draft |-> NextDraftVersion(loaded), published |-> loaded.published,
   lock |-> loaded.lock + 1]

PublishedRow(loaded, content, v) ==
  [type |-> content.type, content |-> content, status |-> "published",
   draft |-> v, published |-> v, lock |-> loaded.lock + 1]

NewRow(content) ==
  [type |-> content.type, content |-> content, status |-> "draft",
   draft |-> 1, published |-> 0, lock |-> 1]

Committing(c, ops) == requests[c].pc = "commit" /\ requests[c].op \in ops

Finish(c) == requests' = [requests EXCEPT ![c] = Idle]

CommitCreate(c) ==
  /\ Committing(c, {"create"})
  /\ \E i \in RuleIds :
       /\ IsNextId(i)
       /\ TypeIsFree(i, requests[c].content.type)
       /\ records' = [records EXCEPT ![i] = NewRow(requests[c].content)]
  /\ Finish(c)
  /\ UNCHANGED <<history, views>>

\* The UPDATE of a rule that no longer exists matches no row and is refused.
UpdateRule(c, new) ==
  LET i == requests[c].rule
      row == Updated(records[i], requests[c].loaded, new)
  IN  /\ i \in Live
      /\ TypeIsFree(i, row.type)
      /\ records' = [records EXCEPT ![i] = row]
      /\ views' = [views EXCEPT ![c] = NoView]

CommitDraft(c) ==
  /\ Committing(c, {"save", "rollback"})
  /\ UpdateRule(c, DraftRow(requests[c].loaded, requests[c].content))
  /\ Finish(c)
  /\ UNCHANGED history

\* Fault: publishing replaces a version row of the same number.
CommitPublishReplacing(c) ==
  LET r == requests[c]
      row == [rule |-> r.rule, version |-> r.version, content |-> r.content]
  IN  /\ Committing(c, {"publish"})
      /\ UpdateRule(c, PublishedRow(r.loaded, r.content, r.version))
      /\ history' = {h \in history : h.rule # r.rule \/ h.version # r.version} \cup {row}
      /\ Finish(c)

CommitPublish(c) ==
  LET r == requests[c]
  IN  /\ Committing(c, {"publish"})
      /\ UpdateRule(c, PublishedRow(r.loaded, r.content, r.version))
      /\ VersionIsFree(r.rule, r.version)
      /\ history' = history \cup {[rule |-> r.rule, version |-> r.version,
                                   content |-> r.content]}
      /\ Finish(c)

\* Fault: the version rows are left to ON DELETE CASCADE, which SQLite only
\* honours with foreign keys switched on.
CommitDeleteRuleOnly(c) ==
  /\ Committing(c, {"delete"})
  /\ records' = [records EXCEPT ![requests[c].rule] = NoRecord]
  /\ Finish(c)
  /\ UNCHANGED <<history, views>>

\* Fault: the version rows are committed away before the rule is.
CommitDeleteVersionsOnly(c) ==
  /\ Committing(c, {"delete"})
  /\ history' = history \ VersionsOf(requests[c].rule)
  /\ Finish(c)
  /\ UNCHANGED <<records, views>>

\* The version rows go first, then the rule; neither DELETE minds that another
\* request already removed them.
CommitDelete(c) ==
  LET i == requests[c].rule
  IN  /\ Committing(c, {"delete"})
      /\ history' = history \ VersionsOf(i)
      /\ records' = [records EXCEPT ![i] = NoRecord]
      /\ views' = [d \in Clients |->
                     IF views[d] # NoView /\ views[d].rule = i
                     THEN [views[d] EXCEPT !.gone = TRUE] ELSE views[d]]
      /\ Finish(c)

-----------------------------------------------------------------------------
Init ==
  /\ records = [i \in RuleIds |-> NoRecord]
  /\ history = {}
  /\ requests = [c \in Clients |-> Idle]
  /\ views = [c \in Clients |-> NoView]

Next ==
  \E c \in Clients :
    \/ View(c)
    \/ StartCreate(c) \/ StartSave(c) \/ StartPublish(c)
    \/ StartRollback(c) \/ StartDelete(c)
    \/ ReadSource(c) \/ CheckType(c) \/ NumberVersion(c) \/ Abort(c)
    \/ CommitCreate(c) \/ CommitDraft(c) \/ CommitPublish(c) \/ CommitDelete(c)

Spec == Init /\ [][Next]_vars

-----------------------------------------------------------------------------
(* Properties of any interleaving *)

\* A request past its reads holds what its operation goes on with.
HoldsWhatItNeeds(r) ==
  /\ r.op \in {"save", "publish", "rollback", "delete"} => r.rule \in RuleIds
  /\ r.op \in {"save", "publish", "rollback"} => r.loaded \in Records
  /\ r.pc \in {"check", "number", "commit"} /\ r.op # "delete" => r.content \in Contents

\* Every variable holds values of its type; what a request holds depends on its
\* operation and on how far it got.
TypeOK ==
  /\ records \in [RuleIds -> Records \cup {NoRecord}]
  /\ history \in SUBSET VersionRows
  /\ requests \in [Clients -> Requests]
  /\ views \in [Clients -> Views \cup {NoView}]
  /\ \A c \in Clients : HoldsWhatItNeeds(requests[c])

\* However requests overlap, a rule that claims a published version has that
\* version in its history: a bot lookup of a published rule finds a content.
PublishedIsRecorded ==
  \A i \in Live : records[i].published # 0 =>
    \E r \in VersionsOf(i) : r.version = records[i].published

\* No version outlives its rule, so a rule that gets the id of a deleted one
\* starts without a history (delete_rule_config, and the refused UPDATE).
HistoryHasRule == \A r \in history : r.rule \in Live

\* A query type names one rule, and a version number of a rule one content,
\* although the checks of two requests can both pass before either commits.
KeysAreUnique ==
  /\ \A i, j \in Live : records[i].type = records[j].type => i = j
  /\ \A r, s \in history : r.rule = s.rule /\ r.version = s.version => r = s

\* The publish history is append-only: a step keeps every version row, unless
\* it deletes the rule together with all its versions.
HistoryIsAppendOnly ==
  [][\A r \in history : r \in history' \/ (r.rule \notin Live' /\ VersionsOf(r.rule)' = {})]_vars

-----------------------------------------------------------------------------
(* Properties the optimistic lock is there for.  They hold while requests do *)
(* not overlap (MaxInFlight = 1), whatever stale views the clients act on.   *)

\* Nobody overwrites a change they have not seen: a request that changes or
\* deletes a rule finds it as its client last saw it.  (Not claimed of a view
\* whose rule was deleted: its id and lock value may name another rule.)
NoSilentOverwrite ==
  [][\A c \in Clients : \A i \in Live :
       /\ requests[c] # Idle /\ requests'[c] = Idle
       /\ records'[i] # records[i]
       /\ ~views[c].gone
       => i = views[c].rule /\ records[i] = views[c].row]_vars

\* After its first publication the query type of a rule never changes.
PublishedTypeIsStable ==
  [][\A i \in Live \cap Live' :
       records[i].published # 0 => records'[i].type = records[i].type]_vars

\* What a lookup of a query type runs on changes only by a publish or a delete
\* of the rule with that type: drafts and rollbacks never reach the runtime.
OnlyPublishingReachesRuntime ==
  [][\A type \in Types : Runtime(type)' # Runtime(type) =>
       \/ Runtime(type)' = {}
            /\ \E i \in Live \ Live' : records[i].type = type
       \/ \E r \in history' \ history :
            r.content.type = type /\ Runtime(type)' = {r.content}]_vars

\* The row says truthfully where it stands: a row that reads "published" holds
\* the content of its published version, the newest one; a draft of a published
\* rule is numbered one past it; and the row's type is its content's type.
RowTellsItsState ==
  \A i \in Live :
    LET row == records[i]
    IN  /\ row.type = row.content.type
        /\ row.published # 0 => \A r \in VersionsOf(i) : r.version <= row.published
        /\ row.status = "published" =>
             \E r \in VersionsOf(i) : r.version = row.published /\ r.content = row.content
        /\ row.status = "draft" => row.draft = row.published + 1

\* What a reader finds of a live rule: its text, what it runs on, its history.
Shown(i) ==
  LET row == records[i]
  IN [text |-> row.content,
      runs |-> {r.content : r \in {h \in VersionsOf(i) : h.version = row.published}},
      published |-> {[version |-> r.version, content |-> r.content] : r \in VersionsOf(i)}]

Book == INSTANCE RuleBook WITH Ids <- RuleIds, book <- [i \in Live |-> Shown(i)]

\* The store keeps the promise of RuleBook: though a request reads, checks and
\* numbers in steps of its own and its client may act on an old view, its commit is
\* one change of the rule as it is, which an UPDATE of the changed columns makes whole.
KeepsBook == Book!Spec

=============================================================================
