# A TLA+ model of Excel Check

Excel Check validates game configuration tables. A FastAPI server (`src/backend`)
with an async SQLAlchemy session per request keeps everything in one SQLite
database; work that takes long runs as a background task in the same process;
a retention clean-up runs as a process of its own; a Feishu (Lark) robot reaches
the same services through a long connection. Almost all state is rows of that
database, and almost all that can go wrong is two coroutines, or two processes,
working on the same rows: each gives way at every `await`.

Contents: [inventory](#inventory), [how the database is modelled](#how-the-database-is-modelled),
[RuleConfigs](#ruleconfigs), [ExecutionRuns](#executionruns),
[GenerationRuns](#generationruns), [FeishuBots](#feishubots),
[EvidenceRuns](#evidenceruns), [runs and bounds](#runs-and-bounds),
[disagreements](#disagreements-with-the-documentation),
[what the exemptions hide](#what-the-exemptions-hide), [proofs](#proofs),
[not modelled](#not-modelled), [plan](#plan).

## Inventory

| Component | State it keeps | Operations | Interacts with | Hard behaviour | What makes it correct | Module |
|---|---|---|---|---|---|---|
| Rule configuration store (`rule_configs/`) | `rule_configs`: draft, published version, optimistic lock; `rule_config_versions` | view, create, save, publish, roll back, delete; lookup of the published rule | requests of project members; `config_lookup` and the robot read published rules | read, check and write are separated by awaits; ids come back after a deletion | nobody overwrites an unseen change; history is append-only and agrees with the rule; drafts never reach the runtime | `RuleConfigs`, `RuleBook` |
| Execution results (`result_store.py`, `execute_runs_service.py`) | `execution_runs`, `execution_result_items` | synchronous executions replace the last result of their scope; background runs go pending, running, success or failed; restart marks interrupted ones | rule engine, robot, clients that poll or page | overlap, ids that come back, a crash between commit and task, failed writes | items belong to their run; one result per scope; every background run ends | `ExecutionRuns`, `ResultBoard` |
| Retention clean-up (`services/runtime_cleanup.py`) | files under the runtime directories, old rows | collect, delete files, delete rows | result store, source evidence, generation runs | another process: collects, then deletes by id | deletes only what the retention no longer protects | in the modules it cleans |
| Generation runs (`test_cases/generation_runs.py`, `full_generation_orchestrator.py`, ...) | run status, chunks, atoms, cases, audits, artefacts | create, staged worker, cancel, retry failed chunks, render again, expire on read, clean up | source evidence, AI providers, clean-up | cancel or expiry against a running worker, two workers after a retry, a lock held through provider calls, crash | a terminal status stays; "completed" is whole; nothing is left of a cleaned run | `GenerationRuns`, `RunLifecycle` |
| Feishu supervisor (`integrations/feishu_long_conn.py`, `feishu_bot.py`) and bot administration (`admin/router.py`) | bot rows, connections, states, owners of app ids, locks, token cache | save, delete, start, stop, reload, restart, fetch a token | admin routes, robot | projects share a connection; locks across awaits; caches dropped while being filled | what runs is what is configured; one connection per app id; tokens of the configured bot | `FeishuBots` |
| Source evidence (`test_cases/source_evidence*.py`, `visual_evidence.py`) | evidence runs with a TTL, resources, observations, a directory of files | read the source, retry, observe images, adopt, revoke, validate, clean up | Feishu, SVN, uploads, the vision model, generation | files outside the transaction, long calls between read and write, clean-up by whoever meets an expired run | generation rests on evidence that a user adopted for the image the run holds; nothing is left of a cleaned run | `EvidenceRuns`, `EvidenceGate` |
| Source authorization (`source_evidence_authorization.py`) | authorization records with an OAuth state | request, callback, invalidate | Feishu | state read before external calls | a used or superseded state authorizes nothing | not modelled |
| Execution pipeline (`execution_pipeline.py`, `rules/`) | data frames of one execution | load sources concurrently, drop rules of failed sources, run rules | loaders, result store | partial failure | a failed source disables exactly the rules that need it | not modelled |
| Loaders and SVN cache (`loaders/`) | cache directories with a TTL | check out, update, read | pipeline | read outside the lock | a reader sees a complete file | not modelled |
| Project check configuration and imports (`fixed_rules/`) | one configuration document per project | normalise, validate, save, import | pipeline | whole-document replacement | a saved configuration loads | not modelled |
| Workbench, lookup, AI caches, auth and admin, exports, bootstrap, frontend | documents and single rows | read and replace | all of the above | little shared state | see [not modelled](#not-modelled) | |

The hazards these behaviours give rise to are listed, line by line, in
`PROJECT.json` together with the properties that would catch them.

## How the database is modelled

Facts about the program's database that all modules rest on:

* SQLite through aiosqlite opens a transaction at the first INSERT, UPDATE or
  DELETE, not at a SELECT. A SELECT before that sees the latest commit; the first
  write takes the only write lock. So **a transaction's writes and its commit are
  one step, each earlier SELECT is a step of its own**, and what was read may be
  stale at the commit. Where a transaction waits for something slow between its
  first write and its commit (a stage of a generation run calls the AI provider, an
  evidence run is read from Feishu while its row is locked), taking the lock and
  committing are separate steps and `lock` is a variable; others wait, and may give
  up when the busy timeout ends first (`LockTimeout`, `GivesUp`).
* SELECTs that follow one another directly are one step in these places only: the two of
  a runtime lookup (`Runtime`); `_should_stop` and the reading of the stage it lets begin
  (`Look`; not of the coverage audit, which goes on with a run that ended in between);
  the run with its chunks, atoms and cases where a stage or a retry reads them; the run
  with its resources and observations when a request on an evidence run begins and when
  it is cleaned (`Gathers`); in a reload, the query that shows the row is still there and
  the use of the row the session has (`ReloadReads`). What a commit between two of these
  SELECTs could do is not covered.
* Ids are rowids without AUTOINCREMENT: the next one is the largest in use plus
  one (`IsNextId`), so the id of the last row comes back once it is deleted.
* Foreign keys are not switched on: nothing cascades. The code deletes dependent
  rows itself, in the same transaction.
* An ORM session writes the columns that differ from the row it loaded and names
  the row by its id (`Updated`, `WriteRun`, `Put`). An UPDATE that matches no row raises
  `StaleDataError`; a DELETE that matches none is accepted. Sessions keep loaded
  rows across a commit (`expire_on_commit=False`).
* An exception before the commit rolls back and leaves the tables alone (`Abort`,
  `SyncEnds`, `TaskRaises`, `RollBack`). Files are not rolled back.

`RuleConfigs` and `ExecutionRuns` are about **one project** (and one rule family):
every query of the code filters by them. `GenerationRuns` and `EvidenceRuns` are
about one run. Only `FeishuBots` has several projects, which share app ids. Clients, scopes, contents, requests and tasks are model values.

## RuleConfigs

`RuleConfigs.tla` models `rule_configs/service.py`. `records` and `history` are
the two tables; `requests` is what each client's request holds in memory between
awaits (the row it loaded, the content, the version it numbered); `views` is the
row each client last saw, which supplies the lock value it sends.

| Code | Actions |
|---|---|
| `get_rule_config_by_id` | `View` |
| `create_rule_config` | `StartCreate`, `CheckType`, `CommitCreate` |
| `save_rule_config_draft`, `_save_current_draft` | `StartSave`, `CheckType`, `CommitDraft` |
| `publish_rule_config`, `_mutate_rule_config` | `StartPublish`, `CheckType`, `NumberVersion`, `CommitPublish` |
| `rollback_rule_config_version` | `StartRollback`, `ReadSource`, `CheckType`, `CommitDraft` (a rollback restores a version as a draft) |
| `delete_rule_config` | `StartDelete`, `CommitDelete` |
| any refusal or failed commit | `Abort` |
| `load_published_rule_config` | the operator `Runtime` |

A rule's content is a query type and a body; parsing and validating Markdown is
left out (content that fails validation is an `Abort`). The runtime lookup is a
single step of the model although the code reads the rule and the version in two.

Properties. Under **any** overlap: `PublishedIsRecorded`, `HistoryHasRule`,
`KeysAreUnique`, `HistoryIsAppendOnly`. While requests do **not overlap**
(`MaxInFlight = 1`, clients still act on views of any age): `NoSilentOverwrite`,
`PublishedTypeIsStable`, `OnlyPublishingReachesRuntime`, `RowTellsItsState`, and
the store implements `RuleBook` (`KeepsBook`): there a rule is a text, the text it
runs on and its publications, and an edit, a publication or a deletion changes the
rule as it is, at once; there are no requests, lock values or draft numbers. The
optimistic lock protects against stale views, not against overlapping requests:
see the disagreements.

`NoSilentOverwrite` exempts a view whose rule was deleted (`gone`, a bookkeeping
flag): a rule created later may have the same id and lock value, and nothing in
the request tells them apart.

## ExecutionRuns

`ExecutionRuns.tla` models `result_store.py`, `execute_runs_service.py`, the
callers that persist results, the restart in `run.py` and the part of
`runtime_cleanup.py` that removes run rows.

| Code | Actions |
|---|---|
| `execute_engine`, `execute_fixed_rules_for_project` and `persist_execution_result` | `SyncExecutes`, `SyncReadsPrevious`, `SyncPersists`, `SyncEnds` |
| `create_execution_run_task` | `CreateTask` |
| `run_execute_run_task`: the `db.get` of each of its three writes | `LoadRow`, or `FindNoRow` |
| ... and the writes | `StartTask`, then `CompleteTask`, or `TaskRaises` and `FailTask`; `LoseTask` when a write outside its `try` fails |
| `mark_interrupted_execution_runs` in `lifespan` | `Restart`, after a `Crash` |
| `_collect_execution_runs`, `_delete_execution_runs` | `Age`, `CollectOld`, `DeleteCollected` |

What an execution finds is one value named after the execution, or nothing. A
run's `result` is what its row counts (`total_results`), `items` are the item
rows. Two executions that find something are told apart even where their counts are
equal. A task loads its row before each write, since nothing keeps the row of the write
before in the session; until it has written, `holds` and `holdsEmpty` say what it
loaded, the status and whether no findings were counted: a column that is set to what
was loaded is left out of the UPDATE (`Written`, `Counted`).

Two constants separate what the code guarantees from what it needs of its
environment. `MaxOverlap` is the number of synchronous executions of one scope
served at once. `OnlineCleanup` says whether the clean-up, a script, may run
while the server does.

Properties. Whatever overlaps: `ItemsBelongToRuns`, `NoStrandedRun` and, under
fairness, `RunsEnd`. With `MaxOverlap = 1` and the clean-up only while the server
is down: `OneResultPerScope`, `FindingsAreListed`, `BackgroundRunsMoveForward`, and
the tables implement `ResultBoard` (`KeepsBoard`): each scope has a board with its last
result, which an execution replaces at once, each background run a page that only its
own progress changes, and no reader finds findings that were shown before as new ones.
Without these two conditions the last four fail, since ids read earlier can name
another run when they are used. One such history of `FindingsAreListed`: the
clean-up frees an id that a synchronous request has read, a background run gets
it, its task loads the row to complete it, the request replaces that run by its own
result, and the task, finding nothing, deletes the items without touching the count.

**Fairness** (`FairSpec`). The event loop resumes a ready coroutine, and an execution
ends, with a result or an exception, because its loaders have timeouts (weak fairness
of `TaskRuns(t)`, whatever the task does next, not of success); a server that went
down is started again (`Restart`). Nothing is assumed of requests, of the clean-up or of failures.
`RunsEnd` excepts runs in which an unhandled write failed (`errors > 0`): such a
run stays unfinished until the next restart.

## GenerationRuns

`GenerationRuns.tla` models one generation run from its creation to its clean-up.
`run` is its row with the chunks, atoms, cases and the audit, `files` the artefact
directory, `procs` the background workers and the requests, each with what it read
(`seen`). A chunk yields at most one official atom, which bears the chunk's name; a
case is represented by the atom it covers, the files by the cases they show.

| Code | Actions |
|---|---|
| `_should_stop` and the reading of each stage | `Look`, `LookExpires`; `LookAudit` is the reading of `run_coverage_audit_for_run` |
| `terminal_on_entry` in `run_coverage_audit_for_run` | `LateAudit`, `LateAuditExpires` |
| the first write of a stage | `Acquire`, or `LockTimeout` |
| the stages (`chunk_full_planning_sheet_context_for_run`, `_persist_extraction_results`, `generate_test_case_blueprint_for_run`, `generate_test_cases_for_run`, `run_coverage_audit_for_run`, `run_case_quality_audit_for_run`) and `update_generation_run_stage` | `Commit` of what `Results` returns, or `Raise` |
| `render_generation_run_artifacts` | `RenderFiles`, `Recheck`, `WriteRendered` |
| `_mark_run_failed` | `FailLook`, `FailWrite` |
| `cancel_generation_run` | `CancelLook`, `CancelWrite` |
| `retry_failed_generation_chunks` | `RetryLook`, `RetryWrite`, which starts a worker in the middle |
| `retry_generation_run_artifacts_api` | `RerenderLook`, then as above |
| `mark_generation_run_expired_if_needed`, the clean-up | `Tick`, `ReadExpires`, `RequestExpires`, `CleanupExpires` |
| a request that ends early; the server going down | `Abandon`, `Crash` |

`StaleViews` says whether a retry or a rendering may be asked for by a status that is
not the run's. The pages offer them for partial and for ended runs; the API accepts
them in any active status too (`generation_runs.py:592`, `generation_artifacts.py:84`).
`CompletedIsWhole` and `ResultsAreGrounded` hold for requests the pages offer;
`KeepsLifecycle` is proved for both. What the API accepts beyond that is shown by
`generation_reopened` and by `GenerationSecondWorker.cfg`, where a retry of a run that
is still active starts a second worker beside the first.

`crossed` is bookkeeping: somebody wrote the run without having seen that it had
ended. A stage checks the status and commits later, so a cancellation in between is
overwritten; this is the code's design (cancellation is best effort between two
stages), and the properties promise nothing afterwards. Without it the run
implements `RunLifecycle` (`KeepsLifecycle`): active until it ends, an end is final
unless a partial run is reopened, an expired run keeps no chunk, atom, case, payload or
file. The record of the coverage audit is apart, because the code does not keep it so:
a worker whose audit begins just after the run was cancelled or expired inserts it and
commits, and a run that was cleaned is not cleaned again. `RunLifecycle` says this
openly (`LateAudit`, `ExpireAudited`) and that the audit brings nothing else back;
`GenerationLateAudit.cfg` reaches it. `CompletedIsWhole`
and `ResultsAreGrounded` relate the verdicts, which travel through the payload from
stage to stage, to the rows and files they were made for.

**Fairness.** Time passes (`Tick`), the clean-up is scheduled outside (`CleanupExpires`),
a running task is resumed (`Proceed(w)`). Nothing is assumed of requests. With that,
`RunsEnd`: a run that a crash or a lock timeout left active ends by its expiry.

## FeishuBots

`FeishuBots.tla` models the bot rows (`config`), the supervisor's dictionaries
(`clients`, `states`, `owner`), the token cache and the requests that save and delete.

| Code | Actions |
|---|---|
| `upsert_feishu_bot_config` | `SaveBegins` (its row), `SaveChecks` (the rows with its app id), `SaveCommits` or `SaveFails`, `SaveRefreshes` (which drops the token) or `RefreshFails`, then the reload |
| `reload` under the project's lock | `ReloadStops`, `ReloadReads`, `ReloadFindsNothing`, `ReloadStarts` |
| `start_one`, `_stop_runtime` under the supervisor's lock | the operators `StartOne` (= `Share`, `Connect` or `FailToConnect`) and `StopRuntime` |
| `delete_feishu_bot_config` | `DeleteBegins`, `DeleteCommits` or `DeleteFails`, `DeleteDrops`, `DeleteStops` |
| a command of a chat, whose session loads the row (`_handle_download_command` and others) | `DispatchLoads`, `DispatchEnds` |
| `get_tenant_access_token` | `FetchBegins`, `FetchEnds`, `TokenExpires` |
| `lifespan`, `start_all` | `Restart`, which starts every configured bot at once (`StartAll`): who connects, shares or is refused |

A session keeps the rows it has loaded. `_load_config_or_raise` runs in the session of
the command, which may have loaded the row long before it needs a token: `FetchBegins`
goes on with that row, or with the current one when the object was dropped meanwhile.

The bookkeeping names the cases the properties except, all of them met by the code:
`raced` are projects whose last requests overlapped, `deserted` those that shared the
connection of an owner that stopped (nobody takes it over), `late` those whose token
was asked for with a row that changed before the token came (`fresh` travels with the
command), `unchecked` those whose last save was overtaken, between its reading and its
commit, by another commit to its row or to a row with its app id (`Overtaken`). So
`TokensFollowConfig` says that a command with an older row is the only way to an old
token: no commit leaves one, whatever overtakes the request or makes its refresh fail.
And `SharedSecretsAgree` says that two secrets of an app id come of a save overtaken
after its check and nothing else, and that the next save of that project ends it. That
these cases do happen is shown by `FeishuOldToken.cfg` and `FeishuTwoSecrets.cfg`.

**Fairness.** The event loop resumes every request that can proceed; Feishu answers or
refuses. `RequestsEnd` then says that every request ends. Its safety core is
`NoRequestIsStranded`: the lock of a project is held by the one request that reloads
it and by nothing else, and a save whose row is gone knows that a deletion removed it,
so neither waits for something that never comes.

## EvidenceRuns

`EvidenceRuns.tla` models one evidence run: `rows` (run, resources, observations),
`files` (upload, source, images, observation files, index of what is adopted), the
open transaction (`lock`, `draft`), and two or more processes, each of which is a
request or a scheduled clean-up. An image is the number of the reading that fetched
it, so that an observation of the image of an earlier reading can be told.

| Code | Actions |
|---|---|
| `create_source_evidence_run_from_request`, `..._from_upload` | `Create`, `ReadsSource`, `StoresResources`; `ReadFails` (Feishu), `ReadRaises` (others: a creation clears the directory only after an error it expects) |
| `retry_source_evidence_run` | `Retry` (clears the directory), `DeletesResources`, the reading, `Responds` |
| `create_visual_observations` | `Observe`, `Upserts` or `CallFails`, `Flushes` or `FlushFails` |
| `adopt_visual_evidence`, `revoke_adopted_visual_evidence` | `Judge`, `Flushes` or `FlushFails` |
| `ensure_run_not_expired_or_cleanup`, `cleanup_expired_source_evidence_runs` | `Visit` or `Responds`, either of which `Gathers` the rows, `Sweeps` (files), `Scrubs` (rows) or `ScrubFails` |
| `validate_source_evidence_for_generation` | the operator `PassesValidation` |
| busy timeout, time, crash | `GivesUp`, `Expires`, `Crash` |

`crossed` records which pairs of tasks (`Harmful`) crossed: one wrote what the other
had touched unseen. Each property excepts only the pairs that break it, and holds
under every other overlap:

* `EvidenceIsGrounded`, except when a retry crossed an observation;
* `OnlyAdoptedPasses`, except when an observation crossed an adoption (`approved` is
  the bookkeeping of what its user saw);
* `ReadyIsReadable`, except when two retries crossed;
* `CleanedKeepsNothing`, except when a retry or an observation crossed the clean-up, an
  adoption or a revocation did and the server crashed, or files could not be removed.

What a generation may find of the run implements `EvidenceGate` (`KeepsGate`): only an
adoption lets an observation pass, and only while it is the last word of the user; a
reading of the source leaves nothing passing; a clean-up is the end. The refinement maps
a run that is `Contested` (an observation crossed an adoption, or a retry a clean-up) to
a phase of its own, of which `EvidenceGate` promises nothing.

**Fairness.** Requests proceed, time passes, and the clean-up is scheduled outside. Then
an expired run is cleaned, whoever holds the lock (`ExpiredIsCleaned`).

## Runs and bounds

| Run | Module and configuration | Question | Outcome |
|---|---|---|---|
| `rules_overlap` | `MCRuleConfigs`, `RulesOverlap.cfg` | What holds under any overlap? | holds |
| `rules_serial` | `RulesSerial.cfg` | What does the optimistic lock achieve without overlap, does the store implement `RuleBook`? | holds |
| `rules_lost_update` | `RulesLostUpdate.cfg` | ... and with overlap? | `NoSilentOverwrite` violated |
| `rules_rename` | `RulesRename.cfg` | Can a published type change? | `PublishedTypeIsStable` violated |
| `execution_overlap` | `MCExecutionRuns`, `ExecutionOverlap.cfg` | Do items mix, are runs stranded, do they end? | holds |
| `execution_serial` | `ExecutionSerial.cfg` | Do ids that come back do harm without overlap, do the tables implement `ResultBoard`? | holds |
| `execution_two_results` | `ExecutionTwoResults.cfg` | Does an execution replace the last result? | `OneResultPerScope` violated |
| `execution_cleanup` | `ExecutionCleanup.cfg` | Does the clean-up keep to the retention? | `CleanupSparesFreshResults` violated |
| `generation_runs` | `MCGenerationRuns`, `GenerationRuns.cfg` | Does a run keep its lifecycle, are its results whole, does it end? | holds |
| `generation_reopened` | `GenerationReopened.cfg` | ... and when a request comes by another status than the run's? | `CompletedIsWhole` violated |
| `feishu_bots` | `MCFeishuBots`, `FeishuBots.cfg` | Do rows, connections and tokens agree, is a request stranded, do all end? | holds |
| `evidence_runs` | `MCEvidenceRuns`, `EvidenceRuns.cfg` | Is what generation rests on grounded, is an expired run cleaned, does the run implement `EvidenceGate`? | holds |

Four more configurations, not among these runs, show histories that the properties of
the passing runs allow and a document excludes. TLC reports each as violated in at most
20 states:

| Configuration | Violated | What happens |
|---|---|---|
| `GenerationSecondWorker.cfg` (`MCGenerationRuns`) | `OneWorker` | the retry of a run that is active starts a second worker |
| `GenerationLateAudit.cfg` (`MCGenerationRuns`) | `ExpiredKeepsNothing` | an audit is inserted under a run that has expired and was cleaned, in the same commit or later |
| `FeishuTwoSecrets.cfg` (`MCFeishuBots`) | `OneSecretPerApp` | two overlapping saves leave two secrets for one app id |
| `FeishuOldToken.cfg` (`MCFeishuBots`) | `NoTokenIsLeft` | a token of the bot before a save is cached after it |

The passing runs reach 116,000 distinct states (`generation_runs`) to 1.2 million
(`feishu_bots`) and take between ten seconds and four minutes with two workers.

Bounds. *Rules.* Two clients suffice for every race of a request with another: a
request races with one committed change at a time, and the other client can make
several. Two rules, so that an id comes back while another rule lives; two versions
and two or three lock values, so that a rule is published, edited and published or
rolled back again; two types, so that renames and collisions happen; two bodies
where the property compares contents. `MaxLock` stops a request from starting,
never one that started; `MaxVersions` stops a publication from numbering.

*Results.* One or two scopes, two or three synchronous requests, two tasks,
three run ids (an id comes back while others live, as a result of another scope or as a
background run; two suffice in `execution_cleanup`), one crash, one
unhandled failed write. `MaxErrors` is 0 in `execution_serial`, whose properties
do not mention lost tasks.

*Generation.* Two chunks, so that one fails while the other yields an atom, and a
retry replaces one of two; two workers, the run's and a retry's; one client, whose
requests race with the workers and with expiry; one crash (`MaxCrashes`).

*Bots.* Two projects, two app ids and two secrets (`Forms`: shared app id with either
secret, or a move to the other app id with the stored one); two requests at once, three in all
(`MaxRequests`: a second save or a deletion after an overlap), one command at a time,
which may fetch tokens again and again with the row it loaded first, one restart.

*Evidence.* Two kinds of source, of which one fails with a status and the other with
an error, and one keeps an upload; two resources of which one is an image, in either
order of ids; two processes; two readings (`MaxReads`: a retry changes what was
observed), one fault. After `MaxCrossed = 1` crossing a request begins only alone,
which keeps what several crossings do together out of the run. The invariants were
also run with `svn_file` as a third kind and three readings (4.6 million states).

Requests, tasks and workers are bounded, so all but the `RuleConfigs` runs may stop
and do not check deadlock; the `RuleConfigs` runs check it. Symmetry is used only in
runs without liveness.

Every property of a passing run has a mutant in `PROJECT.json`: an operator marked
"Fault" in the module, a plausible bug at the same place, under which TLC finds
that property violated.

## Disagreements with the documentation

Those of the first five are runs; the others have a configuration of their own or are
the exemptions of a property.

1. **Overlapping saves overwrite silently** (`rules_lost_update`). The lock value is
   compared in Python with a row read before the validation awaits
   (`service.py:624`); the UPDATE does not mention it (`service.py:497`). `CONTEXT.md:61`
   asks to avoid "Silent overwrite, last-write-wins".
2. **A published rule can be renamed** (`rules_rename`) when the rename of a draft
   overlaps its first publication (`service.py:580`). `CONTEXT.md:120` calls the
   type a stable command key after first publication.
3. **Two results of one scope** (`execution_two_results`): the previous ids are read
   before the deleting transaction (`result_store.py:62`); the docstring promises to
   overwrite the latest result. The next execution of the scope removes both.
4. **The clean-up deletes a fresh result** (`execution_cleanup`) that got the id of
   a collected one while files were being removed (`runtime_cleanup.py:411`).
5. **A run that is still active is made completed** (`generation_reopened`): rendering
   again is accepted in any active status, and a run whose quality was not audited yet
   falls back to `completed` (`generation_artifacts.py:191`), whatever its chunks.
   `docs/specs/test-case-generation.md:547` says that the request only renders again.
6. **An active run is retried** (`GenerationSecondWorker.cfg`): the retry of failed chunks
   refuses ended runs other than partial ones and accepts every active one
   (`generation_runs.py:592`), whose worker goes on beside the new one.
   `docs/specs/test-case-generation.md:544` allows it for partial runs only.
7. **An audit is left under a cleaned run** (`GenerationLateAudit.cfg`): the coverage audit
   of a run that ended since the stage began, or that it finds overdue and expires itself,
   inserts its record and commits it (`coverage_audit.py:61`, `:129`, `:157`), and the
   clean-up does not come back.
   `docs/specs/test-case-generation.md:556` says that after it no detail of atoms, cases
   or audit is available.
8. **Two secrets for one app id** (`FeishuTwoSecrets.cfg`): two saves compare their secrets
   with the other projects' rows before either commits (`admin/router.py:1816`), and no
   constraint of the table tells. `CONTEXT.md:83` requires one secret.
9. **A token of the old bot is cached** (`FeishuOldToken.cfg`): a command whose session
   loaded the row before a save asks for a token with it afterwards
   (`feishu_bot.py:87`, `:235`; `feishu_long_conn.py:445`). The comment at
   `admin/router.py:862` drops the cache so that no token is left over.
10. **Evidence**, each shown by removing the exemption from the property:
    `docs/specs/test-case-generation.md:623` says that the clean-up must delete the files
    and the details, and requests that overlap it write some again
    (`CleanedKeepsNothing`); `:630` and `:662` say that only what a user confirmed is
    used, and an observation that overlaps an adoption puts another description in its
    place (`OnlyAdoptedPasses`).

## What the exemptions hide

The properties except histories that TLC produced while the models were written. Some
contradict a document (above); all are listed because a maintainer would want to know of
them. The bookkeeping variable that names each is in parentheses.

* A retry of an evidence run clears the directory before it takes the write lock. Of
  two overlapping retries the second removes the files the first is writing; if it
  then gives up, a ready run is left without files, and without a failed resource
  there is nothing to retry (`crossed`).
* An observation waits for the vision model between reading the image and writing
  what was seen. If the run is retried meanwhile, the description is of the earlier
  image. If an earlier observation is adopted meanwhile, its detail is replaced by the
  new one, which passes the validation although nobody adopted it (`crossed`).
* An observation or a retry that overlaps the clean-up can leave files, or the token
  of the source, under a run that is marked cleaned and is never cleaned again. An
  adoption or revocation that overlaps it writes the index of adopted evidence again,
  and removes it itself when it meets the expired run, unless the server crashes first
  (`crossed`).
* A directory that cannot be removed is only noted: the run is marked cleaned (`stuck`).
* A stage of a generation run that commits after a cancellation it has not seen makes
  the run active again; after an expiry, it writes details that are never cleaned
  (`crossed`).
* Two requests of one bot that overlap can leave a connection of the earlier row, or one
  of a row that was deleted between a reload's reading and its start, until the next
  request of that project (`raced`). After a refused connection a project stays in error,
  which the property allows.
* Projects that share an app id stay "active" without a connection when its owner stops
  (`deserted`).
* A token that was asked for with a row that changed since is cached and used until it
  expires or the next save (`late`).
* A save that was overtaken between its check and its commit may leave its app id with
  two secrets until the next save of its project (`unchecked`).

## Proofs

TLAPS proves, for every value of the constants under the named assumptions (which
only bound numbers to `Nat` and keep the null values apart from real ones) and the
conditions stated:

| Module | Theorem | States |
|---|---|---|
| `RuleConfigsProofs` | `TypeCorrect` | `Spec => []TypeOK` |
| | `RulesAndHistoryAgree` | `Spec => [](PublishedIsRecorded /\ HistoryHasRule /\ KeysAreUnique)`; `HistoryHasItsRule` and `KeysStayUnique` are its parts |
| | `PublishHistoryIsAppendOnly` | `Spec => HistoryIsAppendOnly` |
| `RuleConfigsSerialProofs` | `RowsTellTheirState`, `OverwritesAreSeen`, `PublishedTypesAreStable`, `OnlyPublishedIsLookedUp`, `ImplementsBook` | the five properties of `rules_serial`, the last `Spec => KeepsBook`, from `MaxInFlight <= 1` and finitely many clients |
| `ExecutionRunsProofs` | `TypeCorrect` | `Spec => []TypeOK` |
| | `ItemsNeverMix` | `Spec => []ItemsBelongToRuns` |
| | `RunsHaveTheirTask` | `Spec => []NoStrandedRun` |
| `ExecutionRunsSerialProofs` | `ScopesKeepOneResult`, `CountedFindingsAreListed`, `BackgroundRunsAreKept`, `ImplementsBoard` | the four properties of `execution_serial`, the last `Spec => KeepsBoard`, from `MaxOverlap <= 1`, `~OnlineCleanup` and finitely many requests |
| `GenerationRunsProofs` | `TypeCorrect` | `Spec => []TypeOK` |
| | `ImplementsLifecycle` | `Spec => KeepsLifecycle`, with or without stale views |
| `GenerationVerdictsProofs` | `CompletedRunsAreWhole` | `Spec => []CompletedIsWhole`, from `~StaleViews` |
| | `ResultsStayGrounded` | `Spec => []ResultsAreGrounded`, from `~StaleViews` |
| `FeishuBotsProofs` | `TypeCorrect` | `Spec => []TypeOK` |
| | `OneConnectionPerApp` | `Spec => []OwnersAreConnected` |
| | `TokensAreOfTheBot` | `Spec => []TokensFollowConfig` |
| | `SharedSecretsStayEqual` | `Spec => []SharedSecretsAgree` |
| | `ConfigIsFollowed` | `Spec => []SupervisorFollowsConfig` |
| | `ActiveProjectsAreServed` | `Spec => []ActiveIsServed` |
| | `RequestsAreNotStranded` | `Spec => []NoRequestIsStranded` |
| `EvidenceRunsProofs` | `TypeCorrect` | `Spec => []TypeOK` |
| | `PassedEvidenceIsGrounded` | `Spec => []EvidenceIsGrounded` |
| | `ReadyRunsAreReadable` | `Spec => []ReadyIsReadable` |
| | `OnlyAdoptedEvidencePasses` | `Spec => []OnlyAdoptedPasses` |
| | `CleanedRunsKeepNothing` | `Spec => []CleanedKeepsNothing` |
| | `ImplementsGate` | `Spec => KeepsGate` |

*RuleConfigs.* `TypeOK` includes what a request holds at each step of its
operation (`HoldsWhatItNeeds`): without it the commit actions could write values
of the wrong type. Given it, the three facts of the second theorem are inductive and
proved together (`Consistent`). They hold under any overlap because of the commits
alone, whatever was read before: the unique indexes are enabling conditions of the
commit, an UPDATE of a missing rule is refused, and a deletion takes the history and
the rule in one step.

Without overlap, `Serial` is inductive beside them: the request in flight is alone
(`Alone`), so the row it loaded is the row there is (`Current`), what its checks
established still holds at its commit (`Checked`), and a view with the row's lock
value shows the row (`ViewsSee`, `ActsOnView`). `RowTellsItsState` is part of it,
because what a publication may number depends on what the rows say.

`ImplementsBook` maps `records` and `history` to one book (`Shown`). A commit of a save
or a rollback is an `Edit`, one of a publication a `Publish`, and every other step a
stutter. The subtle parts: the content a commit writes was loaded and checked earlier, but
without overlap what it was checked against is still there (`Serial`); the UPDATE of
the changed columns yields the whole row; and a publication's number is one past the
last, which takes `NumberedNext` beside `Serial`.

*ExecutionRuns.* `TypeOK` says in addition that a request past its execution has a
scope. `ItemsBelongToRuns` is then inductive by itself: whoever removes a row
removes its items in the same step, and whoever writes a count replaces the items
of that row. `NoStrandedRun` is proved from `up /\ errors = 0 => Owned`: every
unfinished run is the run of a task that will still write an outcome to it (`Owns`). A
task about to do so must have loaded the row as unfinished, or it would leave the
status out of its UPDATE; so the invariant speaks of what the session holds. The subtle
step is `StartTask`: its row may by then be a different, finished run, which it sets
back to running; that run then is the task's own.

Without overlap in a scope and with the clean-up only while the server is down, that
step is not subtle any more: `Serial` says that an id held by a request, a task or
the clean-up still names the run it was read for (`SeesPrevious`,
`TasksHoldTheirRun`, `CleanupAlone`), which is what the properties rest on.

`ImplementsBoard` maps run rows and item rows to pages. With `FindingsAreListed`
the items of a run are exactly the findings it counts, so pages are told by the rows
alone (`RowsTell`); `Spent` says that what a row counts is of an execution that has
ended, so that a result written now was found nowhere before. The subtle step is the
replacement of a result under an id that comes back at once: the board changes, and no
page of a background run does, because the ids the request read are still of its scope.

*GenerationRuns.* `Prepared` says what a process has read when it writes; types need
it. The refinement needs `Marked` beside it: a run is marked cleaned exactly when it
is expired, as long as nothing crossed. Its subtle steps are those of a coverage audit
that comes too late, which must change nothing but the audit, also of a run that was
cleaned. `Verdicted` carries the verdicts, from `~StaleViews`: what each stage may rely on
because the stages before it ended (`Judged`), that a worker in a stage has read the
run as it is unless the run has ended meanwhile (`Fits`), and what a result is made of
(`Resulting`). It rests on `Alone`, at most one worker advances the run and none once it
has a result, and on what a retry and a rendering have seen (`Offered`), both of which
fail once a request may come by another status. The subtle steps are a retry and a
rendering of a partial run, which reopen what `Resulting` says of it, and the commit of a
stage, which must establish `Judged` for the next one.

*FeishuBots.* `OwnersAreConnected` is inductive with types. `TokensInOrder` strengthens
`TokensFollowConfig` by leaving out the requests whose refresh is going to fail: they
drop nothing, and the deletion that makes them fail does (`WillDrop`); `FreshRows` says
that a command whose row did not change holds the row as it is. `SecretsInOrder`
strengthens `SharedSecretsAgree` by what a save that was not overtaken has read and
checked, which is still true of the rows when it commits (`StillFits`).
`Follows` carries the two properties of the supervisor. It says who has been alone in
a project (`Overlaps`), what an undisturbed request on its way knows of the row and of
the connection it stopped (`Undisturbed`, `OnTheWay`), and that a project is in order
until a request of it commits (`Ordered`, `InOrder`). The subtle step is a stop: closing
a connection other projects share leaves them in order only because they count as
deserted from then on. `NoRequestIsStranded` is inductive with types: only the steps of
a reload touch its lock (`LockTaken`, `LockReturned`), and whoever commits a deletion
tells the others of the project (`Commits`).

*EvidenceRuns.* `Inv` adds to the types what a process holds (`Fits`) and that an
observation row, once there, stays there, also in the open transaction (`DraftAdds`).
`Started`: nothing touches a run before it is created. `Grounded` is what
`EvidenceIsGrounded` needs: while no retry and observation crossed, an observation
file describes the image that is there (`DetailsMatch`), who waits for the vision
model looks at that image (`LooksAtCurrent`), and a retry that is reading has left no
observation files (`RetryHasCleared`).
`Readable` says, while no retries crossed, that who stores a reading has
written its source (`StoreHasSource`), a ready run without it has a failed resource to
retry (`ReadyHasSource`), an upload is kept (`UploadKept`), and a transaction changes
the run and its resources only in its commit (`DraftsSame`). `Approvals` says, while
no observation crossed an adoption, that what is adopted in the rows was approved
(`AdoptedApproved`), also through an open transaction (`DraftAdopts`), that an
observation waits only for an image not adopted (`ObservesUnadopted`) and a revocation
acts on one that was (`RevokesAdopted`).
`Cleanings` is what `CleanedKeepsNothing` needs. At any time (`Orderly`): once a
clean-up has swept the directory, whoever works on the run has been told of it
(`CleansExpired`), an open transaction holds the run row as it is (`HoldsLock`), and only
an expired run is being swept (`SweepsExpired`).
While nothing exempt has happened (`Sound`): a swept directory stays empty but for the
index of a request that cleans the run itself as it answers (`Emptied`), a clean-up has
loaded every row there is or was told of what came since (`ScrubsAll`), and a run with
resources or observations has its token (`TokensAreThere`), without which the ORM would
not write that it is gone.
`ImplementsGate` needs all of these and `Guarded`: who holds the lock changes no more of
the observations than its task may (`HoldersObserve`), no commit leaves the run in the
middle of a reading (`NeverReading`), an observation replaces only what is not approved
(`ObservesDisapproved`), and nobody reads the source of a cleaned run
(`ReadersUncleaned`). The commit of an adoption is an `Adopt`, that of a reading a `Read`,
that of a clean-up a `Clean`; every other commit takes away at most, a `Withdraw`.

Every invariant, action property and refinement of the passing runs is proved. Only model-checked: the liveness
properties `RunsEnd` (twice), `RequestsEnd` and `ExpiredIsCleaned`: liveness under
fairness and `ENABLED` are beyond the prover, as is induction over data; no module
needs a recursive operator.

## Not modelled

* Readers of result pages: a page reads the run and then its items in two SELECTs,
  and may mix two executions.
* The OAuth authorization of documents: a table of its own, guarded by a random state;
  its callback reads the record before its external calls.
* The SVN cache, whose files are read outside the lock of their directory, and the
  execution pipeline with the rules a failed source disables.
* In the generation run: what the prompts, parsers and normalisers compute, the
  audit's detail rows, the export, strict mode, the readers of atoms, cases and files.
* In the evidence run: the choice among candidates, sheets and contexts, the parsers,
  the kinds of Feishu documents.
* Of the bots: the dispatch of messages, white lists and chats, reconnection inside
  the SDK, and the deletion of projects, which leaves the bot's row behind.
* The file part of the clean-up of runtime directories, exports, Markdown parsing, the
  rules themselves: input and output, or computation over data frames.
* Session details with no effect on the properties: error messages, timestamps,
  `updated_by`.
* Personal workbench configuration, lookup, AI caches, auth and administration,
  reference library, bootstrap, frontend: documents or rows that one user replaces,
  or pure reading. They are most of the source by size.

## Plan

Done: `RuleConfigs`, `ExecutionRuns`, `GenerationRuns` with `RunLifecycle`,
`FeishuBots`, `EvidenceRuns`, the abstract specifications `RuleBook`, `ResultBoard` and
`EvidenceGate` which they implement, and their theorems. `FeishuBots` has none: its
promise is a relation between rows and connections once requests are over, which
`SupervisorFollowsConfig` states as it is. What is left, in this order:

1. `SourceAuthorization`: request, callback and invalidation around the OAuth state.
2. Result page readers in `ExecutionRuns`, and the runtime lookup of `RuleConfigs` in
   its two reads.
3. `ExecutionPipeline`: sources, failures and the rules they disable, as operators
   checked against a reference definition; the SVN cache.
