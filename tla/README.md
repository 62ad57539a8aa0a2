# Modori: specifications, model checking and proofs

Modori is a local Windows desktop application that makes statistical research
decisions reviewable before a calculation runs. This directory holds TLA+
modules that model its core, the TLC configurations that check them on small
instances, and theorems that the TLA+ proof system checks for every instance.
Paths below are relative to the repository; `core/pipeline.py` stands for
`src/modori/core/pipeline.py` and so on.

## 1. The system

### 1.1 Components

| Component | Code | State it keeps | Operations |
|---|---|---|---|
| Step pipeline | `core/pipeline.py`, `core/model.py` | ordered steps, source and current dataset, analysis objects, per-step result, write and dirty-key caches | add, insert, insert and recompute, edit parameters, remove, replace the source, recompute from a step, load from JSON |
| UI run protocol | `ui/controller.py`, `ui/run_tracker.py`, `ui/pipeline_state.py`, `ui/worker.py`, `ui/result_state.py`, `ui/session.py` | pipeline version, status, stale flag, latest run id and future, displayed results, provenance of the selection | open file, edits, rerun, result delivery, wait, export, reconfirm |
| Pipeline operations | `ui/pipeline_ops.py`, `ui/analysis_editor.py`, `ui/data_transform.py`, `ui/metadata_editor.py` | none of their own; they mutate the pipeline | replace analyses, insert or edit a data preparation step with analyses put aside, export |
| Decision ledger | `research_memory/ledger_store.py`, `sqlite_policy.py`, `ledger_contracts.py`, `canonical.py` | one SQLite file per research task: hash-chained events, artifacts, derived head; per connection the data version that was verified | create, open, verify (with repair of derived rows), append with expected head, read, close |
| Passport history | `research_memory/passport_state.py` | none (fold over a ledger's events) | inspect, require outstanding, require current |
| Promotion | `research_memory/promotion.py` | none (writes the ledger) | initialise, commit passport, retract, commit answer, import |
| Task index | `research_memory/task_index.py` | SQLite table of tasks: identity, generation ordinal, active or readonly | open, locate active, writer lease, allocate, mark readonly |
| Task session | `research_flow/task_session.py` | file system: one ledger file per task | open or allocate, locate, start a replan |
| Decision coordinator | `research_flow/coordinator.py` | none (ledger under the task's writer lease) | recover, commit initial, resume pending, commit answer, retract |
| Research flow runtime | `ui/research_flow_controller.py` (`ResearchFlowRuntime`) | identity, snapshot, handle, record; runs on the engine worker | start, commit, review meanings, answer, resume, retract, replan, prepare |
| Research flow controller | `ui/research_flow_controller.py` (`ResearchFlowController`), `ui/research_preparation_editor.py` | flow state, run id, busy flag, pending view, review | the user's commands of the flow, delivery of runtime results, version synchronisation |
| Research OS rules | `research_os/*` | none of their own; a request, its budget of questions and its evidence go in and out | resolve a request, plan a question, answer it, commit the revised request |
| Evidence bundles and quarantine | `research_memory/evidence_bundle.py`, `quarantine.py` | none (pure) | export a ledger, verify a bundle, inspect a foreign one |
| Statistics | `steps/*`, `*_numerics.py`, `*_results.py`, `*_reporting.py` | none (pure) | compute and report one analysis |
| Recommendations | `recommendations.py`, `*_recommendation.py`, `recommendation_*.py` | none (pure) | rank analysis candidates, benchmark |
| Import and tables | `table_io.py`, `ui/importing.py`, `ui/import_flow.py`, `ui/data_session.py` | preview of a chosen file | read csv/xlsx/sav, preview, build an import pipeline |
| Knowledge library | `knowledge/*`, `library/*` | loaded entries | load, validate, look up |
| Presentation | `ui/qml/*`, presenters, strings, localisation | view state | formatting |
| Packaging and QA | `scripts/*`, `installer/*`, `app.py`, smoke modules | none | build, smoke tests |

### 1.2 How they interact

* The Qt main thread runs every controller command and every signal handler.
  One `SerializedEngineWorker` thread runs engine jobs in submission order; the
  run protocol and the research flow share it.
* A run reads the live `Pipeline` object; an edit changes the same object on the
  main thread. `pipeline_version` and the run id decide whether a result that
  comes back is still wanted.
* The research flow runtime calls task session, coordinator and ledger on the
  worker thread. Each ledger operation runs inside the task's writer lease,
  which is a SQLite write transaction on the task index; a second process of
  the application works on the same files.
* A confirmed preparation goes back from the research flow to the pipeline
  through the preparation editor and bumps the version, which in turn makes the
  flow ask for a replan.

### 1.3 What is hard about it

* Two threads: results that arrive late, twice or before the command that asked
  for them has finished; edits while a job reads the pipeline.
* Crashes between two durable steps: ledger file without index row, request
  without passport, answer without passport, new task without the old one closed.
* Two processes on the same memory: compare-and-append on the ledger head, the
  one-active-task rule, leases.
* Incremental recomputation: a cached result is reused when nothing it depends on
  changed; the dependency closure must not miss a step.
* Rollback of a failed edit or insertion, in several attributes.

* A ledger is verified by a sequence of reads outside a transaction, while others
  append; only `PRAGMA data_version` tells.
* Candidates of a clarification replace whole parts of a request: two that were
  built on one request would undo each other.
* Commands that are cancelled while their job goes on, and whose result arrives
  when something else is on screen.

The hazards, each at its line, are in `PROJECT.json`.

## 2. Modules

| Module | Models | State |
|---|---|---|
| `RunProtocol` | the controller's run protocol: Qt main thread, serialized engine worker, event queue | version, status, stale flag, queue, posted events, displayed results |
| `Pipeline` | `core/pipeline.py`: steps, caches, incremental recomputation, rollback | the attributes of `Pipeline`, a call per thread, the data file |
| `PipelineOps` | `ui/pipeline_ops.py` on one pipeline, main thread and worker at once; EXTENDS `Pipeline` | the same, and two ghosts |
| `VerifiedLog` | what one ledger promises to its connections; `DecisionLedger` implements it | the log, what each connection knows of it |
| `DecisionLedger` | one SQLite ledger: create, open, verify and repair, append, adopt, export | committed rows, write lock, each connection's step and memory, last bundle |
| `DecisionAuthority` | what the research tasks promise; `ResearchTasks` implements it | open and closed tasks, what each ledger says |
| `ResearchTasks` | index, leases, ledgers and crashes of several windows | index rows, ledgers, write lock, what each window keeps, its job |
| `ResearchFlow` | one window's flow: controller, runtime on the worker, preparation and its confirmation, pipeline version | view, run id, cancel event, queue, posted results, the runtime's memory, data, tasks |
| `P1Catalog` | the P1 catalogue as data: facts, rules, dependencies, answers, intake profiles | none |
| `ClarificationLoop` | resolve, plan, answer, commit; EXTENDS `P1Catalog` | the request, its budget, evidence, last passport, candidates that wait |
| `Handoff` | `research_flow/handoff.py`: from a recommendation to the variables of one step; EXTENDS `ClarificationLoop` | none |
| `*_proofs` | proofs about `RunProtocol`, `Pipeline`, `PipelineOps`, `DecisionLedger`, `ResearchTasks`, `ResearchFlow`, `ClarificationLoop` with `Handoff` | |
| `PipelineOps_proofs` | what two overlapping calls leave; EXTENDS `PipelineOps` and `Pipeline_proofs` | |
| `ResearchFlowRecords_proofs` | what `ResearchFlow` shows of its ledgers; EXTENDS `ResearchFlow_proofs` | |
| `MC*` | constants, symmetry and views of the runs | |

Three layers of the research memory are one above the other. `DecisionLedger` has
one file with all its reads and transactions; `ResearchTasks` has many ledgers, each
a sequence of events that a lease protects, and the index; `ResearchFlow` has of a
task only what its ledger says last, and the window around it.
What the planner says is the function `Plan` in `ResearchTasks`, a choice in
`ResearchFlow`, and computed in `ClarificationLoop`.

### 2.1 How the modules correspond to the code

`PROJECT.json`, `map`, gives the lines for every definition. In short:

* **`RunProtocol`.** Each slot of `UiController` is an action. Two of them are
  split because the worker thread can see the middle: `rerun`
  (`RerunSubmit`, `RerunAddCallback`, `RerunMarkRunning`) and a step edit
  (`EditBegin`, then one of `EditFail`, `EditData`, `EditAnalysis`,
  `EditReport`, `CommitResearchPreparation`), which changes the live pipeline
  before it knows whether the edit stands. `WorkerStart` and `WorkerFinish` are
  the executor's thread; a job reads the live pipeline, so that what it has
  *seen* is a set of contents, extended by every change that happens meanwhile
  (`Observe`). `DeliverResult` is the queued signal, `WaitForLastRun` the second
  way a result is applied. What a run computes is not modelled.
* **`Pipeline`.** Every method that changes a pipeline is an action that begins
  a call; `WalkBegin`, `WalkCached`, `WalkCompute` and `Commit` are
  `_recompute_dirty`, one action per step computed; `Fail` puts back what this
  method's `except` puts back (the set `restores`, different from method to
  method). A value is the term of how it was computed, so that equal means
  computed from equal inputs. What a step reads and writes is a constant `Def`.
* **`PipelineOps`.** The UI's operations begin a call of the main thread; the
  worker's rerun is a call of the other thread on the same variables. The main
  thread's operations put the analyses aside (`KeepSteps`), walk, and put them
  back (`WithDeferred`).
* **`DecisionLedger`.** Outside a transaction every SELECT is a snapshot of its own,
  so that `verify` is seven steps (`VerifyStep`), the export three and an append
  six; `Begin` to `Commit` is BEGIN IMMEDIATE, the checks under the lock and the
  COMMIT. `moved` says that another connection committed since the verification
  began, `stale` since it ended: both stand for `PRAGMA data_version`. An append
  that loses looks for the winner of the same request (`Adopt`). `Fail` is an
  error or a death at any step. Hashes are numbers that nothing else has.
* **`ResearchTasks`.** A user's request starts a job of a window; the steps of a
  job end at a transaction of the index or of a ledger, or where the lock is
  taken or given back. `Lease` is `BEGIN IMMEDIATE` plus everything up to the
  first append; `CommitPassport` and `Publish` follow. A connection to the index
  trusts what it verified when it was opened; a commit of another window sets
  `stale`, and an append of another window to a ledger that is being verified
  sets `torn`. `Fail` and `Crash` may come between any two steps. `Recover` is
  `_recover_from_store`, with all the shapes it calls corrupt.
* **`ResearchFlow`.** Each slot of the controller is an action of the main thread;
  most are `Command`, which submits a job (`_submit_runtime`). A job of the runtime
  is several steps of the worker: `Capture` (dataset and identity), `Check`
  (cancellation, version and identity, looked at for the last time), one action
  that writes (`CommitInitial`, `CommitAnswer`, ...), `Publish`. `Deliver` is
  `_apply_worker_result` with its comparison of run id and version. `Edit` changes
  the data before `CommitEdit` makes the version and calls `Sync`
  (`syncPipelineVersion`); `Confirm` is the controller's and the editor's checks and
  the replacement of the step.
* **`Handoff`.** `Rows` is the closed table of six rows; `Matches`, `Fits` and `Closed` are
  the three checks in turn, `Mappings` is `map_passport_to_step`: the steps a passport
  becomes, none where the code raises. `BoundRoles` keeps the order of the roles, which
  an answer about one of them changes.
* **`ClarificationLoop`.** `Resolve` is the resolver, the planner and the service:
  which methods the facts leave possible (`Possible`, `Stable`, `Blockers`), and
  which question loses least at worst over all its answers (`QuestionCost`,
  `TerminalLoss`, compared as the code's tuples are). `Propose` is an answer and its
  candidate revision, with everything the answer invalidates; a candidate is
  committed only to the request it was built on. The operators were also compared
  with the Python code outside TLC: 5,370 resolutions, 5,841 answers and 6 intake
  requests agree.

### 2.2 Properties

`RunProtocol`: results that are not marked stale are those of the open file at its
current commit (`FreshResultsAreCurrent`); results of two files never mix
(`NoResultsOfAnotherFile`); no run from a selection that was confirmed for older
data (`RunsUseConfirmedSelections`); what is on screen comes to agree with the outcome
of the last run and goes on agreeing, and a failure is shown as an error of that run
unless it comes before `rerun` returns (`EngineResultIsReported`; for that case see
`FailureIsShown`). What the status says while the engine computes is in no property: a
rejected command resets it, so that the overlay goes away early.

`Pipeline`: between calls every cached result is what a recomputation from
scratch would give (`CachesCoherent`) and what is published is what is cached
(`PublishedIsCached`); a key has one owner (`OwnersUnique`, here only: not where
`PipelineOps` puts the analyses back); a call that raises,
wherever, leaves the pipeline as it was (`FailureRestores`).

`PipelineOps`: one undisturbed rerun makes good what overlapping calls have left
behind (`QuietRerunHeals`); data edits keep the analyses (`AnalysesSurvive`); an
exported report shows the results on the screen (`ExportShowsPublishedResults`).

`DecisionLedger`: a connection that still counts as verified has verified every
event there is, and the derived rows are their replay (`VerifiedMeansCurrent`); two
that decide one request at once leave one open question (`OneOpenQuestion`); an
exported bundle is the whole ledger of one moment (`BundleIsWholeLedger`); an
integrity error is somebody else's commit and never what the program itself has
left (`IntegrityErrorsAreContention`); and the file refines `VerifiedLog`
(`ImplementsLog`): append-only, and extended only by who knows all of it.
`OneOpenQuestion` is about passports that ask. Of a passport that recommends or abstains
the code has no key: `commit_current_passport` does not find it, appends a second one,
and the ledger accepts it, as it does here (`Asks`, `Outstanding`, `Follows`). Recovery
then refuses the ledger. What keeps the live flow from it is in `ResearchTasks`: the
lease, and that a job commits a passport only on a request to decide
(`LedgersRecoverable`, `ImplementsAuthority`).

`ResearchTasks`: the index names only ledgers that exist (`LocatorsNameLedgers`);
ordinals have no gap and only the last task is open (`OrdinalsContiguous`); every
ledger can be resumed wherever someone stopped (`LedgersRecoverable`); what is
shown is durable (`ShownIsDurable`); and the windows together refine
`DecisionAuthority` (`ImplementsAuthority`): one open task per dataset, appends to
open tasks only, in the order request, decision, answer, decision or retraction.

`ResearchFlow`: while the controller waits there is a job or a result it will accept
(`BusyIsAnswered`), and it does not wait for ever (`CommandsEnd`); at rest, what is
shown is what the ledger says (`ShownIsRecorded`); nothing of an older version is on
screen (`DriftIsShown`); a preparation can be confirmed only while its decision is
the current one of an open task (`ReviewIsCurrent`); a confirmed preparation is not
a candidate again (`ConfirmedStays`). A job that fails after its append leaves a
ledger the window has not read again; the history variable `torn` names these
tasks, and `ShownIsRecorded` and `ReviewIsCurrent` say nothing of them until then.

`ClarificationLoop`: no committed answer is lost to another candidate
(`NoAnswerIsLost`); no part of an estimand outlives the goal, causal intent or
template it was confirmed for (`NothingOutlivesItsGoal`); the next passport is no
worse than the planner said (`PromiseKept`); an intake request is decided within its
budget, by its own method, and is asked about the study only, since the application
cannot accept a revised estimand (`IntakeIsDecided`; the documents call this the
closure of the live slice); "not sure" is no evidence
(`RefusalOpensNothing`) and is not asked again, unless an answer has invalidated the
fact (`RefusedStaysRefused`). The last condition is the code's: a design
document says that a refused question is not repeated, and after a change of goal
or template it is. The planner looks ahead with one fact changed, while an answer
also invalidates what depends on it, so that `PromiseKept` leaves those answers out.

`Handoff`: what is recommended for a request of the intake maps to one step, with the
variables the user chose, each in its place (`RecommendationIsPrepared`). For requests
with more facts open this does not hold and is not promised: the table wants a contrast
that is not applicable to be marked so, and roles in its own order.

## 3. Runs

| Run | Question | Bounds | States |
|---|---|---|---|
| `run_protocol` | all properties of `RunProtocol` | `MaxRuns` 2, `MaxVersion` 3 | 191,643 |
| `pipeline_safety` | two sets of four steps: import, recode, analysis, report over a file that changes; metadata patch before and behind its readers, source that is replaced, keys claimed twice | four steps, three file states or two sources | 145,406 |
| `pipeline_ops` | two threads on one pipeline | import, patch, analysis, report | 104,222 |
| `research_tasks` | two windows, crashes, failures | two tasks, two datasets, one clarification | 137,186 |
| `decision_ledger` | two connections, failures anywhere | `MaxEvents` 6, a question about the first request | 792,169 |
| `research_flow` | one window, its worker, edits, a file that changes, failing jobs | three jobs, two tasks, two datasets (one blocked), two versions, one clarification | 417,255 |
| `clarification` | the six intake profiles and the causal request, as they are and with up to two more facts open | budget 3 (the code's), two waiting candidates | 162,193 |

Runs that TLC refutes, each against a sentence of the documents (see `findings`
in `PROJECT.json`):

* `run_failure_shown`: the worker fails before the main thread calls
  `mark_running`, the answer is applied first, and the panel then says "running".
* `pipeline_report_by_id`: a report that names an analysis by its step id is not
  recomputed when the analysis is.
* `ops_discarded_runs`: a run that is outdated has already written the pipeline's
  published dataset and caches.
* `flow_unseen_question`: an answer is cancelled after its job has recorded it; the
  question is shown again, and a second answer is recorded for the next question,
  which nobody saw.
* `flow_stale_fingerprint`: a rerun reads a changed file without a new version, and a
  preparation made for the former data is confirmed.

**Why the bounds are enough.** Two runs are what makes a late result of an older
run possible, and three version changes put an edit before, during and after each
and leave one for a second file. In a pipeline, every way in which a cached
result can be out of date needs a writer, a reader, a reader of the reader and an
edit that changes the writer's keys; four steps have them, and a chain of more
readers repeats the same round of the dependency search. On a ledger, six events
are a request, a question, an answer, two conclusions and the retraction of the last, or
a question that is retracted and asked again, or an import and what follows; a third
connection only adds another one that is stale. Two windows and two
tasks per run give every pair of jobs on one task, a replan under a decision, and
a replan to another dataset; a third window only adds another loser of the same
lock. `MaxRows` (10,000 in the code) is 2, so the branch where the index is full
while ids are left does not happen in this run; it changes nothing but the
outcome. One clarification per draft is enough for an answer and the round after it.
In the flow, three jobs are a command, one that is given while the first is still in
the worker after a cancel, and one after both. `MCInit` starts it on the dataset that
can be analysed, with no task or an unfinished one; the other starts are states it
reaches. Every set of at most two further open facts gives each rule of the
catalogue a fact that decides it and one that does not.

The bounds of the number of steps, windows, connections, jobs, tasks, events,
clarifications and open facts matter to TLC only: what section 4 proves holds for
all of them.

**Symmetry and views.** `MCResearchTasks` uses symmetry on windows, tasks and
identities, which the specification treats alike, and checks safety only. Its VIEW
identifies states that differ in what no later step reads: how the last job ended
(no passing property reads `outcome`), the ledger of a closed task, which closed
task a window holds, and jobs that can only end and change nothing (a stale
connection, a lease on a closed task). An invariant about what is hidden (a
closed ledger can be resumed, an old record is durable) speaks of something that
cannot change any more and was checked while it was visible. `MCPipelineOps`
hides what a call has saved and will not restore and the parameters of steps that
are gone. `MCDecisionLedger` uses symmetry on the connections, checks safety only,
and hides how a job ended and the last bundle, which only properties of steps
read, and what a connection has read and will not use. `MCResearchFlow` hides a
former view that cannot be put back, results that will be dropped and the history
that only the refuted runs read.

**Deadlock** is checked in `research_tasks`, where some window can always act. The
other systems may stop: the user does nothing, every connection waits at the bound,
the session has its recommendation, or a bound is reached.

**Fairness.** `RunProtocol`: the worker's thread goes on (weak fairness of
`WorkerStart` and `WorkerFinish`: a `ThreadPoolExecutor` with one thread takes the
next job), a command that has begun ends (weak fairness of its later parts, which
nothing can disable), and a posted event is delivered in the end although commands
keep coming (strong fairness of `DeliverResult`: a command in progress disables it,
the Qt event queue is first in, first out). `ResearchFlow`: the same worker goes on
(weak fairness of `Worker`), an edit that has begun is committed or taken back, and
a posted result is delivered (strong fairness of `Deliver`, which an edit
disables). The user and the file system owe nothing.

## 4. Proofs

Each of the modules below is proved for every value of its constants, from the
assumptions of its own module only (that bounds are numbers, that "no task" is not a
task, and so on). Where a theorem about `Pipeline` needs more, the hypothesis has a
name and is in the theorem's statement: `OneCaller`, `NoAliasIsNeeded`; the instances
that TLC checks satisfy it, but for the one of `pipeline_report_by_id`.

**`RunProtocol_proofs`**: `TypeCorrect`, `FreshResultsCorrect`
(`FreshResultsAreCurrent`), `FilesNeverMix` (`NoResultsOfAnotherFile`),
`RunsNeedConfirmation` (`RunsUseConfirmedSelections`).
The safety properties are not inductive: a result in the queue may become the one
on screen. `IInv` adds that a version number stands for one content. Every job,
posted event and finished future carries a version that is at most the current
one, and one that carries the current version has seen only the open file at its
current commit (`JobsInv`, `EventsInv`, `FutureInv`). An edit makes a new version,
which turns everything in flight into an older version (`OlderVersionsStayOlder`);
an edit that is still tentative changes what is seen but not file or commit
(`ObserveKeepsJobsInv`); applying an accepted result moves its part of the
invariant to the panel (`ApplyResultKeepsPanel`). `NextIInv` has one step per action.
The action property needs `SelectionInv` beside it: the data never changed after the
last commit, and an assisted selection that need not be confirmed again was confirmed
after the data changed last; only rerun counts a run (`RunsStartInRerun`).

**`Pipeline_proofs`**: `Types` (`TypeOK`), `OwnersStayUnique` (`OwnersUnique`),
`FailuresRestore` (`FailureRestores`), for any steps, parameters, keys and files.
`Types` holds for any number of threads. The two others assume `OneCaller`: the engine
takes no lock, and with two calls at once they are false (that is what `PipelineOps` is
about; `MCPipeline` checks one caller too). `SInv` adds to the types what is so between
calls (`CallSettled`): what a cached result says of its step is filed under the step's
id, and no other step has it (`Filed`, `Owners`, `Shaped`, `Recorded`). In a call only the
step that was edited may be out of step (`BeginFiled`), in the walk only what is still
pending (`WalkFiled`), and whatever the method's `except` does not put back is still as it
was (`Restorable`), which is why the set may differ from method to method. Which steps
are dirty is a recursive function on the rounds of a loop in the code; that its last
round is closed under dependencies (`DirtyStepsAre`) is by a least counterexample and
by induction on a finite set, each with its own predicate, so that no induction theorem
with an operator parameter is needed.

In the same module: `CachesStayCoherent` (`CachesCoherent`) and
`PublishedStaysCached` (`PublishedIsCached`), for one caller and if no step needs a key
that is only an alias of a step's results (`NoAliasIsNeeded`). The second hypothesis
excludes what the run `pipeline_report_by_id` exhibits, and nothing else: an alias does
not make the step that reads it dirty. `CInv` is `SInv` and `CallSourced`: each cached
result has, for each of its keys, the value that the steps before it give (`Valued`,
`Sourced`). After an edit only the keys that the edit touches may be out of date
(`BeginSourced`, `Touched`); in the walk, what a clean step needs comes from no step that
is still to be computed (`WalkSourced`, `Apart`), because the set of dirty steps is closed
(`DirtyAreApart`). Three assumptions of `Pipeline` carry this, each read off the code:
`StepsAssumption` (shapes), `ReadsAssumption` (a metadata patch reads the columns it
writes, `steps/data_prep.py`; an import reads nothing), `OriginsAssumption` (a source is
replaced only by one whose columns are in every file, and only steps whose keys nothing
else touches are inserted without a recompute: `insert_after` has no caller besides
`insert_after_and_recompute`, and `replace_source_dataset` none on a pipeline with an
import).

**`PipelineOps_proofs`**: `OpsTypes` (types and distinct step ids),
`SelectedAnalysesSurvive` (`AnalysesSurvive`), `QuietRerunsHeal` (`QuietRerunHeals`),
`ExportsShowPublishedResults` (`ExportShowsPublishedResults`), for any steps, keys,
analyses and parameters and any interleaving of the main thread with the worker. The
last two assume `NoAliasIsNeeded`, as above; none assumes `OneCaller`.

* `AInv` holds whatever the threads do: types, a pipeline whose step ids are distinct, and
  of a call what it saved and how it ends (`MainInv`). In a call that put analyses aside,
  the steps are a part of those before it, in their order, without the analyses
  (`Deferred`). The worker's rerun changes no list of steps. Putting back is a fold over
  positions in the code; the model states it as the list that an order gives (`InOrder`), so
  that `AnalysesComeBack` needs no induction over data: an element's rank is the number of
  elements below it (`Ranks`), and of two lists with the same order the same part is the
  same list (`SameOrder`).
* `GInv` is `Pipeline`'s invariant for the thread that is alone. While no calls have
  overlapped (`~torn`) the main thread's call is `Good`; while the main thread has not acted
  beside it (`~beside`) the worker's rerun is, even from a pipeline of which only `AInv` is
  known, because the rerun makes every step dirty and computes it anew. Two threads may
  leave results of steps that are no longer listed, which one caller never does; the
  invariant therefore speaks of listed steps only (`CallTidy` where an operation relies on
  more). The lemmas about a single call are those of `Pipeline_proofs`, which are stated
  about one call and the pipeline, not about the number of threads.
* The export: the keys noted for the report step are keys of a report (`KInv`, in every
  state), so the report step is all that an export has to compute (`ReportAlone`); until it
  is computed its analysis' result stays what it was before the call and no other step owns
  its keys (`Showing`, `XInv`); so what it was made of is what is published afterwards
  (`ReadyShows`).

Three assumptions of `PipelineOps` carry this, each read off the code. `OpsAssumption`:
every analysis with each of its parameters has a report that takes this analysis' result
(`_report_step_for_analysis`), and no step has the name of one of the model's ways to go
on. `DataAssumption`: a data step needs columns and no analysis object, and only data
steps replace a column's metadata; a pipeline in which a column and an analysis object
have one name writes a key twice and is refused. `ReportAssumption`: the report is filed
under its step's id, nothing reads it, and a session begins with `Dataset.empty()`
(`ui/data_session.py`).

**`DecisionLedger_proofs`**: `TypeCorrect`, `VerifiedIsCurrent`
(`VerifiedMeansCurrent`), `LedgerIsAVerifiedLog` (`ImplementsLog`), `OneQuestionIsOpen`
(`OneOpenQuestion`), `BundlesAreWhole` (`BundleIsWholeLedger`),
`IntegrityErrorsBlameOthers` (`IntegrityErrorsAreContention`).
`VerifiedMeansCurrent` says nothing about a connection in the middle of a
verification; the invariant `ConnInv` says what each step has established so far, as
long as nobody else has committed: the events read are the events there are, the
derived rows read are what they were. A commit sets `moved` and `stale` of every
other connection and so falsifies the premise of its `ConnInv`; the committing
connection holds the lock and has compared the head under it. Every commit is a
`Write` of `VerifiedLog`, every accepted verification a `Verify`, every end of a
connection a `Leave`.
The last three need `DInv`. Its first part, `Sound`, is about the file: an event has the
number of its position and closes only an earlier one, every event may follow those before
it (`Inspected`), and the artifacts are what the events name. It is kept because a batch is
built on a head (`Built`, `BuiltMayFollow`) that append compares again under the lock, and
it yields `OneOpenQuestion` without a word about connections (`SoundHasOneQuestion`). Its
second part, `Remembers`, is what `ConnInv` leaves open: the artifacts read in a
verification, the head and the request between two checks of the version, the commit in
hand, what an export has read so far; all of it only while nobody else commits, but that
the events read for an export are a prefix of the file also afterwards. The integrity
errors are then a case analysis of the six steps that can raise one
(`RefusalIsContention`): with `Sound` and a version that still counts each check passes.

**`ResearchTasks_proofs`**: `TypeCorrect`, `LocatorsLeadToLedgers`,
`OrdinalsHaveNoGap`, `LedgersAreRecoverable`, `NothingShownIsLost`,
`WindowsAreOneAuthority` (`ImplementsAuthority`).
First, ledgers: what windows append keeps a ledger in the form `Shape` (each event
decides the request before it or closes the passport before it; later passports have
more answers), and of a ledger of this form `Recover`, with all its searches, says
what the last event says (`RecoverSays`). Then the invariant `IInv`: what each step
of a job relies on (`Relies`), one writer, a new ledger known to one window only
(`Apart`), one open task per dataset. `Committed` and `Appended` change nothing a
job relies on (`CommittedIs`, `AppendedIs`), so that each action needs an argument
about its own window only. For the refinement, a step that creates a ledger is
`Create`, an allocation is `OpenTask`, which closes the replaced task in the same
step, a mark is `CloseTask`, an append is `Decide`, and all other steps stutter.

**`ResearchFlow_proofs`**: `TypeCorrect`, `BusyHasAnswer` (`BusyIsAnswered`),
`NothingStaleIsShown` (`DriftIsShown`), `ConfirmationIsFinal` (`ConfirmedStays`), for
any number of jobs, tasks, versions, questions and datasets.
Two invariants. `TInv` has the types, what the job in progress has found out at each of
its points (`HeadOK`: from the last look at version and identity on, the runtime's
identity is of the job's version) and that a record goes with a task (`RtOK`).
`OInv` is about the order of versions, which none of the three properties says itself:
the worker's jobs are of versions the pipeline has had, oldest first (`OrderedOK`).
So when something of the current version is shown, or waits to be, all jobs behind it
and the runtime's memory are of that version too (`Aligned`, `AlignedOK`); this is what
a result posted by `Publish`, a view put back by `Cancel` and one made anew by
`AdoptLanguage` rely on (`VersionsOK`). A busy controller's run is alive (`RunsOK`) and
a confirmed preparation's is not (`ConfirmedOK`), because the version that is confirmed
is newer than all that is under way (`AdvancingKeepsOrder`). The actions reduce to five
cases: a job goes on, a job ends, a job joins, a step only looks, the version advances.

**`ResearchFlowRecords_proofs`**: `ShownStaysRecorded` (`ShownIsRecorded`),
`ReviewStaysCurrent` (`ReviewIsCurrent`). Both properties speak of the screen at rest, and
what reaches it was made from the runtime's record some steps before, while other jobs
waited. Two more invariants follow it. `FInv` is about runs: submitted, worked on and
answered in their order (`RunsInOrder`), and what still waits is cancelled, but for the
run that the controller waits for (`CancelledOK`), so that with a decision on screen for
good only reruns are left (`QuietOK`). `RInv` is about ledgers: the runtime's record is what
its ledger says, unless a failed job has written to it (`Reads`); a result of the current run
is of this record (`MadeOK`), what is shown for good tells what its ledger says (`ShownOK`).
The difficult case is a candidate whose command was cancelled or answered by nothing while
a job behind it retracted it: then either the ledger still says candidate, or the record is
the retraction and every job that waits is cancelled, or can only prepare or retract what is
no longer there, which the runtime refuses (`Doomed`, `StandsOK`, `DoomedStays`). That a
ledger that has come to its end stays there, and who may end it, is the step property
`Settles`. Of a step of the main thread only its views count (`StepKeepsRecords`).

**`ClarificationLoop_proofs`**: `RequestsAreTyped` (`TypeOK`), `NoAnswerIsEverLost`
(`NoAnswerIsLost`), `NothingEverOutlivesItsGoal` (`NothingOutlivesItsGoal`),
`RefusalNeverOpens` (`RefusalOpensNothing`), `RefusedQuestionsStayRefused`
(`RefusedStaysRefused`), `PromisesAreKept` (`PromiseKept`), `IntakesAreDecided`
(`IntakeIsDecided`), for every set of open facts and any number of waiting candidates.
A candidate that can still be committed is the request of now, revised by one answer
(`Fresh`, `CommitRevises`), to the question of the plan for the request of now
(`Planned`; `PassportIsOfTheRequest`); what an answer invalidates is exactly what the
registry declares to depend on it (`InvalidatesDependents`, `DependentsAreInvalidated`).
A refused question is not asked for, so only an invalidation can open it again; the order
of a pair may become not applicable meanwhile, but then its dependence has been confirmed
and is not asked for either (`OrderHangsOnDependence`, `RefusedUntilInvalidated`).

The planner's promise is the deepest of these. The plan takes the worst of a few answers
to each question, and the search goes on from those only. So the proof says when the
search cannot tell two requests apart: `Alike` requests exclude the same methods, and of
what the others read the same is settled, refused and depended upon; this survives an
answer (`AlikeAfterAnswer`), so that `Search` finds the same of both for each budget
(`SearchIsDiscreet`). And whatever the user answers, if it invalidates nothing, makes the
request like one that was projected (`AnswerIsProjected`): a list of variables like any
other list, "no repeated measure" (not applicable) like an empty one, "independent" like
itself although the order of the pair goes with it. The invariant `DueIsKept` follows.
The search is a function of the budget, at most three, and is unfolded (`SearchIs`); its
minimum exists because numbers are well-founded (`LeastNat`).

The handoff: `RecommendationsArePrepared` (`RecommendationIsPrepared`). Its hypothesis is
about the request a session began with: it is one of the intake but for the study. The
invariant `GrownInv` says what answers make of it: as no other method fits and all else is
settled, they are about the study, so that no answer sorts the roles (`RolesAreTheRows`),
and each study fact is as the request came, or as it was answered. A stable method then
leaves each of them only the value that its row asks for (`StudyIsSettled`): a pair's
order is the one of its measurements because `PassportOf` abstains on a contradiction.
The six rows and profiles are compared field by field (`IntakesFitRows`).

Every invariant and every action property of the passing runs is stated by one of these
theorems. Checked by TLC only: the liveness properties (`EngineResultIsReported`,
`CommandsEnd`: TLAPS has no ENABLED, and its rules for fairness are not
available), and the runs that refute a sentence of the documentation, which are single
counterexamples.

## 5. Not modelled, and why

* **Statistics** (`steps/*`, `*_numerics.py`, `*_results.py`, `*_reporting.py`,
  `statistics.py`): floating-point computations of one table, without state; tests
  with reference values say more. `Pipeline` sees a step by what it reads and writes.
* **Recommendations** (`recommendations.py`, `*_recommendation.py`,
  `recommendation_*.py`): scores of one dataset's columns. A score is a formula in
  the code and would be the same formula in a module.
* **Import and tables** (`table_io.py`, `ui/importing.py`, `value_tokens.py`):
  heuristics about characters and headers of a file, that is, about data a model
  would abstract. What matters to the rest, a file that is gone, changed or
  replaced, is in `Pipeline` and `ResearchFlow`.
* **Contracts, encodings and fingerprints** (`research_os/contracts.py`,
  `research_memory/canonical.py`, `ledger_contracts.py` beyond the commit's checks,
  `research_flow/contracts.py`, `fingerprint.py`): validation of one immutable value
  and injective encodings; the models take equal digests for equal values.
* **Quarantine** (`research_memory/quarantine.py`, and `from_bytes` of a bundle): a
  function of the bytes of a foreign bundle and the local fingerprint; nothing calls
  it in the application. The export and what an import appends are in `DecisionLedger`.
* **Presentation, settings, knowledge, packaging, benchmarks and smoke tests**
  (`ui/qml/*`, presenters, strings, `knowledge/*`, `scripts/*`, `installer/*`): no
  protocol of their own.
* Files that something else changes (apart from the data file), signatures and
  tampering: verification is modelled where the program itself can make it fail.
* Of the modelled parts: the wording of a view, sample-size and meaning checks of the
  preparation, the planner's exits on a registry that is not P1's, its budget of
  250,000 evaluated states, and `transition.py`'s digests.

`PROJECT.json`, `components`, lists every part with its sources.

## 6. Plan

Left: quarantine and the verification of a foreign bundle, composed with
`DecisionLedger`'s export: what one ledger exports another one accepts.
