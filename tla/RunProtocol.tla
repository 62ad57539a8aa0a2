----------------------------- MODULE RunProtocol -----------------------------
(***************************************************************************)
(* The controller's run protocol: how an engine run is submitted to the    *)
(* single-threaded engine worker, how its result comes back to the Qt main *)
(* thread, and when it may replace the results on screen.                  *)
(*                                                                         *)
(*   src/src/modori/ui/controller.py      UiController (Qt main thread)    *)
(*   src/src/modori/ui/run_tracker.py     UiRunTracker                     *)
(*   src/src/modori/ui/pipeline_state.py  UiPipelineState                  *)
(*   src/src/modori/ui/worker.py          SerializedEngineWorker           *)
(*   src/src/modori/ui/result_state.py    UiResultState                    *)
(*                                                                         *)
(* Two threads.  The main thread runs one command at a time; a command     *)
(* that the worker thread can observe half-way is split where the worker   *)
(* can (rerun, and a step edit, which changes the live Pipeline before it  *)
(* knows whether the edit stands).  The worker runs the queued jobs in     *)
(* order, reading the LIVE pipeline, not a copy.                           *)
(*                                                                         *)
(* Data: what a run computes is abstracted to the set of pipeline contents *)
(* it read.  A content is the open file, the number of edits committed to  *)
(* it and whether an edit was in progress.                                 *)
(***************************************************************************)
EXTENDS Integers, Sequences

CONSTANTS
  MaxRuns,      \* bound on latestRun: how often rerun is accepted
  MaxVersion    \* bound on version: how many edits and opened files commit

ASSUME BoundsAssumption == MaxRuns \in Nat /\ MaxVersion \in Nat

VARIABLES
  version,      \* UiPipelineState.pipeline_version
  status,       \* UiPipelineState.status
  stale,        \* UiPipelineState.stale
  latestRun,    \* UiRunTracker._latest_run_id
  lastFuture,   \* result of UiRunTracker._last_future: {} until it is done
  shown,        \* contents the displayed results were computed from, {} for none
  selection,    \* UiSessionState: how the analysis was selected and whether it stands
  ui,           \* where the main thread is inside a command
  file,         \* which opened file the live Pipeline object belongs to
  commit,       \* edits committed to the live Pipeline object's steps
  tentative,    \* an edit has changed the live steps and may still be rolled back
  dataCommit,   \* the last commit that changed data or its metadata
  confirmedAt,  \* the commit at which the assisted selection was last confirmed
  jobs,         \* the executor's queue; the head is the job the worker runs
  events        \* results posted to the main thread's event queue

pipeline == <<file, commit, tentative>>
panel == <<status, stale, shown>>
vars == <<version, panel, latestRun, lastFuture, selection, ui, pipeline,
          dataCommit, confirmedAt, jobs, events>>

Contents == [file : Nat, commit : Nat, tentative : BOOLEAN]
Results  == [run : Nat, version : Nat, outcome : {"ok", "invalid", "failed"},
             seen : SUBSET Contents]
Jobs     == [run : Nat, version : Nat, file : Nat, seen : SUBSET Contents,
             callback : BOOLEAN]

\* Mutant: the status goes back to what it was called in an older contract.
MutReadyIsIdle == IF status = "empty" THEN "empty" ELSE "idle"

\* The status a command that only reports an error leaves behind.
ReadyUnlessEmpty == IF status = "empty" THEN "empty" ELSE "ready"

ManualSelection   == [origin |-> "manual", mustConfirm |-> FALSE]
AssistedSelection == [origin |-> "assisted", mustConfirm |-> FALSE]

\* The content a job bound to file f reads now.  A Pipeline object that is no
\* longer the live one does not change any more.
ContentOf(f) ==
  IF f = file THEN [file |-> f, commit |-> commit, tentative |-> tentative]
              ELSE [file |-> f, commit |-> 0, tentative |-> FALSE]

\* What a job that is running on the live pipeline sees of a change to it: a
\* mixture of what it read before and what is there now.
Observe(f, content) ==
  IF jobs # <<>> /\ Head(jobs).seen # {} /\ Head(jobs).file = f
    THEN [jobs EXCEPT ![1].seen = @ \union {content}]
    ELSE jobs

\* Mutant: the version is not compared.
MutAcceptsAnyVersion(r) == r.run = latestRun

Accepts(r) == r.run = latestRun /\ r.version = version

------------------------------------------------------------------------------
\* apply_worker_result, on the main thread.
ApplyResult(r) ==
  IF ~Accepts(r) THEN UNCHANGED panel
  ELSE CASE r.outcome = "failed"  -> /\ status' = "error"
                                     /\ stale' = TRUE
                                     /\ UNCHANGED shown
         [] r.outcome = "invalid" -> /\ status' = "error"
                                     /\ stale' = TRUE
                                     /\ shown' = {}
         [] r.outcome = "ok"      -> /\ status' = "ready"
                                     /\ stale' = FALSE
                                     /\ shown' = r.seen

------------------------------------------------------------------------------
(* The initial state: the application starts without a pipeline.           *)
Init ==
  /\ version = 0
  /\ status = "empty"
  /\ stale = FALSE
  /\ latestRun = 0
  /\ lastFuture = {}
  /\ shown = {}
  /\ selection = ManualSelection
  /\ ui = "idle"
  /\ file = 0
  /\ commit = 0
  /\ tentative = FALSE
  /\ dataCommit = 0
  /\ confirmedAt = 0
  /\ jobs = <<>>
  /\ events = <<>>

------------------------------------------------------------------------------
(* The main thread: opening a file.                                        *)

\* Mutant: the old file's results stay.
MutOpenKeepsResults ==
  /\ ui = "idle"
  /\ version < MaxVersion
  /\ version' = version + 1
  /\ status' = "ready"
  /\ stale' = TRUE
  /\ selection' = ManualSelection
  /\ file' = file + 1
  /\ commit' = 0
  /\ dataCommit' = 0
  /\ confirmedAt' = 0
  /\ UNCHANGED <<shown, latestRun, lastFuture, ui, tentative, jobs, events>>

\* openDataFile with a file that loads: a new Pipeline object, results cleared.
OpenDataFile ==
  /\ ui = "idle"
  /\ version < MaxVersion
  /\ version' = version + 1
  /\ status' = "ready"
  /\ stale' = TRUE
  /\ shown' = {}
  /\ selection' = ManualSelection
  /\ file' = file + 1
  /\ commit' = 0
  /\ dataCommit' = 0
  /\ confirmedAt' = 0
  /\ UNCHANGED <<latestRun, lastFuture, ui, tentative, jobs, events>>

\* Any command that ends in _command_error, or in the same three lines: a file
\* that does not load, a rejected patch, a report that cannot be written.
CommandError ==
  /\ ui = "idle"
  /\ status' = ReadyUnlessEmpty
  /\ UNCHANGED <<version, stale, shown, latestRun, lastFuture, selection, ui,
                 pipeline, dataCommit, confirmedAt, jobs, events>>

------------------------------------------------------------------------------
(* The main thread: editing the live pipeline while the worker may read it. *)

\* The editors change the live Pipeline in place (steps and params) and
\* recompute it on the main thread before they know that the edit stands.
EditBegin ==
  /\ ui = "idle"
  /\ file > 0
  /\ version < MaxVersion
  /\ ui' = "editing"
  /\ tentative' = TRUE
  /\ jobs' = Observe(file, [file |-> file, commit |-> commit, tentative |-> TRUE])
  /\ UNCHANGED <<version, panel, latestRun, lastFuture, selection, file, commit,
                 dataCommit, confirmedAt, events>>

\* The edit raised and the pipeline was rolled back: no new version.  An editor
\* reports the failure, updateStep lets the exception through.
EditFail ==
  /\ ui = "editing"
  /\ ui' = "idle"
  /\ tentative' = FALSE
  /\ status' \in {status, ReadyUnlessEmpty}
  /\ jobs' = Observe(file, [file |-> file, commit |-> commit, tentative |-> FALSE])
  /\ UNCHANGED <<version, stale, shown, latestRun, lastFuture, selection, file,
                 commit, dataCommit, confirmedAt, events>>

\* mark_step_changed after an edit that stands.
MarkStepChanged ==
  /\ version' = version + 1
  /\ stale' = TRUE
  /\ status' = "ready"

EditCommitted ==
  /\ ui = "editing"
  /\ ui' = "idle"
  /\ tentative' = FALSE
  /\ commit' = commit + 1
  /\ MarkStepChanged
  /\ jobs' = Observe(file, [file |-> file, commit |-> commit', tentative |-> FALSE])

\* Mutant: a data edit leaves the selection confirmed.
MutEditDataKeepsConfirmation ==
  /\ EditCommitted
  /\ dataCommit' = commit'
  /\ UNCHANGED <<shown, latestRun, lastFuture, selection, file, confirmedAt, events>>

\* A transform, a metadata change or a cell edit: the data of an assisted
\* selection is no longer the data that was confirmed.
EditData ==
  /\ EditCommitted
  /\ dataCommit' = commit'
  /\ selection' = [selection EXCEPT !.mustConfirm = @ \/ selection.origin # "manual"]
  /\ UNCHANGED <<shown, latestRun, lastFuture, file, confirmedAt, events>>

\* The user configures the analysis directly: the selection is manual again.
EditAnalysis ==
  /\ EditCommitted
  /\ selection' = ManualSelection
  /\ UNCHANGED <<shown, latestRun, lastFuture, file, dataCommit, confirmedAt, events>>

\* A report patch touches neither the data nor the selection.
EditReport ==
  /\ EditCommitted
  /\ UNCHANGED <<shown, latestRun, lastFuture, selection, file, dataCommit,
                 confirmedAt, events>>

\* A reviewed Research OS preparation is confirmed into the pipeline.
CommitResearchPreparation ==
  /\ EditCommitted
  /\ shown' = {}
  /\ selection' = AssistedSelection
  /\ confirmedAt' = commit'
  /\ UNCHANGED <<latestRun, lastFuture, file, dataCommit, events>>

\* markCurrentSelectionExperimental: the user (re)confirms a guided selection, or
\* takes it over as a manual one.
MarkCurrentSelection ==
  /\ ui = "idle"
  /\ file > 0
  /\ \/ selection' = AssistedSelection /\ confirmedAt' = commit
     \/ selection' = ManualSelection /\ UNCHANGED confirmedAt
  /\ UNCHANGED <<version, panel, latestRun, lastFuture, ui, pipeline, dataCommit,
                 jobs, events>>

------------------------------------------------------------------------------
(* The main thread: rerun, split where the worker thread can overtake it.  *)

\* rerun up to the executor's submit: the worker can start at once.
RerunSubmit ==
  /\ ui = "idle"
  /\ file > 0
  /\ ~selection.mustConfirm
  /\ latestRun < MaxRuns
  /\ latestRun' = latestRun + 1
  /\ lastFuture' = {}
  /\ jobs' = Append(jobs, [run |-> latestRun', version |-> version, file |-> file,
                           seen |-> {}, callback |-> FALSE])
  /\ ui' = "submitted"
  /\ UNCHANGED <<version, panel, selection, pipeline, dataCommit, confirmedAt, events>>

\* Mutant: a future that is done before the callback is added calls nobody.
MutCallbackTooLate ==
  /\ ui = "submitted"
  /\ ui' = "registered"
  /\ jobs' = IF lastFuture = {} THEN [jobs EXCEPT ![Len(jobs)].callback = TRUE] ELSE jobs
  /\ UNCHANGED <<version, panel, latestRun, lastFuture, selection, pipeline,
                 dataCommit, confirmedAt, events>>

\* add_done_callback: a future that is already done calls back here and now, on
\* the main thread, and the signal's direct connection applies the result.
RerunAddCallback ==
  /\ ui = "submitted"
  /\ ui' = "registered"
  /\ \/ /\ lastFuture = {}
        /\ jobs' = [jobs EXCEPT ![Len(jobs)].callback = TRUE]
        /\ UNCHANGED panel
     \/ \E r \in lastFuture : ApplyResult(r) /\ UNCHANGED jobs
  /\ UNCHANGED <<version, latestRun, lastFuture, selection, pipeline, dataCommit, confirmedAt,
                 events>>

\* rerun's last step: mark_running, whatever has happened in between.
RerunMarkRunning ==
  /\ ui = "registered"
  /\ ui' = "idle"
  /\ status' = "running"
  /\ UNCHANGED <<version, stale, shown, latestRun, lastFuture, selection, pipeline,
                 dataCommit, confirmedAt, jobs, events>>

------------------------------------------------------------------------------
(* Results on the main thread.                                             *)

\* The event loop delivers a result that the worker thread posted.
DeliverResult ==
  /\ ui = "idle"
  /\ events # <<>>
  /\ ApplyResult(Head(events))
  /\ events' = Tail(events)
  /\ UNCHANGED <<version, latestRun, lastFuture, selection, ui, pipeline,
                 dataCommit, confirmedAt, jobs>>

\* waitForLastRun: blocks on the last future and applies its result, which the
\* event loop will deliver a second time.
WaitForLastRun ==
  /\ ui = "idle"
  /\ \E r \in lastFuture : ApplyResult(r)
  /\ UNCHANGED <<version, latestRun, lastFuture, selection, ui, pipeline,
                 dataCommit, confirmedAt, jobs, events>>

------------------------------------------------------------------------------
(* The worker thread.                                                      *)

WorkerStart ==
  /\ jobs # <<>>
  /\ Head(jobs).seen = {}
  /\ jobs' = [jobs EXCEPT ![1].seen = {ContentOf(Head(jobs).file)}]
  /\ UNCHANGED <<version, panel, latestRun, lastFuture, selection, ui, pipeline,
                 dataCommit, confirmedAt, events>>

\* The job returns or raises; its future is set and its callback, if it has been
\* added by now, posts the result from the worker thread.
WorkerFinish ==
  /\ jobs # <<>>
  /\ Head(jobs).seen # {}
  /\ \E o \in {"ok", "invalid", "failed"} :
       LET r == [run |-> Head(jobs).run, version |-> Head(jobs).version,
                 outcome |-> o, seen |-> Head(jobs).seen]
       IN  /\ lastFuture' = IF r.run = latestRun THEN {r} ELSE lastFuture
           /\ events' = IF Head(jobs).callback THEN Append(events, r) ELSE events
  /\ jobs' = Tail(jobs)
  /\ UNCHANGED <<version, panel, latestRun, selection, ui, pipeline, dataCommit, confirmedAt>>

------------------------------------------------------------------------------
Next ==
  \/ OpenDataFile \/ CommandError
  \/ EditBegin \/ EditFail \/ EditData \/ EditAnalysis \/ EditReport
  \/ CommitResearchPreparation \/ MarkCurrentSelection
  \/ RerunSubmit \/ RerunAddCallback \/ RerunMarkRunning
  \/ DeliverResult \/ WaitForLastRun
  \/ WorkerStart \/ WorkerFinish

Spec == Init /\ [][Next]_vars

\* The worker thread keeps going and a command that has begun ends; the event loop
\* takes posted events in order, so that no stream of user commands keeps a
\* posted result waiting for ever (strong fairness: a command in progress
\* disables the delivery).  The user owes nothing.
FairSpec ==
  /\ Spec
  /\ WF_vars(WorkerStart) /\ WF_vars(WorkerFinish)
  /\ SF_vars(DeliverResult)
  /\ WF_vars(RerunAddCallback) /\ WF_vars(RerunMarkRunning)
  /\ WF_vars(EditFail \/ EditData \/ EditAnalysis \/ EditReport
             \/ CommitResearchPreparation)

------------------------------------------------------------------------------
(* Properties.                                                             *)

TypeOK ==
  /\ version \in Nat
  /\ status \in {"empty", "ready", "running", "error"}
  /\ stale \in BOOLEAN
  /\ latestRun \in Nat
  /\ lastFuture \in SUBSET Results
  /\ shown \in SUBSET Contents
  /\ selection \in [origin : {"manual", "assisted"}, mustConfirm : BOOLEAN]
  /\ ui \in {"idle", "editing", "submitted", "registered"}
  /\ file \in Nat /\ commit \in Nat /\ tentative \in BOOLEAN
  /\ dataCommit \in Nat /\ confirmedAt \in Nat
  /\ jobs \in Seq(Jobs)
  /\ events \in Seq(Results)

\* Results that are not marked stale were computed from the open file after the
\* last committed edit and before any later one, however long the job waited in
\* the queue and however its result travelled (accepts, mark_step_changed).
FreshResultsAreCurrent ==
  ~stale => \A c \in shown : c.file = file /\ c.commit = commit

\* Stale or not, no result computed from one data file is on screen once another
\* file is open (openDataFile clears, apply_worker_result refuses late results).
NoResultsOfAnotherFile == \A c \in shown : c.file = file

\* A run starts only from a selection that the user made by hand, or confirmed
\* after the last change of the data it was recommended for (rerun's guard, and
\* every edit's treatment of the selection).
RunsUseConfirmedSelections ==
  [][latestRun' # latestRun =>
       selection.origin = "manual" \/ confirmedAt >= dataCommit]_vars

\* What the panel says of the data once it has taken the result f.
Displayed(f) ==
  CASE f.outcome = "ok"      -> ~stale /\ shown = f.seen
    [] f.outcome = "invalid" -> stale /\ shown = {}
    [] f.outcome = "failed"  -> stale

\* A run is still at work; its answer is void once a newer run or version is there.
Queued     == {jobs[i] : i \in 1..Len(jobs)}
Void(r)    == \/ latestRun # r
              \/ \E j \in Queued \union lastFuture : j.run = r /\ j.version # version
Working(r) == ~Void(r) /\ \E j \in Queued : j.run = r

\* The results on screen, their mark and their absence come to agree with the outcome of
\* the run that was submitted last and keep agreeing, unless a newer run or version makes
\* it void: a callback added too late or an answer delivered twice does not lose it.  A
\* failure is also shown as an error if the run is at work when rerun has returned: by
\* then an error of an earlier run is gone from the status, so that it is this run's.  (Of
\* a run that is answered while rerun runs the error may be lost: FailureIsShown.)
EngineResultIsReported ==
  \A r \in 1..MaxRuns :
    /\ Working(r) ~> [](Void(r) \/ \E f \in lastFuture : f.run = r /\ Displayed(f))
    /\ Working(r) /\ ui \notin {"submitted", "registered"} ~>
         \/ Void(r)
         \/ \E f \in lastFuture : /\ f.run = r /\ Displayed(f)
                                  /\ f.outcome # "ok" => status = "error"

\* docs/specs/04-ui-shell.md:69, "once recompute fails, stale results must be
\* visually marked and the error shown": after the answer of the latest run has
\* come in as a failure, the panel does not go on saying that it is computing.
FailureIsShown ==
  \A r \in lastFuture :
    (/\ ui = "idle" /\ Accepts(r) /\ r.outcome = "failed"
     /\ \A i \in 1..Len(events) : events[i].run # r.run) => status # "running"

==============================================================================
