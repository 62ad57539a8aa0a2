---------------------------- MODULE ResearchFlow ----------------------------
(***************************************************************************)
(* The Research OS flow of one window: the controller on the Qt main       *)
(* thread, the runtime whose jobs the engine worker executes one after     *)
(* another, and the editor that confirms a prepared analysis.              *)
(*                                                                         *)
(*   src/src/modori/ui/research_flow_controller.py  ResearchFlowController *)
(*                                                  ResearchFlowRuntime    *)
(*   src/src/modori/ui/research_preparation_editor.py                      *)
(*                                               ResearchPreparationEditor *)
(*   src/src/modori/ui/worker.py                    SerializedEngineWorker *)
(*                                                                         *)
(* A command of the main thread is one step, except an edit, which changes *)
(* the data before it commits the version and emits stateChanged (both     *)
(* seen by the worker).  A job of the worker is several: the data is       *)
(* captured and identified, the cancellation and the version are looked    *)
(* at, the ledger is written, and the view is made; the result then waits  *)
(* in the event queue of the main thread.                                  *)
(*                                                                         *)
(* Data: a dataset is its fingerprint, a decision the number of its        *)
(* passport, and the ledger of a task what it says last (how it comes to   *)
(* say that, and other windows, are the module ResearchTasks).  Wording,   *)
(* language and the roles themselves are left out.                         *)
(***************************************************************************)
EXTENDS Naturals, Sequences, SequencesExt

CONSTANTS
  Datas,       \* fingerprints of datasets
  Blocked,     \* those in which preflight blocks the recommended step
  Questions,   \* how many clarifications the planner may ask for
  MaxTasks,    \* bound on the research tasks
  MaxRun,      \* bound on the jobs submitted
  MaxVersion,  \* bound on the pipeline version
  MaxChanges   \* bound on the changes of the data file that a rerun reads

NoData == "no data"

ASSUME ResearchFlowAssumption ==
  /\ NoData \notin Datas /\ Blocked \subseteq Datas
  /\ {Questions, MaxRun, MaxChanges} \subseteq Nat
  /\ {MaxTasks, MaxVersion} \subseteq Nat \ {0}

VARIABLES
  view,       \* the controller's _views
  previous,   \* _previous_views
  busy,       \* _busy
  run,        \* _run_id
  active,     \* _active_pipeline_version
  event,      \* _cancel_event: the run it was made for, 0 for none
  intake,     \* the parts of the intake that are held: "profile", "roles"
  review,     \* a _preparation_review, of the decision the view shows, is held
  cancelled,  \* runs whose cancel event is set
  queue,      \* the worker's jobs; the head is being executed
  posted,     \* results in the main thread's event queue
  rt,         \* the runtime's _identity, _snapshot, _handle, _record and cache
  data,       \* the current dataset of the pipeline
  version,    \* the pipeline version
  editing,    \* the dataset to restore, while an edit is between change and commit
  changes,    \* how often a rerun has read a changed file
  tasks,      \* the research tasks on disk
  torn,       \* history: tasks that a failed job has written to, until they are read again
  answered,   \* history: the decision an answer was given to and the one it went to
  applied     \* history: the dataset of a confirmed preparation and the current one

controller == <<view, previous, busy, run, active, event, intake, review, cancelled>>
pipeline   == <<data, version, editing, changes>>
history    == <<torn, answered, applied>>
vars == <<controller, queue, posted, rt, pipeline, tasks, history>>

------------------------------------------------------------------------------
NoIdentity == [version |-> 0, data |-> NoData]
NoDecision == <<0, 0>>
NoRecord   == [of |-> NoDecision, kind |-> "none"]

Decisions == {"clarify", "candidate", "abstain"}
Durable   == {"clarify_ready", "candidate_ready", "preparation_blocked",
              "abstain_ready", "recovery_pending", "retracted"}
Reviews   == {"variable_meaning_review", "prepare_review"}
Static    == {"causal_scope_notice", "intake_blocked", "scope_boundary"}
Failures  == {"failure", "corruption"}   \* memory_unavailable offers what failure does
Waiting   == {"fingerprinting", "meaning_reviewing", "committing", "handoff_preflight"}
States    == Durable \union Reviews \union Static \union Failures \union Waiting
               \union {"idle", "intake_causal", "intake_profile", "intake_roles",
                       "replan_required", "cancelled", "confirmed"}

Transient(state) == [state |-> state, of |-> NoDecision, version |-> 0]

\* What the ledger of a task says, as the coordinator recovers it.
Record(t) == [of |-> <<t, tasks[t].n>>, kind |-> tasks[t].kind]
\* Mutant: only the task at hand is found.
MutActiveFor(d) == {t \in {rt.handle} \ {0} : tasks[t].data = d /\ tasks[t].active}
ActiveFor(d) == {t \in DOMAIN tasks : tasks[t].data = d /\ tasks[t].active}

\* What the planner may say to a request of which so much has been answered.
Plans(asked) == {"candidate", "abstain"} \union {k \in {"clarify"} : asked < Questions}

Init ==
  /\ view = Transient("idle") /\ previous = view
  /\ busy = FALSE /\ run = 0 /\ active = 1 /\ event = 0
  /\ intake = {} /\ review = FALSE /\ cancelled = {}
  /\ queue = <<>> /\ posted = <<>>
  /\ rt = [identity |-> NoIdentity, seen |-> NoData, handle |-> 0,
           record |-> NoRecord, cache |-> NoIdentity]
  /\ data \in Datas /\ version = 1 /\ editing = {} /\ changes = 0
  \* What earlier sessions have left: no task, or one.
  /\ \/ tasks = <<>>
     \/ \E d \in Datas, kind \in Plans(0) \union {"retracted"} :
          tasks = <<[data |-> d, active |-> TRUE, kind |-> kind, n |-> 1, asked |-> 0]>>
     \/ \E d \in Datas :
          tasks = <<[data |-> d, active |-> TRUE, kind |-> "pending", n |-> 0, asked |-> 0]>>
  /\ torn = {} /\ answered = {} /\ applied = {}

------------------------------------------------------------------------------
(* The main thread: commands.                                              *)
MainFree == editing = {}

BusyState(op) ==
  CASE op = "review"  -> "meaning_reviewing"
    [] op = "prepare" -> "handoff_preflight"
    [] op \in {"start", "replan"} \/ (op = "resume" /\ view.state # "recovery_pending")
                      -> "fingerprinting"
    [] OTHER          -> "committing"

\* _submit_runtime, of a command given in the view "from".
Submit(op, from) ==
  /\ MainFree /\ ~busy /\ run < MaxRun
  /\ run' = run + 1
  /\ active' = version
  /\ event' = run'
  /\ previous' = from
  /\ busy' = TRUE
  /\ view' = Transient(BusyState(op))
  /\ queue' = Append(queue, [run |-> run', version |-> version, op |-> op, of |-> from.of,
                             pc |-> "queued", data |-> NoData, seen |-> NoData])
  /\ UNCHANGED <<cancelled, posted, rt, pipeline, tasks, history>>

Command(op, states) ==
  /\ view.state \in states
  /\ Submit(op, view)
  /\ UNCHANGED <<intake, review>>

Start         == Command("start", {"idle", "cancelled", "failure"})
Resume        == Command("resume", {"recovery_pending", "failure", "cancelled"})
RecordCausalBoundary == Command("causal", {"causal_scope_notice"})
Answer        == Command("answer", {"clarify_ready"})
Replan        == Command("replan", {"replan_required", "retracted", "abstain_ready"})
Prepare       == Command("prepare", {"candidate_ready"})

SubmitRoles ==
  /\ view.state = "intake_roles" /\ "profile" \in intake
  /\ Submit("review", view)
  /\ intake' = intake \union {"roles"}
  /\ UNCHANGED review

ConfirmVariableMeanings ==
  /\ {"profile", "roles"} \subseteq intake
  /\ Command("initial", {"variable_meaning_review"})

\* The commands that only move between the screens of the intake, and back.
Turn(from, to, held) ==
  /\ MainFree /\ ~busy
  /\ view.state = from
  /\ view' = Transient(to)
  /\ intake' = held
  /\ UNCHANGED <<previous, busy, run, active, event, review, cancelled,
                 queue, posted, rt, pipeline, tasks, history>>

IntakeStep ==
  \/ \E to \in {"intake_profile", "causal_scope_notice", "intake_blocked"} :
       Turn("intake_causal", to, intake)
  \/ Turn("intake_profile", "intake_roles", intake \union {"profile"})
  \/ Turn("intake_profile", "scope_boundary", intake)
  \/ \E from \in {"causal_scope_notice", "intake_blocked"} :
       Turn(from, "intake_causal", intake)
  \/ Turn("scope_boundary", "intake_profile", intake)
  \/ Turn("variable_meaning_review", "intake_roles", intake \ {"roles"})

------------------------------------------------------------------------------
(* The main thread: leaving what was begun.                                *)

\* The run goes on in the worker, and its result is still the one of the current run.
Cancel ==
  /\ MainFree /\ busy /\ event # 0
  /\ cancelled' = cancelled \union {event}
  /\ busy' = FALSE
  /\ intake' = intake \ {"roles"}
  /\ view' = IF previous.state \in Durable THEN previous ELSE Transient("cancelled")
  /\ UNCHANGED <<previous, run, active, event, review, queue, posted, rt, pipeline,
                 tasks, history>>

\* Mutant: a confirmed preparation is taken for a pending one.
MutDiscarded ==
  IF review /\ previous.state = "candidate_ready" THEN previous ELSE view

\* _discard_pending_confirmation: the candidate is shown again.
Discarded ==
  IF review /\ view.state = "prepare_review" /\ previous.state = "candidate_ready"
    THEN previous ELSE view
Kept == review /\ view.state # "prepare_review"

Retract ==
  /\ Discarded.state \in {"clarify_ready", "candidate_ready", "preparation_blocked",
                          "abstain_ready"}
  /\ Submit("retract", Discarded)
  /\ review' = Kept
  /\ UNCHANGED intake

\* syncMode, adoptMode
AdoptMode ==
  /\ MainFree
  /\ view' = Discarded
  /\ review' = Kept
  /\ UNCHANGED <<previous, busy, run, active, event, intake, cancelled, queue, posted,
                 rt, pipeline, tasks, history>>

------------------------------------------------------------------------------
(* What a record looks like.                                               *)
StateOf(kind, d) ==
  CASE kind = "pending"   -> "recovery_pending"
    [] kind = "clarify"   -> "clarify_ready"
    [] kind = "abstain"   -> "abstain_ready"
    [] kind = "retracted" -> "retracted"
    [] kind = "candidate" -> IF d \in Blocked THEN "preparation_blocked"
                             ELSE "candidate_ready"

\* _record_views: a record of other data, or whose preflight finds another version, is
\* not shown.
RecordView(r, identity, seen, v) ==
  IF tasks[r.of[1]].data # identity.data \/ (r.kind = "candidate" /\ version # v)
    THEN Transient("replan_required")
    ELSE [state |-> StateOf(r.kind, seen), of |-> r.of, version |-> v]

\* adoptLanguage makes the view of a decision anew, from what the runtime holds now.
AdoptLanguage ==
  /\ MainFree
  /\ view.state \in Durable
  /\ rt.record # NoRecord
  /\ rt.identity.version = version
  /\ view' = RecordView(rt.record, rt.identity, rt.seen, version)
  /\ UNCHANGED <<previous, busy, run, active, event, intake, review, cancelled, queue,
                 posted, rt, pipeline, tasks, history>>

------------------------------------------------------------------------------
(* The worker: ResearchFlowRuntime.                                        *)
Job == Head(queue)
At(pc) == queue # <<>> /\ Job.pc = pc
Goto(job) == queue' = <<job>> \o Tail(queue) /\ UNCHANGED posted
Post(v) ==
  /\ queue' = Tail(queue)
  /\ posted' = Append(posted, [run |-> Job.run, version |-> Job.version, view |-> v])

WorkerOnly == UNCHANGED <<controller, pipeline, applied>>

\* resume of what is not pending starts again.
Starts == Job.op = "start" \/ (Job.op = "resume" /\ rt.record.kind # "pending")
\* The jobs that go through _fresh_context.
Fresh == ~Starts /\ Job.op \notin {"replan", "retract"}

\* What the record at hand does not allow.
Refused ==
  \/ Job.op \in {"answer", "retract"} /\ rt.record.kind \notin Decisions
  \/ Job.op = "prepare" /\ rt.record.kind # "candidate"

\* _identity_for
Identity == IF Job.op # "replan" /\ rt.cache.version = Job.version THEN rt.cache
            ELSE [version |-> Job.version, data |-> data]

\* The record is looked at, the dataset captured and identified.
Capture ==
  /\ At("queued") /\ Job.op # "rerun"
  /\ \/ /\ Refused
        /\ Post(Transient("failure"))
        /\ UNCHANGED rt
     \/ /\ ~Refused /\ Job.op = "retract"
        /\ Goto([Job EXCEPT !.pc = "captured"])
        /\ UNCHANGED rt
     \/ /\ ~Refused /\ Fresh /\ rt.identity.version # Job.version
        /\ Post(Transient("replan_required"))
        /\ UNCHANGED rt
     \/ /\ ~Refused /\ Job.op # "retract"
        /\ Fresh => rt.identity.version = Job.version
        /\ Goto([Job EXCEPT !.pc = "captured", !.data = Identity.data, !.seen = data])
        /\ rt' = [rt EXCEPT !.cache = Identity]
  /\ WorkerOnly /\ UNCHANGED <<tasks, torn, answered>>

Stale == /\ Job.op # "retract"
         /\ version # Job.version \/ (Fresh /\ Job.data # rt.identity.data)

\* The cancel event, the version and the identity are looked at once more: not later.
Check ==
  /\ At("captured")
  /\ \/ /\ Job.run \in cancelled
        /\ Post(Transient("cancelled"))
        /\ UNCHANGED rt
     \/ /\ Stale
        /\ Post(Transient("replan_required"))
        /\ UNCHANGED rt
     \/ /\ Job.run \notin cancelled /\ ~Stale
        /\ Goto([Job EXCEPT !.pc = "checked"])
        /\ rt' = [rt EXCEPT !.seen = IF Fresh THEN Job.seen ELSE @]
  /\ WorkerOnly /\ UNCHANGED <<tasks, torn, answered>>

\* Ledgers as the coordinator leaves them.
Says(t, kind, n, asked) ==
  tasks' = [tasks EXCEPT ![t].kind = kind, ![t].n = n, ![t].asked = asked]
NewTask(d) == [data |-> d, active |-> TRUE, kind |-> "empty", n |-> 0, asked |-> 0]

\* Mutant: the record of before is kept, if there is one.
MutDone(t, kind, n) ==
  /\ rt' = [rt EXCEPT !.handle = t,
                      !.record = IF @ = NoRecord THEN [of |-> <<t, n>>, kind |-> kind] ELSE @]
  /\ Goto([Job EXCEPT !.pc = "acted"])
  /\ torn' = torn \ {t}

\* Done: the record is kept and the view is still to be made.
Done(t, kind, n) ==
  /\ rt' = [rt EXCEPT !.handle = t, !.record = [of |-> <<t, n>>, kind |-> kind]]
  /\ Goto([Job EXCEPT !.pc = "acted"])
  /\ torn' = torn \ {t}

\* start: the task of the dataset is located and recovered.
Locate ==
  /\ At("checked") /\ Starts
  /\ LET found  == ActiveFor(Job.data)
         handle == IF found = {} THEN 0 ELSE CHOOSE t \in found : TRUE
         known  == found # {} /\ tasks[handle].kind # "empty"
     IN  /\ rt' = [rt EXCEPT !.identity = [version |-> Job.version, data |-> Job.data],
                             !.seen = Job.seen, !.handle = handle,
                             !.record = IF known THEN Record(handle) ELSE NoRecord]
         /\ torn' = torn \ {handle}
         /\ IF known THEN Goto([Job EXCEPT !.pc = "acted"])
                     ELSE Post(Transient("intake_causal"))
  /\ WorkerOnly /\ UNCHANGED <<tasks, answered>>

\* replan: the task at hand is closed, and an open one of the new dataset or a new one
\* takes its place.
StartReplan ==
  /\ At("checked") /\ Job.op = "replan"
  /\ LET h      == rt.handle
         others == ActiveFor(Job.data) \ {h}
         closed == [tasks EXCEPT ![h].active = FALSE]
         Intake(t) ==
           /\ rt' = [rt EXCEPT !.identity = [version |-> Job.version, data |-> Job.data],
                               !.seen = Job.seen, !.handle = t, !.record = NoRecord]
           /\ Post(Transient("intake_causal"))
     IN  \/ h = 0 /\ Intake(0) /\ UNCHANGED tasks
         \/ \E t \in others : h # 0 /\ Intake(t) /\ tasks' = closed
         \/ /\ h # 0 /\ others = {} /\ tasks[h].active /\ Len(tasks) < MaxTasks
            /\ Intake(Len(tasks) + 1)
            /\ tasks' = Append(closed, NewTask(Job.data))
         \/ /\ h # 0 /\ others = {} /\ ~tasks[h].active
            /\ Post(Transient("corruption"))
            /\ UNCHANGED <<rt, tasks>>
  /\ WorkerOnly /\ UNCHANGED <<torn, answered>>

\* What the first decision of a task may be.
FirstDecisions == IF Job.op = "causal" THEN {"abstain"} ELSE Plans(0)

\* commit_initial, commit_causal_boundary: a new task or the one at hand, if nothing
\* has been asked of it.
CommitInitial ==
  /\ At("checked") /\ Job.op \in {"initial", "causal"}
  /\ LET found == IF rt.handle # 0 THEN {rt.handle} ELSE ActiveFor(Job.data)
         fresh == Len(tasks) + 1
     IN  \/ \E t \in found, kind \in FirstDecisions :
              /\ tasks[t].kind = "empty" /\ tasks[t].active
              /\ Says(t, kind, 1, 0)
              /\ Done(t, kind, 1)
         \/ \E kind \in FirstDecisions :
              /\ found = {} /\ Len(tasks) < MaxTasks
              /\ tasks' = Append(tasks, [NewTask(Job.data) EXCEPT !.kind = kind, !.n = 1])
              /\ Done(fresh, kind, 1)
         \/ \E t \in found :
              /\ tasks[t].kind # "empty" \/ ~tasks[t].active
              /\ rt' = [rt EXCEPT !.handle = t]
              /\ Post(Transient("failure"))
              /\ UNCHANGED <<tasks, torn>>
  /\ WorkerOnly /\ UNCHANGED answered

Current == rt.handle # 0 /\ tasks[rt.handle].active /\ Record(rt.handle) = rt.record
\* The record at hand is the question that the ledger waits for.
Asks == Current /\ rt.record.kind = "clarify"

\* answer: the answer names the question of the record at hand.
CommitAnswer ==
  /\ At("checked") /\ Job.op = "answer" /\ Asks
  /\ \E kind \in Plans(tasks[rt.handle].asked + 1) :
       LET t == rt.handle
           n == tasks[t].n + 1
       IN  /\ Says(t, kind, n, tasks[t].asked + 1)
           /\ Done(t, kind, n)
  /\ answered' = answered \union {[given |-> Job.of, to |-> rt.record.of]}
  /\ WorkerOnly

\* resume_pending
ResumePending ==
  /\ At("checked") /\ Job.op = "resume" /\ rt.record.kind = "pending" /\ Current
  /\ \E kind \in Plans(tasks[rt.handle].asked) :
       LET t == rt.handle
           n == tasks[t].n + 1
       IN  Says(t, kind, n, tasks[t].asked) /\ Done(t, kind, n)
  /\ WorkerOnly /\ UNCHANGED answered

\* retract: whatever the ledger has decided, not what was shown.
RetractCurrent ==
  /\ At("checked") /\ Job.op = "retract"
  /\ LET t == rt.handle
     IN  /\ tasks[t].active /\ tasks[t].kind \in Decisions
         /\ Says(t, "retracted", tasks[t].n, tasks[t].asked)
         /\ Done(t, "retracted", tasks[t].n)
  /\ WorkerOnly /\ UNCHANGED answered

\* The coordinator refuses what does not follow from the ledger.
Conflict ==
  /\ At("checked")
  /\ \/ Job.op = "answer" /\ ~Asks
     \/ Job.op = "resume" /\ rt.record.kind = "pending" /\ ~Current
     \/ /\ Job.op = "retract"
        /\ ~tasks[rt.handle].active \/ tasks[rt.handle].kind \notin Decisions
  /\ Post(Transient("failure"))
  /\ WorkerOnly /\ UNCHANGED <<rt, tasks, torn, answered>>

\* review_variable_meanings and prepare write nothing.
ReviewMeanings ==
  /\ At("checked") /\ Job.op = "review"
  /\ Post([state |-> "variable_meaning_review", of |-> NoDecision, version |-> Job.version])
  /\ WorkerOnly /\ UNCHANGED <<rt, tasks, torn, answered>>

PrepareCandidate ==
  /\ At("checked") /\ Job.op = "prepare"
  /\ Goto([Job EXCEPT !.pc = "acted"])
  /\ WorkerOnly /\ UNCHANGED <<rt, tasks, torn, answered>>

\* The view of the record is made, with a preflight of what is recommended.
Publish ==
  /\ At("acted")
  /\ LET shown == RecordView(rt.record, rt.identity, rt.seen, rt.identity.version)
     IN  Post(IF Job.op = "prepare" /\ shown.state = "candidate_ready"
                THEN [shown EXCEPT !.state = "prepare_review"] ELSE shown)
  /\ WorkerOnly /\ UNCHANGED <<rt, tasks, torn, answered>>

\* What a job that fails may have written to the ledger of t by then.
Unfinished(t, kinds, asked) ==
  \E kind \in {"pending"} \union kinds :
    Says(t, kind, IF kind = "pending" THEN tasks[t].n ELSE tasks[t].n + 1, asked)

FailsAfterWriting ==
  /\ At("checked")
  /\ \/ /\ Job.op = "answer" /\ Asks
        /\ LET asked == tasks[rt.handle].asked + 1 IN Unfinished(rt.handle, Plans(asked), asked)
        /\ answered' = answered \union {[given |-> Job.of, to |-> rt.record.of]}
        /\ UNCHANGED rt
        /\ torn' = torn \union {rt.handle}
     \/ /\ Job.op = "resume" /\ rt.record.kind = "pending" /\ Current
        /\ LET asked == tasks[rt.handle].asked IN Unfinished(rt.handle, Plans(asked), asked)
        /\ torn' = torn \union {rt.handle}
        /\ UNCHANGED <<rt, answered>>
     \/ /\ Job.op = "retract" /\ Current
        /\ Says(rt.handle, "retracted", tasks[rt.handle].n, tasks[rt.handle].asked)
        /\ torn' = torn \union {rt.handle}
        /\ UNCHANGED <<rt, answered>>
     \/ /\ Job.op \in {"initial", "causal"} /\ rt.handle # 0
        /\ tasks[rt.handle].active /\ tasks[rt.handle].kind = "empty"
        /\ Unfinished(rt.handle, FirstDecisions, 0)
        /\ torn' = torn \union {rt.handle}
        /\ UNCHANGED <<rt, answered>>
     \/ /\ Job.op \in {"initial", "causal"} /\ rt.handle = 0 /\ ActiveFor(Job.data) = {}
        /\ Len(tasks) < MaxTasks
        /\ tasks' = Append(tasks, NewTask(Job.data))
        /\ rt' \in {rt, [rt EXCEPT !.handle = Len(tasks) + 1]}
        /\ torn' = torn \union {Len(tasks) + 1}
        /\ UNCHANGED answered

\* A job fails anywhere: the disk, the deadline of the fingerprint, another window.
\* What the runtime remembers of the task stays as it was.
FailJob ==
  /\ queue # <<>> /\ Job.op # "rerun"
  /\ \E state \in Failures : Post(Transient(state))
  /\ UNCHANGED <<rt, tasks, torn, answered>> \/ FailsAfterWriting
  /\ WorkerOnly

\* A rerun of the pipeline reads the data file again; the version stays.
Recompute ==
  /\ queue # <<>> /\ Job.op = "rerun"
  /\ queue' = Tail(queue)
  /\ \E d \in Datas : data' = d
  /\ changes' = changes + 1
  /\ UNCHANGED <<controller, posted, rt, version, editing, tasks, history>>

Worker ==
  \/ Capture \/ Check \/ Locate \/ StartReplan \/ CommitInitial \/ CommitAnswer
  \/ ResumePending \/ RetractCurrent \/ Conflict \/ ReviewMeanings \/ PrepareCandidate
  \/ Publish \/ FailJob \/ Recompute

------------------------------------------------------------------------------
(* The main thread: results, confirmation and edits.                       *)

\* _apply_worker_result
Accepts(r) == r.run = run /\ r.version = version

Deliver ==
  /\ MainFree /\ posted # <<>>
  /\ posted' = Tail(posted)
  /\ LET r     == Head(posted)
         stale == r.view.state = "prepare_review"
                    /\ tasks[r.view.of[1]].data # rt.identity.data
         shown == IF stale THEN Transient("failure") ELSE r.view
     IN  IF ~Accepts(r) THEN UNCHANGED <<view, busy, event, intake, review>>
         ELSE /\ view' = shown
              /\ busy' = FALSE
              /\ event' = 0
              /\ intake' = IF shown.state = "variable_meaning_review" THEN intake ELSE {}
              /\ review' = (shown.state = "prepare_review"
                              \/ (review /\ shown.state = "candidate_ready"))
  /\ UNCHANGED <<previous, run, active, cancelled, queue, rt, pipeline, tasks, history>>

\* Mutant: only a view that waits for the worker is given up.
MutOvertaken == IF busy THEN Transient("replan_required") ELSE view
Overtaken    == IF view.state = "idle" THEN view ELSE Transient("replan_required")

\* Mutant: the controller goes on waiting for the run it has given up.
MutSync(v) ==
  /\ cancelled' = cancelled \union ({event} \ {0})
  /\ run' = run + 1
  /\ active' = v
  /\ rt' = [rt EXCEPT !.cache = IF @.version = v THEN @ ELSE NoIdentity]
  /\ review' = FALSE
  /\ intake' = {}
  /\ view' = Overtaken
  /\ UNCHANGED busy

\* syncPipelineVersion, which every stateChanged of the application calls.
Sync(v) ==
  /\ cancelled' = cancelled \union ({event} \ {0})
  /\ run' = run + 1
  /\ active' = v
  /\ rt' = [rt EXCEPT !.cache = IF @.version = v THEN @ ELSE NoIdentity]
  /\ busy' = FALSE
  /\ review' = FALSE
  /\ intake' = {}
  /\ view' = Overtaken

\* An edit of the pipeline: the dataset, which may stay as it is, before the version.
Edit ==
  /\ MainFree /\ version < MaxVersion
  /\ editing' = {data}
  /\ \E d \in Datas : data' = d
  /\ UNCHANGED <<controller, queue, posted, rt, version, changes, tasks, history>>

CommitEdit ==
  /\ ~MainFree
  /\ editing' = {}
  /\ version' = version + 1
  /\ Sync(version + 1)
  /\ UNCHANGED <<previous, event, queue, posted, data, changes, tasks, history>>

RollBackEdit ==
  /\ ~MainFree
  /\ data' \in editing
  /\ editing' = {}
  /\ UNCHANGED <<controller, queue, posted, rt, version, changes, tasks, history>>

\* confirm, with the editor's own checks and a new preflight of the current dataset:
\* the step is replaced and the version advances, or all of it is taken back.
Confirm ==
  /\ MainFree /\ ~busy /\ review /\ view.state = "prepare_review"
  /\ version < MaxVersion
  /\ LET prepared == tasks[view.of[1]].data
         stale    == view.version # version \/ rt.identity.data # prepared
     IN  \/ /\ ~stale /\ data \notin Blocked
            /\ version' = version + 1
            /\ active' = version'
            /\ rt' = [rt EXCEPT !.cache = NoIdentity]
            /\ view' = [view EXCEPT !.state = "confirmed", !.version = version']
            /\ applied' = applied \union {[prepared |-> prepared, live |-> data]}
            /\ UNCHANGED review
         \/ /\ view' = Transient(IF stale \/ data \in Blocked THEN "replan_required"
                                 ELSE "failure")
            /\ review' = FALSE
            /\ UNCHANGED <<version, active, rt, applied>>
  /\ UNCHANGED <<previous, busy, run, event, intake, cancelled, queue, posted,
                 data, editing, changes, tasks, torn, answered>>

\* rerun of the application: a job on the same worker.
Rerun ==
  /\ MainFree /\ changes < MaxChanges
  /\ \A i \in DOMAIN queue : queue[i].op # "rerun"
  /\ queue' = Append(queue, [run |-> 0, version |-> version, op |-> "rerun",
                             of |-> NoDecision, pc |-> "queued", data |-> NoData,
                             seen |-> NoData])
  /\ UNCHANGED <<controller, posted, rt, pipeline, tasks, history>>

User ==
  \/ Start \/ Resume \/ RecordCausalBoundary \/ Answer \/ Replan \/ Prepare
  \/ SubmitRoles \/ ConfirmVariableMeanings \/ IntakeStep \/ Cancel \/ Retract
  \/ AdoptMode \/ AdoptLanguage \/ Edit \/ Confirm \/ Rerun

Next == Worker \/ Deliver \/ CommitEdit \/ RollBackEdit \/ User

\* The worker goes on with its jobs, and the main thread ends its edits and takes the
\* results from its queue.  Nothing is asked of the user.
Fairness ==
  WF_vars(Worker) /\ SF_vars(Deliver) /\ WF_vars(CommitEdit \/ RollBackEdit)

Spec == Init /\ [][Next]_vars /\ Fairness

------------------------------------------------------------------------------
(* Properties.                                                             *)

Views == [state : States, of : (0..MaxTasks) \X Nat, version : 0..MaxVersion]
Jobs  == [run : Nat, version : 1..MaxVersion,
          op : {"start", "resume", "causal", "answer", "replan", "prepare", "review",
                "initial", "retract", "rerun"},
          of : (0..MaxTasks) \X Nat, pc : {"queued", "captured", "checked", "acted"},
          data : Datas \union {NoData}, seen : Datas \union {NoData}]
Tasks == [data : Datas, active : BOOLEAN, n : Nat, asked : 0..Questions,
          kind : Decisions \union {"empty", "pending", "retracted"}]
Identities == [version : 0..MaxVersion, data : Datas \union {NoData}]

\* Types; a dataset has one open task; and only the head of the queue is being worked on.
TypeOK ==
  /\ {view, previous} \subseteq Views
  /\ busy \in BOOLEAN /\ review \in BOOLEAN
  /\ {run, event} \union cancelled \subseteq Nat /\ active \in 1..MaxVersion
  /\ intake \subseteq {"profile", "roles"}
  /\ queue \in Seq(Jobs) /\ \A i \in 2..Len(queue) : queue[i].pc = "queued"
  /\ posted \in Seq([run : Nat, version : 1..MaxVersion, view : Views])
  /\ rt.identity \in Identities /\ rt.cache \in Identities
  /\ rt.handle \in 0..Len(tasks)
  /\ data \in Datas /\ version \in 1..MaxVersion /\ editing \subseteq Datas
  /\ tasks \in Seq(Tasks)
  /\ \A t, u \in {x \in DOMAIN tasks : tasks[x].active} :
       tasks[t].data = tasks[u].data => t = u

\* The command bar waits only for something: while the controller is busy there is a
\* job or a result of the current run and of the current version, so that no cancelled
\* command, edit or dropped result leaves it busy for ever.
BusyIsAnswered ==
  busy => \E r \in ToSet(queue) \union ToSet(posted) : r.run = run /\ r.version = version

\* docs/superpowers/specs/2026-07-17-live-multi-round-research-os-ui-design.md:650,
\* "Cancellation after a successful commit leaves the last committed state recoverable":
\* once the worker and the results have come to rest, a decision on screen is what its
\* ledger says, however it was cancelled, put back, translated or overtaken before.
ShownIsRecorded ==
  (view.state \in Durable /\ ~busy /\ queue = <<>> /\ posted = <<>>
     /\ view.of[1] \notin torn) =>
     /\ view.of[1] \in DOMAIN tasks
     /\ view.of = Record(view.of[1]).of
     /\ \E d \in Datas : view.state = StateOf(tasks[view.of[1]].kind, d)

\* The same design, line 455: "Drift disables the action and produces replan_required":
\* no decision, no meaning to confirm and no preparation is ever on screen for a
\* pipeline version that is not the current one.
DriftIsShown ==
  view.state \in Durable \union Reviews => view.version = version

\* A preparation can be confirmed only while its decision is the current one of an open
\* task, whatever was cancelled, retracted or replanned around it.
ReviewIsCurrent ==
  (review /\ view.state = "prepare_review" /\ view.of[1] \notin torn) =>
     /\ tasks[view.of[1]].active
     /\ Record(view.of[1]) = [of |-> view.of, kind |-> "candidate"]

\* The same design, line 218: "A mode switch after Confirm preserves the confirmed
\* state [...]; it cannot revive the candidate or authorize a second confirmation".
ConfirmedStays ==
  [][view.state = "confirmed" => view'.state \in {"confirmed", "replan_required"}]_vars

\* Every command is answered, if only by what replaces it.
CommandsEnd == busy ~> ~busy

\* The same design, line 415: "A repeated click, second window, or racing worker either
\* returns the same verified committed passport or fails closed; it never spends the
\* same question budget twice": an answer goes to the question that was on screen.
AnswersGoWhereGiven == \A a \in answered : a.given = a.to

\* The same design, line 454: "Before accepting an answer, preparing a candidate,
\* confirming settings, or running the prepared step, P1 compares the captured pipeline
\* version and full current fingerprint with the request and passport binding".
ConfirmedIsCurrentData == \A a \in applied : a.prepared = a.live

==============================================================================
