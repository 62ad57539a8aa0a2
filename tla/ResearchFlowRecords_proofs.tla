---------------------- MODULE ResearchFlowRecords_proofs ----------------------
(***************************************************************************)
(* Proofs about what the window of ResearchFlow shows of a ledger.         *)
(*                                                                         *)
(* First the order of runs: jobs are submitted, worked on and answered in  *)
(* their order, and all that still wait are cancelled but the one that the *)
(* controller waits for (FInv).  Then the records: what the runtime holds  *)
(* is what the ledger says, and so is what is shown, or it will be         *)
(* replaced (RInv).                                                        *)
(***************************************************************************)
EXTENDS ResearchFlow_proofs

------------------------------------------------------------------------------
(* The order of runs.                                                       *)

\* A job that a cancellation still stops.
Waits(job) == job.pc \in {"queued", "captured"}

\* The reruns of the application have run 0 and no result.
RunsInOrder ==
  /\ \A i \in 1..Len(queue) : queue[i].run <= run
  /\ \A i \in 1..Len(posted) : posted[i].run <= run
  /\ \A i, j \in 1..Len(queue) :
       i < j /\ queue[i].run # 0 /\ queue[j].run # 0 => queue[i].run < queue[j].run
  /\ \A i, j \in 1..Len(posted) : i < j => posted[i].run < posted[j].run
  /\ \A i \in 1..Len(posted), j \in 1..Len(queue) :
       queue[j].run # 0 => posted[i].run < queue[j].run

\* What waits is cancelled, but for the run that the controller waits for.  From a
\* candidate it can only be prepared or retracted.
CancelledOK ==
  /\ busy => event = run /\ view.state \in Waiting
  /\ \A i \in 1..Len(queue) :
       queue[i].run # 0 /\ Waits(queue[i]) =>
         queue[i].run \in cancelled \/ (busy /\ queue[i].run = run)
  /\ busy /\ previous.state = "candidate_ready" =>
       \A i \in 1..Len(queue) : queue[i].run = run => queue[i].op \in {"prepare", "retract"}

\* When the run of what is shown has been answered, nothing of the flow is under way.
OnlyReruns == \A i \in 1..Len(queue) : queue[i].run = 0
QuietOK ==
  /\ view.state \in Shown /\ ~Live => OnlyReruns
  /\ view.state = "prepare_review" => ~Live

FInv == RunsInOrder /\ CancelledOK /\ QuietOK

LEMMA AppendIs ==
  ASSUME NEW S, NEW s \in Seq(S), NEW e
  PROVE  /\ Len(s) \in Nat /\ Len(Append(s, e)) = Len(s) + 1
         /\ \A i \in 1..Len(s) : Append(s, e)[i] = s[i]
         /\ Append(s, e)[Len(s) + 1] = e
<1> DEFINE T == S \union {e}
<1>1. s \in Seq(T)
  BY ElementOfSeq, SeqDef DEF T
<1>2. e \in T
  OBVIOUS
<1> HIDE DEF T
<1> QED
  BY <1>1, <1>2, AppendProperties, LenProperties

\* Runs are numbers.
LEMMA RunNumbers ==
  ASSUME TInv
  PROVE  /\ run \in Nat /\ Len(queue) \in Nat /\ Len(posted) \in Nat
         /\ \A i \in 1..Len(queue) : queue[i].run \in Nat
         /\ \A i \in 1..Len(posted) : posted[i].run \in Nat
<1>1. /\ \A i \in 1..Len(queue) : queue[i] \in Jobs
      /\ \A i \in 1..Len(posted) : posted[i] \in Results
  BY ElementOfSeq DEF TInv, QueueOK, PostedOK
<1>2. Len(queue) \in Nat /\ Len(posted) \in Nat /\ run \in Nat
  BY LenProperties DEF TInv, QueueOK, PostedOK, ControllerOK
<1> QED
  BY <1>1, <1>2 DEF Jobs, Results

\* A step of the worker: the job at the head goes on (off = 0), or leaves the queue, and
\* posts its result if it is one of the flow's.
Follows(off) ==
  /\ Len(queue') = Len(queue) - off
  /\ \A i \in 1..Len(queue') :
       /\ i + off \in 1..Len(queue)
       /\ queue'[i].run = queue[i + off].run /\ queue'[i].op = queue[i + off].op
       /\ queue'[i].version = queue[i + off].version
       /\ Waits(queue'[i]) => Waits(queue[i + off])
Answers ==
  /\ Len(posted') = Len(posted) + 1
  /\ \A i \in 1..Len(posted) : posted'[i] = posted[i]
  /\ posted'[Len(posted) + 1].run = Job.run
  /\ posted'[Len(posted) + 1].version = Job.version
Moves ==
  /\ UNCHANGED <<view, previous, busy, run, event, review, cancelled, version>>
  /\ queue # <<>>
  /\ \/ Follows(0) /\ posted' = posted
     \/ Follows(1) /\ posted' = posted /\ Job.run = 0
     \/ Follows(1) /\ Answers /\ Job.run # 0

LEMMA GoingMoves ==
  ASSUME TInv, queue # <<>>, NEW job \in Jobs, Goto(job), WorkerOnly, Waits(job) => Waits(Job),
         job.run = Job.run, job.op = Job.op, job.version = Job.version
  PROVE  Moves
<1>1. /\ Len(queue') = Len(queue) /\ Len(queue) \in Nat /\ queue'[1] = job /\ Job = queue[1]
      /\ \A i \in 2..Len(queue) : queue'[i] = queue[i]
      /\ posted' = posted
  BY Going, QueueFacts DEF TInv
<1>2. Follows(0)
  BY <1>1 DEF Follows
<1> QED
  BY <1>1, <1>2 DEF Moves, WorkerOnly, controller, pipeline

LEMMA PostingMoves ==
  ASSUME TInv, OInv, queue # <<>>, Job.op # "rerun", NEW v, Post(v), WorkerOnly
  PROVE  Moves
<1>1. /\ Len(queue') = Len(queue) - 1 /\ Len(queue) \in Nat /\ Len(queue) > 0
      /\ Job = queue[1]
      /\ \A i \in 1..Len(queue') : queue'[i] = queue[i + 1]
  BY HeadTailProperties, QueueFacts DEF TInv, QueueOK, Post
<1>2. Follows(1)
  BY <1>1 DEF Follows
<1> DEFINE result == [run |-> Job.run, version |-> Job.version, view |-> v]
<1>3. result.run = Job.run /\ result.version = Job.version /\ posted' = Append(posted, result)
  BY DEF Post
<1> HIDE DEF result
<1>4. Answers
  BY <1>3, AppendIs DEF Answers, TInv, PostedOK
<1>5. Job.run # 0
  BY <1>1 DEF OInv, RunsOK
<1> QED
  BY <1>2, <1>4, <1>5 DEF Moves, WorkerOnly, controller, pipeline

LEMMA RecomputeMoves ==
  ASSUME TInv, OInv, Recompute
  PROVE  Moves
<1>1. /\ Len(queue') = Len(queue) - 1 /\ Len(queue) \in Nat /\ Len(queue) > 0
      /\ Job = queue[1] /\ Job.op = "rerun"
      /\ \A i \in 1..Len(queue') : queue'[i] = queue[i + 1]
  BY HeadTailProperties, QueueFacts DEF TInv, QueueOK, Recompute
<1>2. Follows(1)
  BY <1>1 DEF Follows
<1>3. Job.run = 0
  BY <1>1 DEF OInv, RunsOK
<1> QED
  BY <1>2, <1>3 DEF Moves, Recompute, controller

LEMMA WorkerMoves ==
  ASSUME TInv, OInv, Worker
  PROVE  Moves
<1>1. CASE Recompute
  BY <1>1, RecomputeMoves
<1>2. CASE ~Recompute
  <2>1. queue # <<>> /\ Job.op # "rerun" /\ WorkerOnly /\ Job \in Jobs
    BY <1>2, QueueFacts DEF Worker, Capture, Check, Locate, StartReplan,
         CommitInitial, CommitAnswer, ResumePending, RetractCurrent, Conflict,
         ReviewMeanings, PrepareCandidate, Publish, FailJob, At, TInv, HeadOK
  <2>2. \/ \E v : Post(v)
        \/ At("queued") /\ Goto([Job EXCEPT !.pc = "captured"])
        \/ At("queued") /\ Goto([Job EXCEPT !.pc = "captured", !.data = Identity.data,
                                            !.seen = data])
        \/ At("captured") /\ Goto([Job EXCEPT !.pc = "checked"])
        \/ Goto([Job EXCEPT !.pc = "acted"])
    BY <1>2 DEF Worker, Capture, Check, Locate, StartReplan,
         CommitInitial, CommitAnswer, ResumePending, RetractCurrent, Conflict,
         ReviewMeanings, PrepareCandidate, Publish, FailJob, Done
  <2>3. ASSUME NEW job, Goto(job),
               \/ At("queued") /\ job = [Job EXCEPT !.pc = "captured"]
               \/ At("queued") /\ job = [Job EXCEPT !.pc = "captured", !.data = Identity.data,
                                                    !.seen = data]
               \/ At("captured") /\ job = [Job EXCEPT !.pc = "checked"]
               \/ job = [Job EXCEPT !.pc = "acted"]
        PROVE  Moves
    <3>1. /\ job \in Jobs /\ job.run = Job.run /\ job.op = Job.op /\ job.version = Job.version
          /\ job.pc \in {"captured", "checked", "acted"}
          /\ job.pc = "captured" => Job.pc = "queued"
      BY <2>1, <2>3, IdentityTyped DEF Jobs, At, TInv, PipelineOK
    <3> QED
      BY <2>1, <2>3, <3>1, GoingMoves DEF Waits
  <2> QED
    BY <2>1, <2>2, <2>3, PostingMoves
<1> QED
  BY <1>1, <1>2

\* A result is accepted after its job as it would have been before.
LEMMA MovingIsLive ==
  ASSUME TInv, Moves
  PROVE  Live' <=> Live
<1>1. /\ Len(queue) \in Nat /\ Len(queue) > 0 /\ Job = queue[1] /\ Len(posted) \in Nat
  BY QueueFacts, RunNumbers DEF Moves, TInv
<1>2. run' = run /\ version' = version
  BY DEF Moves
<1>3. CASE Follows(0) /\ posted' = posted
  BY <1>1, <1>2, <1>3 DEF Live, Follows
<1>4. CASE Follows(1) /\ posted' = posted /\ Job.run = 0
  <2>1. ASSUME NEW i \in 1..Len(queue), queue[i].run = run, queue[i].version = version, run # 0
        PROVE  Live'
    <3>1. i - 1 \in 1..Len(queue') /\ i - 1 + 1 = i
      BY <1>1, <1>4, <2>1 DEF Follows
    <3>2. queue'[i - 1].run = run' /\ queue'[i - 1].version = version'
      BY <1>2, <1>4, <2>1, <3>1 DEF Follows
    <3> QED
      BY <1>2, <2>1, <3>1, <3>2 DEF Live
  <2> QED
    BY <1>2, <1>4, <2>1 DEF Live, Follows
<1>5. CASE Follows(1) /\ Answers
  <2>1. ASSUME NEW i \in 1..Len(queue), queue[i].run = run, queue[i].version = version, run # 0
        PROVE  Live'
    <3>1. CASE i = 1
      <4>1. Len(posted) + 1 \in 1..Len(posted')
        BY <1>1, <1>5 DEF Answers
      <4> QED
        BY <1>1, <1>2, <1>5, <2>1, <3>1, <4>1 DEF Live, Answers
    <3>2. CASE i # 1
      <4>1. i - 1 \in 1..Len(queue') /\ i - 1 + 1 = i
        BY <1>1, <1>5, <3>2 DEF Follows
      <4>2. queue'[i - 1].run = run' /\ queue'[i - 1].version = version'
        BY <1>2, <1>5, <2>1, <4>1 DEF Follows
      <4> QED
        BY <1>2, <2>1, <4>1, <4>2 DEF Live
    <3> QED
      BY <3>1, <3>2
  <2>2. ASSUME NEW i \in 1..Len(posted), posted[i].run = run, posted[i].version = version,
               run # 0
        PROVE  Live'
    BY <1>1, <1>2, <1>5, <2>2 DEF Live, Answers
  <2>3. ASSUME NEW i \in 1..Len(posted'), posted'[i].run = run, posted'[i].version = version,
               run # 0
        PROVE  Live
    <3>1. 1 \in 1..Len(queue) /\ (i \in 1..Len(posted) \/ i = Len(posted) + 1)
      BY <1>1, <1>5 DEF Answers
    <3> QED
      BY <1>1, <1>5, <2>3, <3>1 DEF Live, Answers
  <2>4. ASSUME NEW i \in 1..Len(queue'), queue'[i].run = run, queue'[i].version = version,
               run # 0
        PROVE  Live
    BY <1>5, <2>4 DEF Live, Follows
  <2> QED
    BY <1>2, <2>1, <2>2, <2>3, <2>4 DEF Live
<1> QED
  BY <1>3, <1>4, <1>5 DEF Moves

LEMMA WorkerKeepsRuns ==
  ASSUME TInv, OInv, FInv, Worker
  PROVE  FInv'
<1>1. /\ Moves /\ (Live' <=> Live)
      /\ UNCHANGED <<view, previous, busy, run, event, cancelled>>
  BY WorkerMoves, MovingIsLive DEF Moves
<1>2. /\ Len(queue) > 0 /\ Job = queue[1] /\ 1 \in 1..Len(queue)
      /\ run \in Nat /\ Len(queue) \in Nat /\ Len(posted) \in Nat
      /\ \A i \in 1..Len(queue) : queue[i].run \in Nat
      /\ \A i \in 1..Len(posted) : posted[i].run \in Nat
  BY <1>1, QueueFacts, RunNumbers DEF TInv, Moves
<1>3. PICK off \in {0, 1} : Follows(off)
  BY <1>1 DEF Moves
<1>4. \/ posted' = posted
      \/ off = 1 /\ Answers /\ Job.run # 0
  <2>1. ~(Follows(0) /\ Follows(1))
    BY <1>2 DEF Follows
  <2> QED
    BY <1>1, <1>3, <2>1 DEF Moves
<1>5. ASSUME NEW i \in 1..Len(queue'), NEW j \in 1..Len(queue'), i < j,
             queue'[i].run # 0, queue'[j].run # 0
      PROVE  queue'[i].run < queue'[j].run
  <2>1. /\ i + off \in 1..Len(queue) /\ j + off \in 1..Len(queue) /\ i + off < j + off
        /\ queue'[i].run = queue[i + off].run /\ queue'[j].run = queue[j + off].run
    BY <1>2, <1>3, <1>5 DEF Follows
  <2> QED
    BY <1>5, <2>1 DEF FInv, RunsInOrder
<1>6. \A i \in 1..Len(queue') : queue'[i].run <= run
  BY <1>3 DEF FInv, RunsInOrder, Follows
<1>7. /\ \A i \in 1..Len(posted') : posted'[i].run <= run
      /\ \A i, j \in 1..Len(posted') : i < j => posted'[i].run < posted'[j].run
      /\ \A i \in 1..Len(posted'), j \in 1..Len(queue') :
           queue'[j].run # 0 => posted'[i].run < queue'[j].run
  <2>1. CASE posted' = posted
    BY <1>2, <1>3, <2>1 DEF FInv, RunsInOrder, Follows
  <2>2. CASE off = 1 /\ Answers /\ Job.run # 0
    <3>1. \A i \in 1..Len(posted') : i \in 1..Len(posted) \/ i = Len(posted) + 1
      BY <1>2, <2>2 DEF Answers
    <3>2. \A i \in 1..Len(posted) : posted[i].run < Job.run
      BY <1>2, <2>2 DEF FInv, RunsInOrder
    <3>3. \A i, j \in 1..Len(posted') : i < j => posted'[i].run < posted'[j].run
      BY <1>2, <2>2, <3>1, <3>2 DEF FInv, RunsInOrder, Answers
    <3>4. \A j \in 1..Len(queue') : queue'[j].run # 0 => Job.run < queue'[j].run
      BY <1>2, <1>3, <2>2 DEF FInv, RunsInOrder, Follows
    <3>5. \A i \in 1..Len(posted'), j \in 1..Len(queue') :
            queue'[j].run # 0 => posted'[i].run < queue'[j].run
      BY <1>2, <1>3, <2>2, <3>1, <3>4 DEF FInv, RunsInOrder, Answers, Follows
    <3>6. \A i \in 1..Len(posted') : posted'[i].run <= run
      BY <1>2, <2>2, <3>1 DEF FInv, RunsInOrder, Answers
    <3> QED
      BY <3>3, <3>5, <3>6
  <2> QED
    BY <1>4, <2>1, <2>2
<1>8. RunsInOrder'
  BY <1>1, <1>5, <1>6, <1>7 DEF RunsInOrder
<1>9. CancelledOK'
  BY <1>1, <1>3 DEF FInv, CancelledOK, Follows
<1>10. QuietOK'
  BY <1>1, <1>3 DEF FInv, QuietOK, OnlyReruns, Follows
<1> QED
  BY <1>8, <1>9, <1>10 DEF FInv

\* A step of the main thread that submits nothing.
LEMMA LookingKeepsRuns ==
  ASSUME TInv, OInv, FInv, UNCHANGED <<queue, posted, run, previous>>,
         cancelled \subseteq cancelled', busy \in BOOLEAN, busy' \in BOOLEAN,
         busy' => busy /\ event' = event /\ view'.state \in Waiting,
         busy /\ ~busy' => run \in cancelled',
         view'.state \in Shown => version' = version /\ (view.state \in Shown \/ Live),
         view'.state = "prepare_review" => view.state = "prepare_review"
  PROVE  FInv'
<1>1. RunsInOrder'
  BY DEF FInv, RunsInOrder
<1>2. CancelledOK'
  <2>1. \A i \in 1..Len(queue') :
          queue'[i].run # 0 /\ Waits(queue'[i]) =>
            queue'[i].run \in cancelled' \/ (busy' /\ queue'[i].run = run')
    BY DEF FInv, CancelledOK
  <2> QED
    BY <2>1 DEF FInv, CancelledOK
<1>3. view'.state \in Shown => (Live' <=> Live)
  BY DEF Live
<1>4. QuietOK'
  <2>1. view'.state = "prepare_review" => view'.state \in Shown
    BY DEF Shown
  <2> QED
    BY <1>3, <2>1 DEF FInv, QuietOK, OnlyReruns
<1> QED
  BY <1>1, <1>2, <1>4 DEF FInv

\* What a command leaves behind.
Joins(job) ==
  /\ Len(queue) \in Nat /\ Len(queue') = Len(queue) + 1
  /\ \A i \in 1..Len(queue) : queue'[i] = queue[i]
  /\ queue'[Len(queue) + 1] = job
  /\ \A i \in 1..Len(queue') : i \in 1..Len(queue) \/ i = Len(queue) + 1
Submitted(op, from) ==
  /\ \E job : Joins(job) /\ job.run = run' /\ job.op = op /\ job.pc = "queued"
              /\ job.version = version
  /\ run' = run + 1 /\ run \in Nat /\ run' \in Nat /\ run' # 0
  /\ event' = run' /\ previous' = from /\ ~busy /\ busy'
  /\ view'.state \in Waiting
  /\ UNCHANGED <<cancelled, posted, rt, data, version, editing, tasks, torn>>

LEMMA JoinsIs ==
  ASSUME TInv, NEW job \in Jobs, queue' = Append(queue, job)
  PROVE  Joins(job)
<1>1. /\ Len(queue) \in Nat /\ Len(queue') = Len(queue) + 1
      /\ \A i \in 1..Len(queue) : queue'[i] = queue[i]
      /\ queue'[Len(queue) + 1] = job
  BY AppendIs DEF TInv, QueueOK
<1> QED
  BY <1>1 DEF Joins

LEMMA SubmitIs ==
  ASSUME TInv, NEW op \in Ops, NEW from \in Views, Submit(op, from)
  PROVE  Submitted(op, from)
<1> DEFINE job == [run |-> run', version |-> version, op |-> op, of |-> from.of,
                   pc |-> "queued", data |-> NoData, seen |-> NoData]
<1>1. /\ run' = run + 1 /\ run \in Nat /\ version \in 1..MaxVersion /\ run' # 0
      /\ run' \in Nat
  BY DEF Submit, TInv, ControllerOK, PipelineOK
<1>2. job \in Jobs /\ job.run = run' /\ job.op = op /\ job.pc = "queued"
      /\ job.version = version
  BY <1>1 DEF Jobs, Ops, Views
<1>3. queue' = Append(queue, job)
  BY DEF Submit
<1> HIDE DEF job
<1>4. Joins(job)
  BY <1>2, <1>3, JoinsIs
<1>5. view'.state \in Waiting
  BY BusyStates DEF Submit, Transient
<1> QED
  BY <1>1, <1>2, <1>4, <1>5 DEF Submit, Submitted, pipeline, history

LEMMA SubmitKeepsRuns ==
  ASSUME TInv, OInv, FInv, NEW op, NEW from, Submitted(op, from),
         from.state = "candidate_ready" => op \in {"prepare", "retract"}
  PROVE  FInv'
<1>1. PICK job : Joins(job) /\ job.run = run' /\ job.op = op /\ job.pc = "queued"
  BY DEF Submitted
<1>2. /\ run' = run + 1 /\ run \in Nat /\ run' # 0 /\ posted' = posted
      /\ event' = run' /\ previous' = from /\ ~busy /\ cancelled' = cancelled
      /\ view'.state \in Waiting
  BY DEF Submitted
<1>3. /\ \A i \in 1..Len(queue) : queue[i].run \in Nat /\ queue[i].run <= run
      /\ \A i \in 1..Len(posted) : posted[i].run \in Nat /\ posted[i].run <= run
  BY RunNumbers DEF FInv, RunsInOrder
<1>4. /\ \A i \in 1..Len(queue) : queue[i].run < run'
      /\ \A i \in 1..Len(posted) : posted[i].run < run'
  BY <1>2, <1>3
<1>5. RunsInOrder'
  <2>1. ASSUME NEW i \in 1..Len(queue'), NEW j \in 1..Len(queue'), i < j,
               queue'[i].run # 0, queue'[j].run # 0
        PROVE  queue'[i].run < queue'[j].run
    <3>1. i \in 1..Len(queue)
      BY <1>1, <2>1 DEF Joins
    <3> QED
      BY <1>1, <1>4, <2>1, <3>1 DEF Joins, FInv, RunsInOrder
  <2>2. ASSUME NEW i \in 1..Len(queue') PROVE queue'[i].run <= run'
    <3>1. CASE i \in 1..Len(queue)
      BY <1>1, <1>2, <1>3, <1>4, <3>1 DEF Joins
    <3>2. CASE i = Len(queue) + 1
      BY <1>1, <1>2, <3>2 DEF Joins
    <3> QED
      BY <1>1, <3>1, <3>2 DEF Joins
  <2>3. \A i \in 1..Len(posted'), j \in 1..Len(queue') :
          queue'[j].run # 0 => posted'[i].run < queue'[j].run
    BY <1>1, <1>2, <1>4 DEF Joins, FInv, RunsInOrder
  <2>4. /\ \A i \in 1..Len(posted') : posted'[i].run <= run'
        /\ \A i, j \in 1..Len(posted') : i < j => posted'[i].run < posted'[j].run
    BY <1>2, <1>3 DEF FInv, RunsInOrder
  <2> QED
    BY <2>1, <2>2, <2>3, <2>4 DEF RunsInOrder
<1>6. CancelledOK'
  BY <1>1, <1>2, <1>4 DEF Joins, FInv, CancelledOK, Submitted
<1>7. view'.state \notin Shown /\ view'.state # "prepare_review"
  BY <1>2 DEF Waiting, Shown, Durable
<1>8. QuietOK'
  BY <1>7 DEF QuietOK
<1> QED
  BY <1>5, <1>6, <1>8 DEF FInv

\* The commands but Retract.
Commands ==
  \/ Start \/ Resume \/ RecordCausalBoundary \/ Answer \/ Replan \/ Prepare
  \/ ConfirmVariableMeanings \/ SubmitRoles

LEMMA CommandsSubmit ==
  ASSUME TInv, Commands
  PROVE  \E op \in Ops :
           Submitted(op, view) /\ (view.state = "candidate_ready" => op = "prepare")
<1>1. PICK op \in Ops :
        Submit(op, view) /\ (view.state = "candidate_ready" => op = "prepare")
  BY DEF Ops, Command, Commands, Start, Resume, RecordCausalBoundary, Answer, Replan, Prepare,
         ConfirmVariableMeanings, SubmitRoles
<1>2. view \in Views
  BY DEF TInv, ControllerOK
<1>3. Submitted(op, view)
  BY <1>1, <1>2, SubmitIs
<1> QED
  BY <1>1, <1>3

LEMMA RetractSubmits ==
  ASSUME TInv, Retract
  PROVE  Submitted("retract", Discarded)
<1>1. "retract" \in Ops /\ Discarded \in Views /\ Submit("retract", Discarded)
  BY DiscardedTyped DEF Retract, Ops, TInv
<1> QED
  BY <1>1, SubmitIs

\* When the result of the run is delivered there is nothing left under way.
LEMMA LastIsDelivered ==
  ASSUME TInv, OInv, FInv, posted # <<>>, Accepts(Head(posted))
  PROVE  /\ Len(posted) = 1 /\ Head(posted) = posted[1] /\ posted[1].run = run
         /\ OnlyReruns
<1>1. /\ Len(posted) \in Nat /\ Len(posted) > 0 /\ Head(posted) = posted[1]
      /\ 1 \in 1..Len(posted)
  BY HeadTailProperties, LenProperties, EmptySeq DEF TInv, PostedOK
<1> DEFINE n == Len(posted)
<1>2. posted[1].run = run
  BY <1>1 DEF Accepts
<1>3. n = 1
  <2> SUFFICES ASSUME n # 1 PROVE FALSE
    OBVIOUS
  <2>1. n \in Nat /\ n > 0
    BY <1>1
  <2> HIDE DEF n
  <2>2. 2 \in 1..n
    BY <2>1
  <2>3. posted[1].run < posted[2].run /\ posted[2].run <= run
    BY <1>1, <2>2 DEF FInv, RunsInOrder, n
  <2>4. posted[2].run \in Nat /\ run \in Nat
    BY <2>2, RunNumbers DEF n
  <2> QED
    BY <1>2, <2>3, <2>4
<1>4. ASSUME NEW j \in 1..Len(queue), queue[j].run # 0
      PROVE  FALSE
  <2>1. posted[1].run < queue[j].run /\ queue[j].run <= run
    BY <1>1, <1>4 DEF FInv, RunsInOrder
  <2>2. queue[j].run \in Nat /\ run \in Nat
    BY RunNumbers
  <2> QED
    BY <1>2, <2>1, <2>2
<1> QED
  BY <1>1, <1>2, <1>3, <1>4 DEF OnlyReruns

\* What is delivered, accepted or not.
LEMMA DeliverIs ==
  ASSUME TInv, Deliver
  PROVE  /\ posted # <<>> /\ Len(posted) \in Nat /\ Len(posted') = Len(posted) - 1
         /\ \A i \in 1..Len(posted') : i + 1 \in 1..Len(posted) /\ posted'[i] = posted[i + 1]
         /\ Len(posted) > 0 /\ Head(posted) = posted[1]
  BY HeadTailProperties, LenProperties, EmptySeq DEF TInv, PostedOK, Deliver

LEMMA DroppingIsLive ==
  ASSUME TInv, Deliver, ~Accepts(Head(posted))
  PROVE  Live' <=> Live
<1>1. UNCHANGED <<queue, run, version>>
  BY DEF Deliver, pipeline
<1>2. /\ posted # <<>> /\ Len(posted) \in Nat /\ Len(posted') = Len(posted) - 1
      /\ \A i \in 1..Len(posted') : i + 1 \in 1..Len(posted) /\ posted'[i] = posted[i + 1]
      /\ Len(posted) > 0 /\ Head(posted) = posted[1]
  BY DeliverIs
<1>3. ASSUME NEW i \in 1..Len(posted), posted[i].run = run, posted[i].version = version, run # 0
      PROVE  Live'
  <2>1. i # 1
    BY <1>2, <1>3 DEF Accepts
  <2>2. i - 1 \in 1..Len(posted') /\ posted'[i - 1] = posted[i]
    BY <1>2, <2>1
  <2> QED
    BY <1>1, <1>3, <2>2 DEF Live
<1>4. Live => Live'
  BY <1>1, <1>3 DEF Live
<1>5. Live' => Live
  BY <1>1, <1>2 DEF Live
<1> QED
  BY <1>4, <1>5

LEMMA DeliverKeepsRuns ==
  ASSUME TInv, OInv, FInv, Deliver
  PROVE  FInv'
<1>1. UNCHANGED <<queue, run, version, previous, cancelled>>
  BY DEF Deliver, pipeline
<1>2. /\ posted # <<>> /\ Len(posted) \in Nat /\ Len(posted') = Len(posted) - 1
      /\ \A i \in 1..Len(posted') : i + 1 \in 1..Len(posted) /\ posted'[i] = posted[i + 1]
      /\ Len(posted) > 0
  BY DeliverIs
<1>3. /\ \A i \in 1..Len(posted') : posted'[i].run <= run
      /\ \A i \in 1..Len(posted'), j \in 1..Len(queue) :
           queue[j].run # 0 => posted'[i].run < queue[j].run
  BY <1>2 DEF FInv, RunsInOrder
<1>4. ASSUME NEW i \in 1..Len(posted'), NEW j \in 1..Len(posted'), i < j
      PROVE  posted'[i].run < posted'[j].run
  <2>1. i + 1 \in 1..Len(posted) /\ j + 1 \in 1..Len(posted) /\ i + 1 < j + 1
    BY <1>2, <1>4
  <2> QED
    BY <1>2, <2>1 DEF FInv, RunsInOrder
<1>5. RunsInOrder'
  BY <1>1, <1>3, <1>4 DEF FInv, RunsInOrder
<1>6. CASE ~Accepts(Head(posted))
  <2>1. UNCHANGED <<view, busy, event>>
    BY <1>6 DEF Deliver
  <2>2. Live' <=> Live
    BY <1>6, DroppingIsLive
  <2> QED
    BY <1>1, <1>5, <2>1, <2>2 DEF FInv, CancelledOK, QuietOK, OnlyReruns
<1>7. CASE Accepts(Head(posted))
  <2>1. Len(posted) = 1 /\ OnlyReruns
    BY <1>2, <1>7, LastIsDelivered
  <2>2. busy' = FALSE
    BY <1>7 DEF Deliver
  <2>3. Len(posted') = 0
    BY <1>2, <2>1
  <2>4. OnlyReruns' /\ ~Live'
    BY <1>1, <2>1, <2>3 DEF OnlyReruns, Live
  <2>5. CancelledOK' /\ QuietOK'
    BY <2>2, <2>4 DEF CancelledOK, QuietOK, OnlyReruns
  <2> QED
    BY <1>5, <2>5 DEF FInv
<1> QED
  BY <1>6, <1>7

\* The main thread takes up a new run without a job: whatever is under way is given up.
LEMMA SyncKeepsRuns ==
  ASSUME TInv, OInv, FInv, CommitEdit
  PROVE  FInv' /\ ~Live'
<1>1. /\ UNCHANGED <<queue, posted, previous>> /\ run' = run + 1 /\ busy' = FALSE
      /\ cancelled' = cancelled \union ({event} \ {0})
      /\ view' = Overtaken
  BY DEF CommitEdit, Sync
<1>2. /\ run \in Nat
      /\ \A i \in 1..Len(queue) : queue[i].run \in Nat /\ queue[i].run <= run
      /\ \A i \in 1..Len(posted) : posted[i].run \in Nat /\ posted[i].run <= run
  BY RunNumbers DEF FInv, RunsInOrder
<1>3. /\ \A i \in 1..Len(queue) : queue[i].run # run' /\ queue[i].run <= run'
      /\ \A i \in 1..Len(posted) : posted[i].run # run' /\ posted[i].run <= run'
  BY <1>1, <1>2
<1>4. ~Live'
  BY <1>1, <1>3 DEF Live
<1>5. RunsInOrder'
  BY <1>1, <1>3 DEF FInv, RunsInOrder
<1>6. busy => run \in cancelled'
  BY <1>1 DEF OInv, RunsOK, Live, FInv, CancelledOK
<1>7. CancelledOK'
  BY <1>1, <1>6 DEF FInv, CancelledOK
<1>8. view'.state \in {"idle", "replan_required"}
  BY <1>1 DEF Overtaken, Transient
<1>9. QuietOK'
  BY <1>4, <1>8 DEF QuietOK, Shown, Durable
<1> QED
  BY <1>4, <1>5, <1>7, <1>9 DEF FInv

LEMMA RerunIs ==
  ASSUME TInv, Rerun
  PROVE  /\ UNCHANGED <<view, previous, busy, run, event, review, cancelled, posted, rt, version,
                        data, editing, tasks, torn>>
         /\ \E job \in Jobs : Joins(job) /\ job.run = 0 /\ job.pc = "queued" /\ job.op = "rerun"
<1> DEFINE job == [run |-> 0, version |-> version, op |-> "rerun", of |-> NoDecision,
                   pc |-> "queued", data |-> NoData, seen |-> NoData]
<1>1. job \in Jobs /\ job.run = 0 /\ job.pc = "queued" /\ job.op = "rerun"
  BY ResearchFlowAssumption DEF Jobs, NoDecision, TInv, PipelineOK
<1>2. queue' = Append(queue, job)
  BY DEF Rerun
<1> HIDE DEF job
<1>3. Joins(job)
  BY <1>1, <1>2, JoinsIs
<1> QED
  BY <1>1, <1>3 DEF Rerun, controller, pipeline, history

LEMMA RerunIsLive ==
  ASSUME TInv, Rerun
  PROVE  Live' <=> Live
<1>1. PICK job \in Jobs : Joins(job) /\ job.run = 0
  BY RerunIs
<1>2. UNCHANGED <<run, posted, version>>
  BY RerunIs
<1>3. 1..Len(queue) \subseteq 1..Len(queue')
  BY <1>1 DEF Joins
<1>4. Live => Live'
  BY <1>1, <1>2, <1>3 DEF Live, Joins
<1>5. Live' => Live
  BY <1>1, <1>2 DEF Live, Joins
<1> QED
  BY <1>4, <1>5

LEMMA RerunKeepsRuns ==
  ASSUME TInv, OInv, FInv, Rerun
  PROVE  FInv'
<1>1. PICK job \in Jobs : Joins(job) /\ job.run = 0
  BY RerunIs
<1>2. UNCHANGED <<view, previous, busy, run, event, cancelled, posted, version>>
  BY RerunIs
<1>3. Live' <=> Live
  BY RerunIsLive
<1>4. run \in Nat /\ (busy => run # 0)
  BY RunNumbers DEF OInv, RunsOK, Live
<1>5. ASSUME NEW i \in 1..Len(queue'), NEW j \in 1..Len(queue'), i < j,
             queue'[i].run # 0, queue'[j].run # 0
      PROVE  queue'[i].run < queue'[j].run
  <2>1. i \in 1..Len(queue) /\ j \in 1..Len(queue)
    BY <1>1, <1>5 DEF Joins
  <2> QED
    BY <1>1, <1>5, <2>1 DEF Joins, FInv, RunsInOrder
<1>6. /\ \A i \in 1..Len(queue') : queue'[i].run <= run
      /\ \A i \in 1..Len(posted), j \in 1..Len(queue') :
           queue'[j].run # 0 => posted[i].run < queue'[j].run
  BY <1>1, <1>4 DEF Joins, FInv, RunsInOrder
<1>7. RunsInOrder'
  BY <1>2, <1>5, <1>6 DEF FInv, RunsInOrder
<1>8. CancelledOK'
  BY <1>1, <1>2, <1>4 DEF Joins, FInv, CancelledOK
<1>9. QuietOK'
  BY <1>1, <1>2, <1>3 DEF Joins, FInv, QuietOK, OnlyReruns
<1> QED
  BY <1>7, <1>8, <1>9 DEF FInv

\* What replaces a view without a job.
LEMMA CancelKeepsRuns ==
  ASSUME TInv, OInv, FInv, Cancel
  PROVE  FInv'
<1>1. /\ UNCHANGED <<queue, posted, run, previous, version>> /\ busy /\ busy' = FALSE
      /\ cancelled' = cancelled \union {event}
      /\ view' = IF previous.state \in Durable THEN previous ELSE Transient("cancelled")
  BY DEF Cancel, pipeline, TInv, ControllerOK
<1>2. event = run /\ Live
  BY <1>1 DEF FInv, CancelledOK, OInv, RunsOK
<1>3. view'.state # "prepare_review"
  BY <1>1 DEF Transient, Durable
<1> QED
  BY <1>1, <1>2, <1>3, LookingKeepsRuns DEF TInv, ControllerOK

LEMMA IntakeStepKeepsRuns ==
  ASSUME TInv, OInv, FInv, IntakeStep
  PROVE  FInv'
<1>1. PICK to \in States \ (Bound \union {"confirmed"}) :
        /\ view' = Transient(to) /\ ~busy /\ busy' = busy
        /\ UNCHANGED <<queue, posted, run, previous, cancelled, version>>
  BY WaitingStates DEF IntakeStep, Turn, pipeline, Static
<1>2. view'.state \notin Shown \union {"prepare_review"}
  BY <1>1, TransientStates DEF Bound, Reviews
<1> QED
  BY <1>1, <1>2, LookingKeepsRuns DEF TInv, ControllerOK

LEMMA AdoptModeKeepsRuns ==
  ASSUME TInv, OInv, FInv, AdoptMode
  PROVE  FInv'
<1>1. /\ view' = Discarded /\ busy' = busy
      /\ UNCHANGED <<queue, posted, run, previous, cancelled, event, version>>
  BY DEF AdoptMode, pipeline
<1>2. Discarded # view => view.state = "prepare_review" /\ Discarded.state = "candidate_ready"
  BY DEF Discarded
<1>3. busy => view.state \in Waiting
  BY DEF FInv, CancelledOK
<1>4. "prepare_review" \notin Waiting /\ "prepare_review" \in Shown
  BY DEF Waiting, Shown
<1> QED
  BY <1>1, <1>2, <1>3, <1>4, LookingKeepsRuns DEF TInv, ControllerOK

LEMMA AdoptLanguageKeepsRuns ==
  ASSUME TInv, OInv, FInv, AdoptLanguage
  PROVE  FInv'
<1>1. /\ UNCHANGED <<queue, posted, run, previous, cancelled, event, version>> /\ busy' = busy
      /\ view.state \in Durable /\ rt.record # NoRecord
      /\ view' = RecordView(rt.record, rt.identity, rt.seen, version)
  BY DEF AdoptLanguage, pipeline
<1>2. view'.state \in Durable \union {"replan_required"}
  BY <1>1, DecidedStates DEF TInv
<1>3. ~busy
  BY <1>1 DEF FInv, CancelledOK, Durable, Waiting
<1>4. view.state \in Shown /\ view'.state # "prepare_review"
  BY <1>1, <1>2, ShownIsBound DEF Durable
<1> QED
  BY <1>1, <1>3, <1>4, LookingKeepsRuns DEF TInv, ControllerOK

LEMMA ConfirmKeepsRuns ==
  ASSUME TInv, OInv, FInv, Confirm
  PROVE  FInv'
<1>1. /\ ~busy /\ busy' = busy /\ UNCHANGED <<queue, posted, run, previous, cancelled, event>>
  BY DEF Confirm
<1>2. \/ view' = [view EXCEPT !.state = "confirmed", !.version = version']
      \/ view' \in {Transient("replan_required"), Transient("failure")}
  BY DEF Confirm
<1>3. view'.state \in {"confirmed", "replan_required", "failure"}
  <2>1. CASE view' = [view EXCEPT !.state = "confirmed", !.version = version']
    BY <2>1 DEF TInv, ControllerOK, Views
  <2>2. CASE view' \in {Transient("replan_required"), Transient("failure")}
    BY <2>2 DEF Transient
  <2> QED
    BY <1>2, <2>1, <2>2
<1>4. view'.state \notin Shown /\ view'.state # "prepare_review"
  BY <1>3 DEF Shown, Durable
<1> QED
  BY <1>1, <1>4, LookingKeepsRuns DEF TInv, ControllerOK

LEMMA NextFInv ==
  TInv /\ OInv /\ FInv /\ [Next]_vars => FInv'
<1> SUFFICES ASSUME TInv, OInv, FInv, [Next]_vars PROVE FInv'
  OBVIOUS
<1>1. CASE Worker
  BY <1>1, WorkerKeepsRuns
<1>2. CASE Deliver \/ CommitEdit
  BY <1>2, DeliverKeepsRuns, SyncKeepsRuns
<1>3. CASE RollBackEdit \/ Edit \/ UNCHANGED vars
  <2>1. UNCHANGED <<view, previous, busy, run, event, cancelled, queue, posted, version>>
    BY <1>3 DEF RollBackEdit, Edit, vars, controller, pipeline
  <2>2. busy => view.state \in Waiting
    BY DEF FInv, CancelledOK
  <2> QED
    BY <2>1, <2>2, LookingKeepsRuns DEF TInv, ControllerOK
<1>4. CASE Commands
  <2>1. PICK op \in Ops : Submitted(op, view) /\ (view.state = "candidate_ready" => op = "prepare")
    BY <1>4, CommandsSubmit
  <2> QED
    BY <2>1, SubmitKeepsRuns
<1>5. CASE Retract
  BY <1>5, RetractSubmits, SubmitKeepsRuns
<1>6. CASE IntakeStep \/ Cancel \/ AdoptMode \/ AdoptLanguage \/ Confirm \/ Rerun
  BY <1>6, IntakeStepKeepsRuns, CancelKeepsRuns, AdoptModeKeepsRuns, AdoptLanguageKeepsRuns,
     ConfirmKeepsRuns, RerunKeepsRuns
<1> QED
  BY <1>1, <1>2, <1>3, <1>4, <1>5, <1>6 DEF Next, User, Commands

LEMMA InitFInv ==
  Init => FInv
<1> SUFFICES ASSUME Init PROVE FInv
  OBVIOUS
<1>1. Len(queue) = 0 /\ Len(posted) = 0 /\ busy = FALSE /\ view = Transient("idle")
  BY EmptySeq DEF Init
<1>2. view.state # "prepare_review"
  BY <1>1 DEF Transient
<1> QED
  BY <1>1, <1>2 DEF FInv, RunsInOrder, CancelledOK, QuietOK, OnlyReruns

------------------------------------------------------------------------------
(* What the runtime has read of the ledgers.                                *)

\* A ledger that has come to its end, and stays there.
EndKinds == {"candidate", "retracted"}
Concluded(of) ==
  /\ of[1] \in 1..Len(tasks)
  /\ tasks[of[1]].kind \in EndKinds /\ tasks[of[1]].n = of[2]

\* The task at hand is open, its ledger says what the record says, unless a failed job
\* has written to it, and a job knows what it has captured.
HandleOK == rt.handle # 0 => tasks[rt.handle].active
ReadOK ==
  rt.record # NoRecord =>
    /\ rt.record.of[1] = rt.handle
    /\ rt.handle \notin torn => Record(rt.handle) = rt.record
    /\ rt.record.kind = "candidate" => Concluded(rt.record.of)
    /\ rt.seen \in Datas
SeenOK ==
  queue # <<>> /\ Job.pc # "queued" /\ Job.op # "retract" =>
    /\ Job.seen \in Datas
    /\ Job.op \in {"initial", "causal"} /\ Job.pc = "checked" => rt.seen \in Datas
Reads == HandleOK /\ ReadOK /\ SeenOK

\* What a step of the worker may do to the ledgers that have come to their end: only a
\* job that has just read or retracted one makes it a retracted one that is known.
Settles ==
  /\ Len(tasks) <= Len(tasks')
  /\ \A t \in 1..Len(tasks) : tasks[t].kind \in EndKinds =>
       /\ tasks'[t].n = tasks[t].n /\ tasks'[t].kind \in EndKinds
       /\ t \notin torn' =>
            \/ tasks'[t].kind = "candidate"
            \/ tasks[t].kind = "retracted" /\ t \notin torn
            \/ rt'.record.kind = "retracted" /\ At("acted")'

LEMMA ConcludedStays ==
  ASSUME TasksOK, Len(tasks') \in Nat, Settles, NEW of, Concluded(of)
  PROVE  Concluded(of)'
<1>1. Len(tasks) \in Nat /\ Len(tasks) <= Len(tasks')
  BY TaskFacts DEF Settles
<1>2. of[1] \in 1..Len(tasks')
  BY <1>1 DEF Concluded
<1> QED
  BY <1>2 DEF Concluded, Settles

\* A job that ends leaves one that waits.
LEMMA EndingSeen ==
  ASSUME TInv, queue # <<>>, queue' = Tail(queue)
  PROVE  SeenOK'
<1>1. /\ queue' \in Seq(Jobs) /\ Len(queue') = Len(queue) - 1 /\ Len(queue) \in Nat
      /\ \A i \in 1..Len(queue') : queue'[i] = queue[i + 1] /\ i + 1 \in 2..Len(queue)
  BY HeadTailProperties, LenProperties DEF TInv, QueueOK
<1>2. queue' # <<>> => 1 \in 1..Len(queue') /\ Job' = queue'[1]
  BY <1>1, HeadTailProperties, EmptySeq, LenProperties DEF Job
<1>3. queue' # <<>> => Job'.pc = "queued"
  BY <1>1, <1>2 DEF TInv, QueueOK
<1> QED
  BY <1>3 DEF SeenOK

LEMMA GoingSeen ==
  ASSUME TInv, queue # <<>>, NEW job \in Jobs, Goto(job),
         job.op # "retract" => /\ job.seen \in Datas
                               /\ job.op \in {"initial", "causal"} /\ job.pc = "checked" =>
                                    rt'.seen \in Datas
  PROVE  SeenOK' /\ (At(job.pc))'
<1>1. queue' # <<>> /\ Job' = job
  BY Going DEF TInv
<1> QED
  BY <1>1 DEF SeenOK, At

\* A step that writes nothing and keeps what is read.
LEMMA KeepingReads ==
  ASSUME TInv, HandleOK, ReadOK, SeenOK', UNCHANGED <<tasks, torn>>,
         rt'.handle = rt.handle, rt'.record = rt.record,
         rt'.seen = rt.seen \/ rt'.seen \in Datas
  PROVE  Reads' /\ Settles
<1>1. Len(tasks) \in Nat
  BY TaskFacts DEF TInv
<1>2. HandleOK' /\ ReadOK'
  BY DEF HandleOK, ReadOK, Record, Concluded
<1>3. Settles
  BY <1>1 DEF Settles, EndKinds
<1> QED
  BY <1>2, <1>3 DEF Reads

LEMMA CaptureReads ==
  ASSUME TInv, Reads, Capture
  PROVE  Reads' /\ Settles
<1>1. queue # <<>> /\ Job \in Jobs /\ Job.pc = "queued" /\ UNCHANGED <<tasks, torn>>
  BY QueueFacts DEF TInv, Capture, At
<1>2. rt' = rt \/ rt' = [rt EXCEPT !.cache = Identity]
  BY DEF Capture
<1>3. rt'.handle = rt.handle /\ rt'.record = rt.record /\ rt'.seen = rt.seen
  BY <1>2 DEF TInv, RtOK
<1>4. SeenOK'
  <2>1. CASE \E v : Post(v)
    BY <1>1, <2>1, EndingSeen DEF Post
  <2>2. CASE Job.op = "retract" /\ Goto([Job EXCEPT !.pc = "captured"])
    <3> DEFINE job == [Job EXCEPT !.pc = "captured"]
    <3>1. job \in Jobs /\ job.op = "retract"
      BY <1>1, <2>2 DEF Jobs
    <3>2. Goto(job)
      BY <2>2
    <3> HIDE DEF job
    <3> QED
      BY <1>1, <3>1, <3>2, GoingSeen
  <2>3. CASE Goto([Job EXCEPT !.pc = "captured", !.data = Identity.data, !.seen = data])
    <3> DEFINE job == [Job EXCEPT !.pc = "captured", !.data = Identity.data, !.seen = data]
    <3>1. job \in Jobs /\ job.seen \in Datas /\ job.pc = "captured"
      BY <1>1, IdentityTyped DEF Jobs, TInv, PipelineOK
    <3>2. Goto(job)
      BY <2>3
    <3> HIDE DEF job
    <3> QED
      BY <1>1, <3>1, <3>2, GoingSeen
  <2> QED
    BY <2>1, <2>2, <2>3 DEF Capture
<1> QED
  BY <1>1, <1>3, <1>4, KeepingReads DEF Reads

LEMMA CheckReads ==
  ASSUME TInv, Reads, Check
  PROVE  Reads' /\ Settles
<1>1. queue # <<>> /\ Job \in Jobs /\ Job.pc = "captured" /\ UNCHANGED <<tasks, torn>>
  BY QueueFacts DEF TInv, Check, At
<1>2. CASE rt' = rt /\ \E v : Post(v)
  <2>1. SeenOK'
    BY <1>1, <1>2, EndingSeen DEF Post
  <2> QED
    BY <1>1, <1>2, <2>1, KeepingReads DEF Reads
<1>3. CASE /\ Goto([Job EXCEPT !.pc = "checked"])
           /\ rt' = [rt EXCEPT !.seen = IF Fresh THEN Job.seen ELSE @]
  <2> DEFINE job == [Job EXCEPT !.pc = "checked"]
  <2>1. /\ rt'.handle = rt.handle /\ rt'.record = rt.record
        /\ rt'.seen = IF Fresh THEN Job.seen ELSE rt.seen
    BY <1>3 DEF TInv, RtOK
  <2>2. Fresh => Job.op # "retract"
    BY DEF Fresh
  <2>3. Job.op # "retract" => Job.seen \in Datas
    BY <1>1 DEF Reads, SeenOK
  <2>4. Job.op \in {"initial", "causal"} => Fresh
    BY DEF Fresh, Starts
  <2>5. job \in Jobs /\ job.op = Job.op /\ job.seen = Job.seen
    BY <1>1 DEF Jobs
  <2>6. Goto(job)
    BY <1>3
  <2> HIDE DEF job
  <2>7. SeenOK'
    BY <1>1, <2>1, <2>3, <2>4, <2>5, <2>6, GoingSeen
  <2> QED
    BY <1>1, <2>1, <2>2, <2>3, <2>7, KeepingReads DEF Reads
<1> QED
  BY <1>2, <1>3 DEF Check

\* The steps that only look.
LEMMA LookingReads ==
  ASSUME TInv, Reads, \/ Conflict \/ ReviewMeanings \/ PrepareCandidate \/ Publish \/ Recompute
                      \/ FailJob /\ UNCHANGED <<rt, tasks, torn>>
  PROVE  Reads' /\ Settles
<1>1. queue # <<>> /\ Job \in Jobs /\ UNCHANGED <<rt, tasks, torn>>
  BY QueueFacts DEF TInv, Conflict, ReviewMeanings, PrepareCandidate, Publish, Recompute,
                    FailJob, At, history
<1>2. \/ queue' = Tail(queue)
      \/ Job.pc = "checked" /\ Job.op = "prepare" /\ Goto([Job EXCEPT !.pc = "acted"])
  BY DEF Conflict, ReviewMeanings, PrepareCandidate, Publish, Recompute, FailJob, Post, At
<1>3. CASE queue' = Tail(queue)
  BY <1>1, <1>3, EndingSeen, KeepingReads DEF Reads
<1>4. CASE Job.pc = "checked" /\ Job.op = "prepare" /\ Goto([Job EXCEPT !.pc = "acted"])
  <2> DEFINE job == [Job EXCEPT !.pc = "acted"]
  <2>1. job \in Jobs /\ job.op = "prepare" /\ job.seen = Job.seen
    BY <1>1, <1>4 DEF Jobs
  <2>2. Goto(job)
    BY <1>4
  <2> HIDE DEF job
  <2>3. Job.seen \in Datas
    BY <1>1, <1>4 DEF Reads, SeenOK
  <2>4. SeenOK'
    BY <1>1, <2>1, <2>2, <2>3, GoingSeen
  <2> QED
    BY <1>1, <2>4, KeepingReads DEF Reads
<1> QED
  BY <1>2, <1>3, <1>4

\* What a new ledger entry changes.
LEMMA SaidIs ==
  ASSUME TasksOK, NEW t \in 1..Len(tasks), NEW kind \in RecordKinds, NEW n \in Nat,
         NEW asked \in 0..Questions, kind = "clarify" => asked < Questions,
         Says(t, kind, n, asked)
  PROVE  /\ Len(tasks') = Len(tasks) /\ Len(tasks) \in Nat
         /\ \A u \in 1..Len(tasks) :
              /\ tasks'[u].active = tasks[u].active
              /\ tasks'[u].kind = IF u = t THEN kind ELSE tasks[u].kind
              /\ tasks'[u].n = IF u = t THEN n ELSE tasks[u].n
<1>1. Len(tasks') = Len(tasks) /\ Len(tasks) \in Nat /\ DOMAIN tasks = 1..Len(tasks)
  BY Saying, TaskFacts
<1>2. \A u \in 1..Len(tasks) : tasks[u] \in Tasks
  BY TaskFacts
<1>3. \A u \in 1..Len(tasks) :
        tasks'[u] = IF u = t THEN [tasks[t] EXCEPT !.kind = kind, !.n = n, !.asked = asked]
                    ELSE tasks[u]
  BY <1>1 DEF Says, TasksOK
<1>4. LET said == [tasks[t] EXCEPT !.kind = kind, !.n = n, !.asked = asked]
      IN  said.active = tasks[t].active /\ said.kind = kind /\ said.n = n
  BY <1>2 DEF Tasks
<1> QED
  BY <1>1, <1>3, <1>4

\* A job that writes has the record of what it has written, of a ledger that was not at
\* its end, or is retracted.
LEMMA DoneReads ==
  ASSUME TInv, TasksOK', Reads, At("checked"), NEW t \in 1..Len(tasks'), NEW kind, NEW n,
         Done(t, kind, n), tasks'[t].active, tasks'[t].kind = kind, tasks'[t].n = n,
         rt.seen \in Datas, Len(tasks) <= Len(tasks'),
         \A u \in 1..Len(tasks) : u # t => tasks'[u].kind = tasks[u].kind
                                           /\ tasks'[u].n = tasks[u].n,
         t \in 1..Len(tasks) =>
           tasks[t].kind \notin EndKinds \/ (kind = "retracted" /\ n = tasks[t].n)
  PROVE  Reads' /\ Settles
<1> DEFINE job    == [Job EXCEPT !.pc = "acted"]
           record == [of |-> <<t, n>>, kind |-> kind]
<1>1. queue # <<>> /\ Job \in Jobs /\ Job.pc = "checked"
  BY QueueFacts DEF TInv, At
<1>2. job \in Jobs /\ job.op = Job.op /\ job.pc = "acted" /\ job.seen = Job.seen
  BY <1>1 DEF Jobs
<1>3. Goto(job) /\ rt' = [rt EXCEPT !.handle = t, !.record = record] /\ torn' = torn \ {t}
  BY DEF Done
<1>4. record.of = <<t, n>> /\ record.kind = kind /\ Record(t)' = record
  BY DEF Record
<1> HIDE DEF record
<1>5. rt'.handle = t /\ rt'.record = record /\ rt'.seen = rt.seen
  BY <1>3 DEF TInv, RtOK
<1> HIDE DEF job
<1>6. SeenOK' /\ At("acted")'
  <2>1. job.op # "retract" => job.seen \in Datas
    BY <1>1, <1>2 DEF Reads, SeenOK
  <2> QED
    BY <1>1, <1>2, <1>3, <2>1, GoingSeen
<1>7. HandleOK'
  BY <1>5 DEF HandleOK
<1>9. record.of[1] = t /\ record.of[2] = n
  BY <1>4
<1>10. ReadOK'
  <2>1. (Record(rt.handle))' = record
    BY <1>4, <1>5 DEF Record
  <2>2. kind = "candidate" => Concluded(record.of)'
    BY <1>9 DEF Concluded, EndKinds
  <2> QED
    BY <1>4, <1>5, <1>9, <2>1, <2>2 DEF ReadOK
<1>11. Settles
  <2> SUFFICES ASSUME NEW u \in 1..Len(tasks), tasks[u].kind \in EndKinds
               PROVE  /\ tasks'[u].n = tasks[u].n /\ tasks'[u].kind \in EndKinds
                      /\ u \notin torn' =>
                           \/ tasks'[u].kind = "candidate"
                           \/ tasks[u].kind = "retracted" /\ u \notin torn
                           \/ rt'.record.kind = "retracted" /\ At("acted")'
    BY DEF Settles
  <2>1. CASE u # t
    BY <1>3, <2>1 DEF EndKinds
  <2>2. CASE u = t
    BY <1>4, <1>5, <1>6, <2>2 DEF EndKinds
  <2> QED
    BY <2>1, <2>2
<1> QED
  BY <1>6, <1>7, <1>10, <1>11 DEF Reads

\* A job that fails when it has written leaves the ledger to be read again.
LEMMA TornReads ==
  ASSUME TInv, Reads, SeenOK', NEW kind \in RecordKinds, NEW n \in Nat,
         NEW asked \in 0..Questions, kind = "clarify" => asked < Questions,
         rt.handle \in 1..Len(tasks), Says(rt.handle, kind, n, asked),
         rt' = rt, torn' = torn \union {rt.handle},
         \/ tasks[rt.handle].kind \notin EndKinds
         \/ kind = "retracted" /\ n = tasks[rt.handle].n
  PROVE  Reads' /\ Settles
<1>1. /\ Len(tasks') = Len(tasks) /\ Len(tasks) \in Nat
      /\ \A u \in 1..Len(tasks) :
           /\ tasks'[u].active = tasks[u].active
           /\ tasks'[u].kind = IF u = rt.handle THEN kind ELSE tasks[u].kind
           /\ tasks'[u].n = IF u = rt.handle THEN n ELSE tasks[u].n
  BY SaidIs DEF TInv
<1>2. Settles
  BY <1>1 DEF Settles, EndKinds
<1>3. HandleOK'
  BY <1>1 DEF Reads, HandleOK
<1>4. rt.record # NoRecord /\ rt.record.kind = "candidate" => Concluded(rt.record.of)'
  BY <1>1, <1>2, ConcludedStays DEF Reads, ReadOK, TInv
<1>5. ReadOK'
  BY <1>4 DEF Reads, ReadOK
<1> QED
  BY <1>2, <1>3, <1>5 DEF Reads

LEMMA LocateReads ==
  ASSUME TInv, Reads, Locate
  PROVE  Reads' /\ Settles
<1> DEFINE found  == ActiveFor(Job.data)
           handle == IF found = {} THEN 0 ELSE CHOOSE t \in found : TRUE
           known  == found # {} /\ tasks[handle].kind # "empty"
           record == IF known THEN Record(handle) ELSE NoRecord
           job    == [Job EXCEPT !.pc = "acted"]
<1>1. /\ queue # <<>> /\ Job \in Jobs /\ Job.pc = "checked" /\ Job.op # "retract"
      /\ At("checked") /\ UNCHANGED tasks /\ Len(tasks) \in Nat
  BY QueueFacts, TaskFacts DEF TInv, Locate, At, Starts
<1>2. Job.seen \in Datas
  BY <1>1 DEF Reads, SeenOK
<1>3. handle # 0 => handle \in 1..Len(tasks) /\ tasks[handle].active
  BY ActiveForTyped DEF TInv
<1>4. /\ rt' = [rt EXCEPT !.identity = [version |-> Job.version, data |-> Job.data],
                          !.seen = Job.seen, !.handle = handle, !.record = record]
      /\ torn' = torn \ {handle}
      /\ known => Goto(job)
      /\ ~known => Post(Transient("intake_causal"))
  BY DEF Locate
<1>5. known => handle # 0 /\ Record(handle).of[1] = handle
               /\ Record(handle).kind = tasks[handle].kind
               /\ Record(handle).of[2] = tasks[handle].n
  <2>1. known => handle # 0
    BY ActiveForTyped DEF TInv
  <2> HIDE DEF handle, known
  <2> QED
    BY <2>1 DEF Record
<1>6. ~known /\ handle # 0 => tasks[handle].kind = "empty"
  BY DEF known
<1>7. record = IF known THEN Record(handle) ELSE NoRecord
  OBVIOUS
<1> HIDE DEF found, handle, known, record
<1>8. rt'.handle = handle /\ rt'.record = record /\ rt'.seen = Job.seen
  BY <1>4 DEF TInv, RtOK
<1>9. SeenOK' /\ (known => At("acted")')
  <2>1. CASE known
    <3>1. job \in Jobs /\ job.op = Job.op /\ job.pc = "acted" /\ job.seen = Job.seen
      BY <1>1 DEF Jobs
    <3>2. Goto(job)
      BY <1>4, <2>1
    <3> HIDE DEF job
    <3> QED
      BY <1>1, <1>2, <3>1, <3>2, GoingSeen
  <2>2. CASE ~known
    BY <1>1, <1>4, <2>2, EndingSeen DEF Post
  <2> QED
    BY <2>1, <2>2
<1>10. HandleOK'
  BY <1>1, <1>3, <1>8 DEF HandleOK
<1>11. ReadOK'
  <2>1. (Record(rt.handle))' = Record(handle)
    BY <1>1, <1>8 DEF Record
  <2>2. known /\ record.kind = "candidate" => Concluded(rt.record.of)'
    BY <1>1, <1>3, <1>5, <1>7, <1>8 DEF Concluded, EndKinds
  <2>3. record # NoRecord => known
    BY <1>7
  <2> QED
    BY <1>2, <1>5, <1>7, <1>8, <2>1, <2>2, <2>3 DEF ReadOK
<1>12. Settles
  <2> SUFFICES ASSUME NEW t \in 1..Len(tasks), tasks[t].kind \in EndKinds
               PROVE  t \notin torn' =>
                           \/ tasks'[t].kind = "candidate"
                           \/ tasks[t].kind = "retracted" /\ t \notin torn
                           \/ rt'.record.kind = "retracted" /\ At("acted")'
    BY <1>1 DEF Settles
  <2>1. CASE t # handle
    BY <1>1, <1>4, <2>1 DEF EndKinds
  <2>2. CASE t = handle
    <3>1. t # 0
      OBVIOUS
    <3>2. known
      BY <1>6, <2>2, <3>1 DEF EndKinds
    <3> QED
      BY <1>1, <1>5, <1>7, <1>8, <1>9, <2>2, <3>2 DEF EndKinds
  <2> QED
    BY <2>1, <2>2
<1> QED
  BY <1>9, <1>10, <1>11, <1>12 DEF Reads

LEMMA ClosedIs ==
  ASSUME TasksOK, NEW h \in 1..Len(tasks)
  PROVE  /\ Closed(h) \in Seq(Tasks) /\ Len(Closed(h)) = Len(tasks)
         /\ \A t \in 1..Len(tasks) :
              /\ Closed(h)[t].kind = tasks[t].kind /\ Closed(h)[t].n = tasks[t].n
              /\ t # h => Closed(h)[t].active = tasks[t].active
<1>1. Closed(h) \in Seq(Tasks) /\ Len(Closed(h)) = Len(tasks)
  BY Closing
<1>2. \A t \in 1..Len(tasks) :
        Closed(h)[t] = IF t = h THEN [tasks[h] EXCEPT !.active = FALSE] ELSE tasks[t]
  BY TaskFacts DEF Closed, TasksOK
<1>3. /\ [tasks[h] EXCEPT !.active = FALSE].kind = tasks[h].kind
      /\ [tasks[h] EXCEPT !.active = FALSE].n = tasks[h].n
  BY TaskFacts DEF Tasks
<1> QED
  BY <1>1, <1>2, <1>3

LEMMA StartReplanReads ==
  ASSUME TInv, Reads, StartReplan
  PROVE  Reads' /\ Settles
<1> DEFINE h      == rt.handle
           others == ActiveFor(Job.data) \ {h}
           Intake(t) == /\ rt' = [rt EXCEPT !.identity = [version |-> Job.version,
                                                          data |-> Job.data],
                                            !.seen = Job.seen, !.handle = t,
                                            !.record = NoRecord]
                        /\ Post(Transient("intake_causal"))
<1>1. queue # <<>> /\ Len(tasks) \in Nat /\ h \in 0..Len(tasks) /\ UNCHANGED torn
  <2>1. Len(tasks) \in Nat
    BY TaskFacts DEF TInv
  <2>2. h \in 0..Len(tasks)
    BY DEF TInv, RtOK
  <2> QED
    BY <2>1, <2>2 DEF StartReplan, At
<1>2. \E v : Post(v)
  BY DEF StartReplan
<1>3. SeenOK'
  BY <1>1, <1>2, EndingSeen DEF Post
<1>4. ASSUME NEW t, Intake(t), t = 0 \/ tasks'[t].active,
             Len(tasks) <= Len(tasks'),
             \A u \in 1..Len(tasks) : tasks'[u].kind = tasks[u].kind /\ tasks'[u].n = tasks[u].n
      PROVE  Reads' /\ Settles
  <2>1. rt'.handle = t /\ rt'.record = NoRecord
    BY <1>4 DEF TInv, RtOK
  <2>2. HandleOK' /\ ReadOK'
    BY <1>4, <2>1 DEF HandleOK, ReadOK
  <2>3. Settles
    BY <1>1, <1>4 DEF Settles, EndKinds
  <2> QED
    BY <1>3, <2>2, <2>3 DEF Reads
<1> HIDE DEF Intake
<1>5. CASE Intake(0) /\ UNCHANGED tasks
  BY <1>1, <1>4, <1>5
<1>6. ASSUME NEW t \in others, h # 0, Intake(t), tasks' = Closed(h)
      PROVE  Reads' /\ Settles
  <2>1. h \in 1..Len(tasks)
    BY <1>1, <1>6
  <2>2. t \in 1..Len(tasks) /\ tasks[t].active /\ t # h
    BY ActiveForTyped DEF TInv
  <2>3. /\ Len(tasks') = Len(tasks)
        /\ \A u \in 1..Len(tasks) : /\ tasks'[u].kind = tasks[u].kind
                                    /\ tasks'[u].n = tasks[u].n
                                    /\ u # h => tasks'[u].active = tasks[u].active
    BY <1>6, <2>1, ClosedIs DEF TInv
  <2> QED
    BY <1>1, <1>4, <1>6, <2>2, <2>3
<1>7. CASE h # 0 /\ Intake(Len(tasks) + 1) /\ tasks' = Append(Closed(h), NewTask(Job.data))
  <2>1. h \in 1..Len(tasks)
    BY <1>1, <1>7
  <2>2. /\ Closed(h) \in Seq(Tasks) /\ Len(Closed(h)) = Len(tasks)
        /\ \A u \in 1..Len(tasks) : /\ Closed(h)[u].kind = tasks[u].kind
                                    /\ Closed(h)[u].n = tasks[u].n
    BY <2>1, ClosedIs DEF TInv
  <2>3. /\ Len(tasks') = Len(tasks) + 1
        /\ \A u \in 1..Len(tasks) : tasks'[u] = Closed(h)[u]
        /\ tasks'[Len(tasks) + 1] = NewTask(Job.data)
    BY <1>7, <2>2, AppendIs
  <2>4. NewTask(Job.data).active
    BY DEF NewTask
  <2> HIDE DEF h
  <2>5. Len(tasks) <= Len(tasks')
    BY <1>1, <2>3
  <2>6. tasks'[Len(tasks) + 1].active
    BY <2>3, <2>4
  <2>7. \A u \in 1..Len(tasks) : tasks'[u].kind = tasks[u].kind /\ tasks'[u].n = tasks[u].n
    BY <2>2, <2>3
  <2> QED
    BY <1>4, <1>7, <2>5, <2>6, <2>7
<1>8. CASE UNCHANGED <<rt, tasks>>
  BY <1>1, <1>3, <1>8, KeepingReads DEF Reads
<1> QED
  BY <1>5, <1>6, <1>7, <1>8 DEF StartReplan, Closed, Intake

LEMMA CommitInitialReads ==
  ASSUME TInv, TInv', Reads, CommitInitial
  PROVE  Reads' /\ Settles
<1> DEFINE found == IF rt.handle # 0 THEN {rt.handle} ELSE ActiveFor(Job.data)
           fresh == Len(tasks) + 1
<1>1. /\ queue # <<>> /\ Job.op \in {"initial", "causal"} /\ At("checked") /\ TasksOK'
      /\ Len(tasks) \in Nat
  <2>1. Len(tasks) \in Nat /\ TasksOK'
    BY TaskFacts DEF TInv
  <2> QED
    BY <2>1 DEF CommitInitial, At
<1>2. rt.seen \in Datas
  BY <1>1 DEF Reads, SeenOK, At
<1>3. /\ \A t \in found : t \in 1..Len(tasks)
      /\ rt.handle \in 0..Len(tasks)
  BY ActiveForTyped DEF TInv, RtOK
<1>4. \A kind \in FirstDecisions : /\ kind \in RecordKinds
                                   /\ kind = "clarify" => 0 < Questions
  BY PlansAllow DEF FirstDecisions, RecordKinds, Decisions
<1>5. ASSUME NEW t \in found, NEW kind \in FirstDecisions, tasks[t].kind = "empty",
             tasks[t].active, Says(t, kind, 1, 0), Done(t, kind, 1)
      PROVE  Reads' /\ Settles
  <2>1. /\ Len(tasks') = Len(tasks)
        /\ \A u \in 1..Len(tasks) :
             /\ tasks'[u].active = tasks[u].active
             /\ tasks'[u].kind = IF u = t THEN kind ELSE tasks[u].kind
             /\ tasks'[u].n = IF u = t THEN 1 ELSE tasks[u].n
    BY <1>3, <1>4, <1>5, SaidIs, ResearchFlowAssumption DEF TInv
  <2>2. t \in 1..Len(tasks') /\ tasks'[t].active /\ tasks'[t].kind = kind /\ tasks'[t].n = 1
    BY <1>3, <1>5, <2>1
  <2>3. \A u \in 1..Len(tasks) : u # t => tasks'[u].kind = tasks[u].kind
                                           /\ tasks'[u].n = tasks[u].n
    BY <2>1
  <2>4. tasks[t].kind \notin EndKinds /\ Len(tasks) <= Len(tasks')
    BY <1>1, <1>5, <2>1 DEF EndKinds
  <2> HIDE DEF found
  <2> QED
    BY <1>1, <1>2, <1>5, <2>2, <2>3, <2>4, DoneReads
<1>6. ASSUME NEW kind \in FirstDecisions,
             tasks' = Append(tasks, [NewTask(Job.data) EXCEPT !.kind = kind, !.n = 1]),
             Done(fresh, kind, 1)
      PROVE  Reads' /\ Settles
  <2> DEFINE task == [NewTask(Job.data) EXCEPT !.kind = kind, !.n = 1]
  <2>1. task.active /\ task.kind = kind /\ task.n = 1
    BY DEF NewTask
  <2> HIDE DEF task
  <2>2. /\ Len(tasks') = Len(tasks) + 1
        /\ \A u \in 1..Len(tasks) : tasks'[u] = tasks[u]
        /\ tasks'[fresh] = task
    BY <1>6, AppendIs DEF TInv, TasksOK, task
  <2>3. fresh \in 1..Len(tasks') /\ fresh \notin 1..Len(tasks) /\ Len(tasks) <= Len(tasks')
    BY <1>1, <2>2
  <2> HIDE DEF fresh
  <2> QED
    BY <1>1, <1>2, <1>6, <2>1, <2>2, <2>3, DoneReads
<1>7. ASSUME NEW t \in found, rt' = [rt EXCEPT !.handle = t], Post(Transient("failure")),
             UNCHANGED <<tasks, torn>>
      PROVE  Reads' /\ Settles
  <2>1. rt'.handle = t /\ rt'.record = rt.record /\ rt'.seen = rt.seen
    BY <1>7 DEF TInv, RtOK
  <2>2. SeenOK'
    BY <1>1, <1>7, EndingSeen DEF Post
  <2>3. CASE rt.handle # 0
    BY <1>7, <2>1, <2>2, <2>3, KeepingReads DEF Reads
  <2>4. CASE rt.handle = 0
    <3>1. rt.record = NoRecord /\ tasks[t].active
      BY <1>7, <2>4, ActiveForTyped DEF TInv, RtOK
    <3>2. HandleOK' /\ ReadOK'
      BY <1>7, <2>1, <3>1 DEF HandleOK, ReadOK
    <3>3. Settles
      BY <1>1, <1>7 DEF Settles, EndKinds
    <3> QED
      BY <2>2, <3>2, <3>3 DEF Reads
  <2> QED
    BY <2>3, <2>4
<1> QED
  BY <1>5, <1>6, <1>7 DEF CommitInitial

\* A decision of the current ledger, which waits for one.
LEMMA DecidingReads ==
  ASSUME TInv, TInv', Reads, At("checked"), Current, rt.record.kind \notin EndKinds,
         NEW kind \in RecordKinds, NEW n \in Nat, NEW asked \in 0..Questions,
         kind = "clarify" => asked < Questions,
         Says(rt.handle, kind, n, asked), Done(rt.handle, kind, n)
  PROVE  Reads' /\ Settles
<1>1. /\ rt.handle \in 1..Len(tasks) /\ tasks[rt.handle].kind = rt.record.kind
      /\ tasks[rt.handle].active /\ TasksOK' /\ rt.record # NoRecord
  BY CurrentFacts DEF Current, TInv, NoRecord, NoDecision, Record
<1>2. rt.seen \in Datas
  BY <1>1 DEF Reads, ReadOK
<1>3. PICK t : t = rt.handle
  OBVIOUS
<1>4. /\ Len(tasks') = Len(tasks) /\ Len(tasks) \in Nat
      /\ \A u \in 1..Len(tasks) :
           /\ tasks'[u].active = tasks[u].active
           /\ tasks'[u].kind = IF u = t THEN kind ELSE tasks[u].kind
           /\ tasks'[u].n = IF u = t THEN n ELSE tasks[u].n
  BY <1>1, <1>3, SaidIs DEF TInv
<1>5. /\ t \in 1..Len(tasks') /\ tasks'[t].active /\ tasks'[t].kind = kind /\ tasks'[t].n = n
      /\ tasks[t].kind \notin EndKinds /\ Len(tasks) <= Len(tasks')
      /\ Done(t, kind, n)
  BY <1>1, <1>3, <1>4
<1>6. \A u \in 1..Len(tasks) : u # t => tasks'[u].kind = tasks[u].kind
                                         /\ tasks'[u].n = tasks[u].n
  BY <1>4
<1> QED
  BY <1>1, <1>2, <1>5, <1>6, DoneReads

LEMMA CommitAnswerReads ==
  ASSUME TInv, TInv', Reads, CommitAnswer
  PROVE  Reads' /\ Settles
<1> DEFINE n == tasks[rt.handle].n + 1
           asked == tasks[rt.handle].asked + 1
<1>1. At("checked") /\ Current /\ rt.record.kind = "clarify"
  BY DEF CommitAnswer, Asks
<1>2. n \in Nat /\ asked \in 0..Questions
  BY <1>1, CurrentFacts
<1>3. PICK kind \in Plans(asked) : Says(rt.handle, kind, n, asked) /\ Done(rt.handle, kind, n)
  BY DEF CommitAnswer
<1> HIDE DEF n, asked
<1>4. kind \in RecordKinds /\ (kind = "clarify" => asked < Questions)
  BY PlansAllow DEF RecordKinds
<1>5. rt.record.kind \notin EndKinds
  BY <1>1 DEF EndKinds
<1> QED
  BY <1>1, <1>2, <1>3, <1>4, <1>5, DecidingReads

LEMMA ResumePendingReads ==
  ASSUME TInv, TInv', Reads, ResumePending
  PROVE  Reads' /\ Settles
<1> DEFINE n == tasks[rt.handle].n + 1
           asked == tasks[rt.handle].asked
<1>1. At("checked") /\ Current /\ rt.record.kind = "pending"
  BY DEF ResumePending
<1>2. n \in Nat /\ asked \in 0..Questions
  BY <1>1, CurrentFacts DEF Tasks
<1>3. PICK kind \in Plans(asked) : Says(rt.handle, kind, n, asked) /\ Done(rt.handle, kind, n)
  BY DEF ResumePending
<1> HIDE DEF n, asked
<1>4. kind \in RecordKinds /\ (kind = "clarify" => asked < Questions)
  BY PlansAllow DEF RecordKinds
<1>5. rt.record.kind \notin EndKinds
  BY <1>1 DEF EndKinds
<1> QED
  BY <1>1, <1>2, <1>3, <1>4, <1>5, DecidingReads

LEMMA RetractCurrentReads ==
  ASSUME TInv, TInv', Reads, RetractCurrent
  PROVE  Reads' /\ Settles
<1>1. PICK t : t = rt.handle
  OBVIOUS
<1> DEFINE n == tasks[t].n
           asked == tasks[t].asked
<1>2. /\ At("checked") /\ Job.op = "retract" /\ TasksOK' /\ Len(tasks) \in Nat
      /\ Says(t, "retracted", n, asked) /\ Done(t, "retracted", n) /\ tasks[t].active
  BY <1>1, TaskFacts DEF RetractCurrent, TInv
<1>3. rt.record.kind \in Decisions
  BY <1>2 DEF TInv, HeadOK, At
<1>4. rt.record # NoRecord /\ t \in 1..Len(tasks)
  BY <1>1, <1>3, TaskFacts DEF TInv, RtOK, NoRecord, Decisions
<1>5. n \in Nat /\ asked \in 0..Questions
  BY <1>4, TaskFacts DEF TInv, Tasks
<1>6. rt.seen \in Datas
  BY <1>4 DEF Reads, ReadOK
<1>7. \E m \in Nat : m = n
  BY <1>5
<1>8. PICK m \in Nat : m = n
  BY <1>7
<1>9. "retracted" \in RecordKinds /\ Says(t, "retracted", m, asked) /\ Done(t, "retracted", m)
  BY <1>2, <1>8 DEF RecordKinds
<1> HIDE DEF asked
<1>10. /\ Len(tasks') = Len(tasks)
       /\ \A u \in 1..Len(tasks) :
            /\ tasks'[u].active = tasks[u].active
            /\ tasks'[u].kind = IF u = t THEN "retracted" ELSE tasks[u].kind
            /\ tasks'[u].n = IF u = t THEN m ELSE tasks[u].n
  BY <1>4, <1>5, <1>9, SaidIs DEF TInv
<1>11. /\ t \in 1..Len(tasks') /\ tasks'[t].active /\ tasks'[t].kind = "retracted"
       /\ tasks'[t].n = m /\ Len(tasks) <= Len(tasks')
  BY <1>2, <1>4, <1>10
<1>12. \A u \in 1..Len(tasks) : u # t => tasks'[u].kind = tasks[u].kind
                                          /\ tasks'[u].n = tasks[u].n
  BY <1>10
<1> QED
  BY <1>2, <1>6, <1>8, <1>9, <1>11, <1>12, DoneReads

\* What a failed job has written of a decision.
LEMMA UnfinishedReads ==
  ASSUME TInv, Reads, SeenOK', rt.handle \in 1..Len(tasks),
         tasks[rt.handle].kind \notin EndKinds,
         NEW kinds, NEW asked \in 0..Questions,
         \A kind \in kinds : kind \in RecordKinds /\ (kind = "clarify" => asked < Questions),
         Unfinished(rt.handle, kinds, asked), rt' = rt, torn' = torn \union {rt.handle}
  PROVE  Reads' /\ Settles
<1>1. PICK kind \in {"pending"} \union kinds :
        Says(rt.handle, kind, IF kind = "pending" THEN tasks[rt.handle].n
                              ELSE tasks[rt.handle].n + 1, asked)
  BY DEF Unfinished
<1> DEFINE n == IF kind = "pending" THEN tasks[rt.handle].n ELSE tasks[rt.handle].n + 1
<1>2. n \in Nat
  BY TaskFacts DEF TInv, Tasks
<1>3. kind \in RecordKinds /\ (kind = "clarify" => asked < Questions)
  BY DEF RecordKinds
<1>4. PICK m \in Nat : m = n
  BY <1>2
<1>5. Says(rt.handle, kind, m, asked)
  BY <1>1, <1>4
<1> HIDE DEF n
<1> QED
  BY <1>3, <1>5, TornReads

LEMMA FailsAfterWritingReads ==
  ASSUME TInv, Reads, At("checked"), FailsAfterWriting, SeenOK'
  PROVE  Reads' /\ Settles
<1> DEFINE h == rt.handle
<1>1. h \in 0..Len(tasks) /\ Len(tasks) \in Nat
  BY TaskFacts DEF TInv, RtOK
<1>2. CASE /\ Job.op = "answer" /\ Asks /\ rt' = rt /\ torn' = torn \union {h}
           /\ LET asked == tasks[h].asked + 1 IN Unfinished(h, Plans(asked), asked)
  <2> DEFINE asked == tasks[h].asked + 1
  <2>1. h \in 1..Len(tasks) /\ asked \in 0..Questions /\ tasks[h].kind = "clarify"
    BY <1>2, CurrentFacts DEF Asks
  <2>2. Unfinished(h, Plans(asked), asked)
    BY <1>2
  <2> HIDE DEF asked
  <2>3. \A kind \in Plans(asked) :
          kind \in RecordKinds /\ (kind = "clarify" => asked < Questions)
    BY PlansAllow DEF RecordKinds
  <2>4. tasks[h].kind \notin EndKinds
    BY <2>1 DEF EndKinds
  <2> QED
    BY <1>2, <2>1, <2>2, <2>3, <2>4, UnfinishedReads
<1>3. CASE /\ rt.record.kind = "pending" /\ Current /\ rt' = rt /\ torn' = torn \union {h}
           /\ LET asked == tasks[h].asked IN Unfinished(h, Plans(asked), asked)
  <2> DEFINE asked == tasks[h].asked
  <2>1. h \in 1..Len(tasks) /\ asked \in 0..Questions /\ tasks[h].kind = "pending"
    BY <1>3, CurrentFacts DEF Tasks
  <2>2. Unfinished(h, Plans(asked), asked)
    BY <1>3
  <2> HIDE DEF asked
  <2>3. \A kind \in Plans(asked) :
          kind \in RecordKinds /\ (kind = "clarify" => asked < Questions)
    BY PlansAllow DEF RecordKinds
  <2>4. tasks[h].kind \notin EndKinds
    BY <2>1 DEF EndKinds
  <2> QED
    BY <1>3, <2>1, <2>2, <2>3, <2>4, UnfinishedReads
<1>4. CASE /\ Current /\ rt' = rt /\ torn' = torn \union {h}
           /\ Says(h, "retracted", tasks[h].n, tasks[h].asked)
  <2>1. h \in 1..Len(tasks) /\ tasks[h].n \in Nat /\ tasks[h].asked \in 0..Questions
    BY <1>4, CurrentFacts DEF Tasks
  <2>2. "retracted" \in RecordKinds
    BY DEF RecordKinds
  <2>3. PICK m \in Nat : m = tasks[h].n
    BY <2>1
  <2>4. Says(h, "retracted", m, tasks[h].asked)
    BY <1>4, <2>3
  <2> QED
    BY <1>4, <2>1, <2>2, <2>3, <2>4, TornReads
<1>5. CASE /\ h # 0 /\ tasks[h].kind = "empty" /\ Unfinished(h, FirstDecisions, 0)
           /\ rt' = rt /\ torn' = torn \union {h}
  <2>1. \A kind \in FirstDecisions : /\ kind \in RecordKinds
                                     /\ kind = "clarify" => 0 < Questions
    BY PlansAllow DEF FirstDecisions, RecordKinds, Decisions
  <2>2. h \in 1..Len(tasks) /\ 0 \in 0..Questions
    BY <1>1, <1>5, ResearchFlowAssumption
  <2>3. tasks[h].kind \notin EndKinds
    BY <1>5 DEF EndKinds
  <2> QED
    BY <1>5, <2>1, <2>2, <2>3, UnfinishedReads
<1>6. CASE /\ h = 0 /\ tasks' = Append(tasks, NewTask(Job.data))
           /\ rt' \in {rt, [rt EXCEPT !.handle = Len(tasks) + 1]}
           /\ torn' = torn \union {Len(tasks) + 1}
  <2>1. /\ Len(tasks') = Len(tasks) + 1
        /\ \A u \in 1..Len(tasks) : tasks'[u] = tasks[u]
        /\ tasks'[Len(tasks) + 1] = NewTask(Job.data)
    BY <1>6, AppendIs DEF TInv, TasksOK
  <2>2. NewTask(Job.data).active
    BY DEF NewTask
  <2>3. rt.record = NoRecord
    BY <1>6 DEF TInv, RtOK
  <2>4. rt'.record = NoRecord /\ rt'.handle \in {0, Len(tasks) + 1}
    BY <1>6, <2>3 DEF TInv, RtOK
  <2>5. HandleOK'
    BY <2>1, <2>2, <2>4 DEF HandleOK
  <2>6. ReadOK'
    BY <2>4 DEF ReadOK
  <2>7. Settles
    <3>1. Len(tasks) <= Len(tasks')
      BY <1>1, <2>1
    <3> QED
      BY <1>6, <2>1, <3>1 DEF Settles, EndKinds
  <2> QED
    BY <2>5, <2>6, <2>7 DEF Reads
<1> QED
  BY <1>2, <1>3, <1>4, <1>5, <1>6 DEF FailsAfterWriting

LEMMA WorkerReads ==
  ASSUME TInv, TInv', Reads, Worker
  PROVE  Reads' /\ Settles
<1>1. CASE FailJob
  <2>1. queue # <<>> /\ queue' = Tail(queue)
    BY <1>1 DEF FailJob, Post
  <2>2. SeenOK'
    BY <2>1, EndingSeen
  <2> QED
    BY <1>1, <2>2, LookingReads, FailsAfterWritingReads DEF FailJob, FailsAfterWriting
<1> QED
  BY <1>1, CaptureReads, CheckReads, LocateReads, StartReplanReads, CommitInitialReads,
     CommitAnswerReads, ResumePendingReads, RetractCurrentReads, LookingReads DEF Worker

------------------------------------------------------------------------------
(* What is shown, and the record.                                           *)

\* A decision that is ready to be prepared was recommended, and is for ever, unless it
\* is retracted.
Candidate(v) == v.state = "candidate_ready" => Concluded(v.of) /\ Datas \ Blocked # {}

\* What ShownIsRecorded and ReviewIsCurrent say of a view.
Tells(v) ==
  v.of[1] \notin torn =>
    /\ v.of[1] \in 1..Len(tasks) /\ tasks[v.of[1]].kind \in RecordKinds
    /\ v.of = Record(v.of[1]).of
    /\ v.state \in Durable => \E d \in Datas : v.state = StateOf(tasks[v.of[1]].kind, d)
    /\ v.state = "prepare_review" => tasks[v.of[1]].active /\ tasks[v.of[1]].kind = "candidate"

\* A result that has been made from the record that the runtime still has.
Made(v) ==
  v.state \in Shown =>
    /\ rt.record # NoRecord /\ v.of = rt.record.of
    /\ v.state \in Durable => \E d \in Datas : v.state = StateOf(rt.record.kind, d)
    /\ v.state = "prepare_review" => rt.record.kind = "candidate"

\* The decision at hand is retracted, and no job that is under way can make another or
\* prepare this one.
Doomed ==
  /\ rt.record.kind = "retracted"
  /\ \A i \in 1..Len(queue) : queue[i].run # 0 =>
       /\ queue[i].pc # "checked"
       /\ Waits(queue[i]) => queue[i].run \in cancelled \/ queue[i].op \in {"prepare", "retract"}

Stands(v) ==
  v.state = "candidate_ready" /\ v.of[1] \notin torn =>
    tasks[v.of[1]].kind = "candidate" \/ Doomed

CandidatesOK ==
  /\ Candidate(view) /\ Candidate(previous)
  /\ \A i \in 1..Len(posted) : Candidate(posted[i].view)

MadeOK == \A i \in 1..Len(posted) : posted[i].run = run => Made(posted[i].view)

\* What is shown for good tells what its ledger says, and so does what a preparation
\* that is discarded goes back to.
ShownOK ==
  /\ view.state \in Shown /\ ~Live => Tells(view)
  /\ view.state = "prepare_review" /\ review /\ previous.state = "candidate_ready"
       => Tells(previous)

\* While a command is under way, what it was given from stands, or its result will not
\* be a preparation.
StandsOK == Live => Stands(view) /\ Stands(previous)

RInv == Reads /\ CandidatesOK /\ MadeOK /\ ShownOK /\ StandsOK

------------------------------------------------------------------------------
LEMMA CandidateKind ==
  ASSUME NEW kind \in RecordKinds, NEW d
  PROVE  /\ StateOf(kind, d) \in Durable
         /\ StateOf(kind, d) # "prepare_review"
         /\ StateOf(kind, d) = "candidate_ready" => kind = "candidate" /\ d \notin Blocked
  BY DEF StateOf, Durable, RecordKinds, Decisions

\* What is made from the record at hand tells what the ledger says.
LEMMA MadeTells ==
  ASSUME HandleOK, ReadOK, TInv, NEW v, Made(v), v.state \in Shown
  PROVE  Tells(v)
<1>1. /\ rt.record # NoRecord /\ v.of = rt.record.of /\ rt.record.of[1] = rt.handle
      /\ rt.handle \notin torn => Record(rt.handle) = rt.record
  BY DEF Made, ReadOK
<1>2. rt.handle \in 1..Len(tasks) /\ tasks[rt.handle].active
  BY <1>1, TaskFacts DEF TInv, RtOK, HandleOK
<1>3. rt.handle \notin torn =>
        tasks[rt.handle].kind = rt.record.kind /\ Record(rt.handle).of = rt.record.of
  BY <1>1 DEF Record
<1>4. rt.record.kind \in RecordKinds
  BY <1>1 DEF TInv, RtOK, Records
<1> QED
  BY <1>1, <1>2, <1>3, <1>4 DEF Tells, Made

\* The view of the record.
LEMMA RecordMade ==
  ASSUME TInv, ReadOK, rt.record # NoRecord, NEW n, NEW v,
         v = RecordView(rt.record, rt.identity, rt.seen, n)
  PROVE  Made(v) /\ Candidate(v) /\ v.state # "prepare_review"
<1>1. rt.record.kind \in RecordKinds
  BY DEF TInv, RtOK, Records
<1>2. CASE v = Transient("replan_required")
  <2>1. v.state = "replan_required"
    BY <1>2 DEF Transient
  <2>2. v.state \notin Shown
    BY <2>1 DEF Shown, Durable
  <2> QED
    BY <2>1, <2>2 DEF Made, Candidate
<1>3. CASE v = [state |-> StateOf(rt.record.kind, rt.seen), of |-> rt.record.of, version |-> n]
  <2>1. v.state = StateOf(rt.record.kind, rt.seen) /\ v.of = rt.record.of
    BY <1>3
  <2>2. rt.seen \in Datas /\ (rt.record.kind = "candidate" => Concluded(rt.record.of))
    BY DEF ReadOK
  <2>3. Made(v) /\ v.state # "prepare_review"
    BY <1>1, <2>1, <2>2, CandidateKind DEF Made
  <2>4. Candidate(v)
    BY <1>1, <2>1, <2>2, CandidateKind DEF Candidate
  <2> QED
    BY <2>3, <2>4
<1> QED
  BY <1>2, <1>3 DEF RecordView

\* What a decision that stands tells.
LEMMA StandingTells ==
  ASSUME NEW v \in Views, v.state = "candidate_ready", Candidate(v),
         v.of[1] \notin torn => tasks[v.of[1]].kind = "candidate"
  PROVE  Tells(v)
<1>1. v.of = <<v.of[1], v.of[2]>>
  BY DEF Views
<1>2. v.of[1] \in 1..Len(tasks) /\ tasks[v.of[1]].n = v.of[2]
  BY DEF Candidate, Concluded
<1>3. v.of = Record(v.of[1]).of
  BY <1>1, <1>2 DEF Record
<1>4. PICK d \in Datas : d \notin Blocked
  BY DEF Candidate
<1>5. StateOf("candidate", d) = "candidate_ready"
  BY <1>4 DEF StateOf
<1> QED
  BY <1>2, <1>3, <1>4, <1>5 DEF Tells, RecordKinds, Decisions

\* ... and the other way round.
LEMMA TellingStands ==
  ASSUME TInv, NEW v, v.state = "candidate_ready", Tells(v)
  PROVE  v.of[1] \notin torn => tasks[v.of[1]].kind = "candidate"
<1> SUFFICES ASSUME v.of[1] \notin torn PROVE tasks[v.of[1]].kind = "candidate"
  OBVIOUS
<1>1. /\ tasks[v.of[1]].kind \in RecordKinds
      /\ \E d \in Datas : v.state = StateOf(tasks[v.of[1]].kind, d)
  BY DEF Tells, Durable
<1> QED
  BY <1>1, CandidateKind

------------------------------------------------------------------------------
(* The worker.                                                              *)

\* Only what is published shows a decision.
LEMMA WorkerPosts ==
  ASSUME TInv, Reads, Worker
  PROVE  \/ UNCHANGED posted
         \/ \E v : Post(v) /\ (v.state \in Shown => /\ UNCHANGED <<rt, tasks>>
                                                     /\ Made(v) /\ Candidate(v))
<1>1. CASE \E state \in {"failure", "corruption", "cancelled", "replan_required",
                         "intake_causal"} : Post(Transient(state))
  BY <1>1 DEF Transient, Shown, Durable
<1>2. CASE Publish
  <2> DEFINE shown == RecordView(rt.record, rt.identity, rt.seen, rt.identity.version)
             v == IF Job.op = "prepare" /\ shown.state = "candidate_ready"
                    THEN [shown EXCEPT !.state = "prepare_review"] ELSE shown
  <2>1. /\ queue # <<>> /\ Job.pc = "acted" /\ Post(v) /\ UNCHANGED <<rt, tasks>>
        /\ rt.record # NoRecord
    BY <1>2 DEF Publish, At, TInv, HeadOK
  <2>2. Made(shown) /\ Candidate(shown) /\ shown.state # "prepare_review"
    BY <2>1, RecordMade DEF Reads
  <2>3. CASE v = shown
    BY <2>1, <2>2, <2>3
  <2>4. CASE /\ Job.op = "prepare" /\ shown.state = "candidate_ready"
             /\ v = [shown EXCEPT !.state = "prepare_review"]
    <3>1. shown \in Views
      <4>1. rt.identity.version \in 1..MaxVersion \cup {0}
        BY ResearchFlowAssumption DEF TInv, RtOK, Identities
      <4> QED
        BY <2>1, <4>1, RecordViewTyped DEF TInv
    <3> HIDE DEF shown
    <3>2. v.state = "prepare_review" /\ v.of = shown.of
      BY <2>4, <3>1 DEF Views
    <3>3. rt.record.kind = "candidate" /\ rt.record # NoRecord
      BY <2>1, <2>4 DEF TInv, HeadOK
    <3>4. shown.of = rt.record.of
      BY <2>2, <2>4 DEF Made, Shown, Durable
    <3>5. Made(v) /\ Candidate(v)
      BY <3>2, <3>3, <3>4 DEF Made, Candidate, Durable
    <3> QED
      BY <2>1, <3>5
  <2> QED
    BY <2>3, <2>4
<1>3. CASE ReviewMeanings
  <2> DEFINE v == [state |-> "variable_meaning_review", of |-> NoDecision,
                   version |-> Job.version]
  <2>1. Post(v) /\ v.state \notin Shown
    BY <1>3 DEF ReviewMeanings, Shown, Durable
  <2> QED
    BY <2>1
<1>4. CASE Capture \/ Check \/ Locate \/ StartReplan \/ CommitInitial \/ Conflict \/ FailJob
  BY <1>1, <1>4 DEF Capture, Check, Locate, StartReplan, CommitInitial, Conflict, FailJob,
                    Failures, Goto, Done
<1>5. CASE CommitAnswer \/ ResumePending \/ RetractCurrent \/ PrepareCandidate \/ Recompute
  BY <1>5 DEF CommitAnswer, ResumePending, RetractCurrent, PrepareCandidate, Recompute, Goto,
              Done
<1> QED
  BY <1>2, <1>3, <1>4, <1>5 DEF Worker

\* When the run of the controller has been answered, the worker does nothing else.
LEMMA RestingWorker ==
  ASSUME TInv, OInv, OnlyReruns, Worker
  PROVE  UNCHANGED <<rt, tasks, torn, posted>>
<1>1. queue # <<>>
  BY DEF Worker, Capture, Check, Locate, StartReplan, CommitInitial, CommitAnswer, ResumePending,
         RetractCurrent, Conflict, ReviewMeanings, PrepareCandidate, Publish, FailJob,
         FailsAfterWriting, Recompute, At
<1>2. 1 \in 1..Len(queue) /\ Job = queue[1]
  BY <1>1, QueueFacts DEF TInv
<1>3. Job.op = "rerun" /\ Job.run = 0
  BY <1>2 DEF OnlyReruns, OInv, RunsOK
<1>4. ~At("captured") /\ ~At("checked") /\ ~At("acted")
  BY <1>3 DEF TInv, HeadOK, At
<1>5. Recompute
  BY <1>3, <1>4 DEF Worker, Capture, Check, Locate, StartReplan, CommitInitial, CommitAnswer,
         ResumePending, RetractCurrent, Conflict, ReviewMeanings, PrepareCandidate, Publish,
         FailJob
<1> QED
  BY <1>5 DEF Recompute, history

\* A retracted decision that no job can replace stays one.
LEMMA DoomedStays ==
  ASSUME TInv, OInv, Worker, Doomed, rt.record.kind = "retracted"
  PROVE  Doomed'
<1>1. queue # <<>>
  BY DEF Worker, Capture, Check, Locate, StartReplan, CommitInitial, CommitAnswer, ResumePending,
         RetractCurrent, Conflict, ReviewMeanings, PrepareCandidate, Publish, FailJob,
         FailsAfterWriting, Recompute, At
<1>2. 1 \in 1..Len(queue) /\ Job = queue[1] /\ Job \in Jobs /\ Len(queue) \in Nat
  BY <1>1, QueueFacts DEF TInv
<1>3. Job.op = "rerun" <=> Job.run = 0
  BY <1>2 DEF OInv, RunsOK
<1>4. ~At("checked")
  BY <1>2, <1>3 DEF Doomed, TInv, HeadOK, At
<1>5. Job.op # "rerun" /\ Waits(Job) => Job.run \in cancelled \/ Job.op \in {"prepare", "retract"}
  BY <1>2, <1>3 DEF Doomed
<1>6. ASSUME UNCHANGED <<rt, cancelled>>, queue' = Tail(queue)
      PROVE  Doomed'
  <2>1. /\ Len(queue') = Len(queue) - 1
        /\ \A i \in 1..Len(queue') : queue'[i] = queue[i + 1] /\ i + 1 \in 1..Len(queue)
    BY <1>1, <1>2, <1>6, HeadTailProperties DEF TInv, QueueOK
  <2> QED
    BY <1>6, <2>1 DEF Doomed, Waits
<1>7. CASE Capture
  <2>1. Job.op # "rerun" /\ UNCHANGED cancelled /\ Job.pc = "queued"
    BY <1>7 DEF Capture, WorkerOnly, controller, At
  <2>2. CASE Refused
    BY <1>6, <1>7, <2>1, <2>2 DEF Capture, Post
  <2>3. CASE ~Refused
    <3>1. Job.op \notin {"prepare", "retract"}
      BY <2>3 DEF Refused, Decisions
    <3>2. Job.run \in cancelled
      BY <1>5, <2>1, <3>1 DEF Waits
    <3>3. CASE UNCHANGED rt /\ \E v : Post(v)
      BY <1>6, <2>1, <3>3 DEF Post
    <3>4. CASE /\ Goto([Job EXCEPT !.pc = "captured", !.data = Identity.data, !.seen = data])
               /\ rt' = [rt EXCEPT !.cache = Identity]
      <4> DEFINE job == [Job EXCEPT !.pc = "captured", !.data = Identity.data, !.seen = data]
      <4>1. job \in Jobs /\ job.run = Job.run /\ job.pc = "captured"
        BY <1>1, <1>2, IdentityTyped DEF Jobs, TInv, PipelineOK
      <4>2. Goto(job) /\ rt'.record = rt.record
        BY <3>4 DEF TInv, RtOK
      <4> HIDE DEF job
      <4>3. /\ Len(queue') = Len(queue) /\ queue'[1] = job
            /\ \A i \in 2..Len(queue) : queue'[i] = queue[i]
        BY <1>1, <4>1, <4>2, Going DEF TInv
      <4>4. ASSUME NEW i \in 1..Len(queue'), queue'[i].run # 0
            PROVE  /\ queue'[i].pc # "checked"
                   /\ Waits(queue'[i]) => queue'[i].run \in cancelled
                                            \/ queue'[i].op \in {"prepare", "retract"}
        <5>1. CASE i = 1
          BY <3>2, <4>1, <4>3, <5>1
        <5>2. CASE i \in 2..Len(queue)
          BY <4>3, <4>4, <5>2 DEF Doomed
        <5> QED
          BY <1>2, <4>3, <5>1, <5>2
      <4> QED
        BY <2>1, <4>2, <4>4 DEF Doomed, Waits
    <3> QED
      BY <1>7, <2>3, <3>1, <3>3, <3>4 DEF Capture
  <2> QED
    BY <2>2, <2>3
<1>8. CASE Check
  <2>1. Job.op # "rerun" /\ UNCHANGED cancelled /\ Job.pc = "captured"
    BY <1>1, <1>8 DEF Check, WorkerOnly, controller, At, TInv, HeadOK
  <2>2. Job.op \notin {"prepare", "retract"}
    BY <1>1, <2>1 DEF TInv, HeadOK, Decisions
  <2>3. Job.run \in cancelled
    BY <1>5, <2>1, <2>2 DEF Waits
  <2> QED
    BY <1>6, <1>8, <2>1, <2>3 DEF Check, Post
<1>9. CASE Publish \/ FailJob \/ Recompute
  <2>1. ~FailsAfterWriting
    BY <1>4 DEF FailsAfterWriting
  <2> QED
    BY <1>6, <1>9, <2>1 DEF Publish, FailJob, Recompute, Post, WorkerOnly, controller
<1> QED
  BY <1>4, <1>7, <1>8, <1>9 DEF Worker, Locate, StartReplan, CommitInitial, CommitAnswer,
     ResumePending, RetractCurrent, Conflict, ReviewMeanings, PrepareCandidate

\* When a job has just read or made a retraction, what waits behind it is cancelled, or
\* was given from the candidate and can only prepare or retract it.
LEMMA RetractedDooms ==
  ASSUME TInv', FInv', At("acted")', rt'.record.kind = "retracted",
         busy' => previous'.state = "candidate_ready"
  PROVE  Doomed'
<1>1. /\ queue' # <<>> /\ Job'.pc = "acted" /\ Len(queue') \in Nat
      /\ Job' = queue'[1] /\ \A i \in 2..Len(queue') : queue'[i].pc = "queued"
  <2>1. queue' # <<>> /\ Job'.pc = "acted"
    BY DEF At
  <2>2. queue' \in Seq(Jobs) /\ \A i \in 2..Len(queue') : queue'[i].pc = "queued"
    BY DEF TInv, QueueOK
  <2>3. Job' = queue'[1] /\ Len(queue') \in Nat
    BY <2>1, <2>2, HeadTailProperties, LenProperties DEF Job
  <2> QED
    BY <2>1, <2>2, <2>3
<1>2. ASSUME NEW i \in 1..Len(queue'), queue'[i].run # 0
      PROVE  /\ queue'[i].pc # "checked"
             /\ Waits(queue'[i]) => queue'[i].run \in cancelled'
                                      \/ queue'[i].op \in {"prepare", "retract"}
  <2>1. CASE i = 1
    BY <1>1, <2>1 DEF Waits
  <2>2. CASE i # 1
    <3>1. i \in 2..Len(queue')
      BY <1>1, <2>2
    <3>2. queue'[i].pc = "queued"
      BY <1>1, <3>1
    <3>3. Waits(queue'[i])
      BY <3>2 DEF Waits
    <3>4. queue'[i].run \in cancelled' \/ (busy' /\ queue'[i].run = run')
      BY <1>2, <3>2 DEF FInv, CancelledOK, Waits
    <3>5. busy' => (queue'[i].run = run' => queue'[i].op \in {"prepare", "retract"})
      BY <1>2 DEF FInv, CancelledOK
    <3> QED
      BY <3>2, <3>4, <3>5
  <2> QED
    BY <2>1, <2>2
<1> QED
  BY <1>2 DEF Doomed, Waits

\* What a decision stands on after a step of the worker.
LEMMA WorkerStands ==
  ASSUME TInv, TInv', OInv, FInv', Reads, Worker, Settles, NEW v, Candidate(v),
         v.state = "candidate_ready" => Stands(v),
         busy' => previous'.state = "candidate_ready"
  PROVE  Stands(v)'
<1> SUFFICES ASSUME v.state = "candidate_ready", v.of[1] \notin torn',
                    tasks'[v.of[1]].kind # "candidate"
             PROVE  Doomed'
  BY DEF Stands
<1>1. v.of[1] \in 1..Len(tasks) /\ tasks[v.of[1]].kind \in EndKinds
  BY DEF Candidate, Concluded
<1>2. \/ tasks[v.of[1]].kind = "retracted" /\ v.of[1] \notin torn
      \/ rt'.record.kind = "retracted" /\ At("acted")'
  BY <1>1 DEF Settles
<1>3. CASE tasks[v.of[1]].kind = "retracted" /\ v.of[1] \notin torn
  <2>1. Doomed
    BY <1>3 DEF Stands
  <2> QED
    BY <2>1, DoomedStays DEF Doomed
<1>4. CASE rt'.record.kind = "retracted" /\ At("acted")'
  BY <1>4, RetractedDooms
<1> QED
  BY <1>2, <1>3, <1>4

LEMMA WorkerKeepsRecords ==
  ASSUME TInv, TInv', OInv, FInv, FInv', RInv, Worker
  PROVE  RInv'
<1>1. Reads' /\ Settles
  BY WorkerReads DEF RInv
<1>2. /\ UNCHANGED <<view, previous, busy, run, review, version>>
      /\ Live' <=> Live
  BY WorkerMoves, MovingIsLive DEF Moves
<1>3. \A v : Candidate(v) => Candidate(v)'
  <2> SUFFICES ASSUME NEW v, Candidate(v), v.state = "candidate_ready"
               PROVE  Concluded(v.of)' /\ Datas \ Blocked # {}
    BY DEF Candidate
  <2>1. Len(tasks') \in Nat /\ TasksOK
    BY TaskFacts DEF TInv, TasksOK
  <2> QED
    BY <1>1, <2>1, ConcludedStays DEF Candidate
<1>4. PICK w, u : w = view /\ u = previous
  OBVIOUS
<1>5. view' = w /\ previous' = u
  BY <1>2, <1>4
<1>6. /\ Len(posted) \in Nat
      /\ \/ UNCHANGED posted
         \/ \E v : /\ Len(posted') = Len(posted) + 1
                   /\ \A i \in 1..Len(posted) : posted'[i] = posted[i]
                   /\ posted'[Len(posted) + 1].view = v
                   /\ v.state \in Shown => UNCHANGED <<rt, tasks>> /\ Made(v) /\ Candidate(v)
  <2>1. ASSUME NEW v, Post(v)
        PROVE  /\ Len(posted') = Len(posted) + 1
               /\ \A i \in 1..Len(posted) : posted'[i] = posted[i]
               /\ posted'[Len(posted) + 1].view = v
    <3> DEFINE result == [run |-> Job.run, version |-> Job.version, view |-> v]
    <3>1. posted' = Append(posted, result) /\ result.view = v
      BY <2>1 DEF Post
    <3> HIDE DEF result
    <3> QED
      BY <3>1, AppendIs DEF TInv, PostedOK
  <2> QED
    BY <2>1, WorkerPosts, RunNumbers DEF RInv
<1>7. CandidatesOK'
  <2>1. Candidate(w)' /\ Candidate(u)'
    BY <1>3, <1>4 DEF RInv, CandidatesOK
  <2>2. ASSUME NEW i \in 1..Len(posted') PROVE Candidate(posted[i].view)'
    <3>1. \E c : c = posted'[i].view /\ Candidate(c)
      <4>1. CASE i \in 1..Len(posted) /\ posted'[i] = posted[i]
        BY <4>1 DEF RInv, CandidatesOK
      <4>2. ASSUME NEW v, v.state \in Shown => Candidate(v), posted'[i].view = v
            PROVE  Candidate(v)
        BY <4>2 DEF Candidate, Shown, Durable
      <4> QED
        BY <1>6, <4>1, <4>2
    <3>2. PICK c : c = posted'[i].view /\ Candidate(c)
      BY <3>1
    <3>3. Candidate(c)'
      BY <1>3, <3>2
    <3> QED
      BY <3>2, <3>3 DEF Candidate
  <2> QED
    BY <1>5, <2>1, <2>2 DEF CandidatesOK
<1>8. MadeOK'
  <2> SUFFICES ASSUME NEW i \in 1..Len(posted'), posted'[i].run = run
               PROVE  Made(posted[i].view)'
    BY <1>2 DEF MadeOK
  <2>1. CASE i \in 1..Len(posted) /\ posted'[i] = posted[i]
    <3>1. OnlyReruns
      <4>1. \A j \in 1..Len(queue) : queue[j].run # 0 => run < queue[j].run /\ queue[j].run <= run
        BY <2>1 DEF FInv, RunsInOrder
      <4> QED
        BY <4>1, RunNumbers DEF OnlyReruns
    <3>2. UNCHANGED <<rt, posted>>
      BY <3>1, RestingWorker
    <3> QED
      BY <2>1, <3>2 DEF RInv, MadeOK, Made
  <2>2. ASSUME NEW v, v.state \in Shown => UNCHANGED rt /\ Made(v), posted'[i].view = v
        PROVE  Made(posted[i].view)'
    BY <2>2 DEF Made
  <2> QED
    BY <1>6, <2>1, <2>2
<1>9. ShownOK'
  <2>1. OnlyReruns => UNCHANGED <<tasks, torn>>
    BY RestingWorker
  <2>2. view.state \in Shown /\ ~Live => OnlyReruns
    BY DEF FInv, QuietOK
  <2>3. view.state = "prepare_review" => view.state \in Shown /\ ~Live
    BY DEF FInv, QuietOK, Shown
  <2>4. ASSUME NEW v, UNCHANGED <<tasks, torn>>, Tells(v) PROVE Tells(v)'
    BY <2>4 DEF Tells, Record
  <2>5. w.state \in Shown /\ ~Live => Tells(w)'
    BY <1>4, <2>1, <2>2, <2>4 DEF RInv, ShownOK
  <2>6. w.state = "prepare_review" /\ review /\ u.state = "candidate_ready" => Tells(u)'
    BY <1>4, <2>1, <2>2, <2>3, <2>4 DEF RInv, ShownOK
  <2> QED
    BY <1>2, <1>5, <2>5, <2>6 DEF ShownOK
<1>10. StandsOK'
  <2> SUFFICES ASSUME Live PROVE Stands(w)' /\ Stands(u)'
    BY <1>2, <1>5 DEF StandsOK
  <2>1. Candidate(w) /\ Candidate(u) /\ Stands(w) /\ Stands(u)
    BY <1>4 DEF RInv, CandidatesOK, StandsOK
  <2>2. Stands(u)'
    <3>1. CASE u.state = "candidate_ready"
      BY <1>1, <1>5, <2>1, <3>1, WorkerStands DEF RInv
    <3>2. CASE u.state # "candidate_ready"
      BY <3>2 DEF Stands
    <3> QED
      BY <3>1, <3>2
  <2>3. Stands(w)'
    <3>1. CASE w.state = "candidate_ready"
      <4>1. ~busy'
        BY <1>5, <3>1 DEF FInv, CancelledOK, Waiting
      <4> QED
        BY <1>1, <2>1, <4>1, WorkerStands DEF RInv
    <3>2. CASE w.state # "candidate_ready"
      BY <3>2 DEF Stands
    <3> QED
      BY <3>1, <3>2
  <2> QED
    BY <2>2, <2>3
<1> QED
  BY <1>1, <1>7, <1>8, <1>9, <1>10 DEF RInv

------------------------------------------------------------------------------
(* The main thread.                                                         *)

\* No ledger and nothing that the runtime remembers of one changes.
Resting ==
  /\ UNCHANGED <<tasks, torn>>
  /\ rt'.handle = rt.handle /\ rt'.record = rt.record /\ rt'.seen = rt.seen

\* The view w and the former view u of a step of the main thread.
LEMMA StepKeepsRecords ==
  ASSUME TInv, RInv, Resting, SeenOK', NEW w, NEW u, view' = w, previous' = u,
         \A i \in 1..Len(posted') : \E j \in 1..Len(posted) : posted'[i] = posted[j],
         run' = run \/ \A i \in 1..Len(posted') : posted'[i].run # run',
         Candidate(w), Candidate(u),
         w.state \in Shown /\ ~Live' => Tells(w),
         w.state = "prepare_review" /\ review' /\ u.state = "candidate_ready" => Tells(u),
         Live' => Stands(w) /\ Stands(u),
         Live' /\ "candidate_ready" \in {w.state, u.state} /\ Doomed => Doomed'
  PROVE  RInv'
<1>1. Reads'
  BY KeepingReads, SeenOK DEF RInv, Reads, Resting
<1>2. \A v : /\ Candidate(v) => Candidate(v)'
             /\ Made(v) => Made(v)'
             /\ Tells(v) => Tells(v)'
  BY DEF Resting, Candidate, Concluded, Made, Tells, Record
<1>3. CandidatesOK'
  <2>1. Candidate(w)' /\ Candidate(u)'
    BY <1>2
  <2>2. ASSUME NEW i \in 1..Len(posted') PROVE Candidate(posted[i].view)'
    <3>1. PICK j \in 1..Len(posted) : posted'[i] = posted[j]
      OBVIOUS
    <3>2. PICK c : c = posted[j].view
      OBVIOUS
    <3>3. Candidate(c)
      BY <3>2 DEF RInv, CandidatesOK
    <3>4. Candidate(c)'
      BY <1>2, <3>3
    <3> QED
      BY <3>1, <3>2, <3>4 DEF Candidate
  <2> QED
    BY <2>1, <2>2 DEF CandidatesOK
<1>4. MadeOK'
  <2> SUFFICES ASSUME NEW i \in 1..Len(posted'), posted'[i].run = run'
               PROVE  Made(posted[i].view)'
    BY DEF MadeOK
  <2>1. PICK j \in 1..Len(posted) : posted'[i] = posted[j]
    OBVIOUS
  <2>2. PICK c : c = posted[j].view
    OBVIOUS
  <2>3. Made(c)
    BY <2>1, <2>2 DEF RInv, MadeOK
  <2>4. Made(c)'
    BY <1>2, <2>3
  <2> QED
    BY <2>1, <2>2, <2>4 DEF Made
<1>5. ShownOK'
  <2>1. w.state \in Shown /\ ~Live' => Tells(w)'
    BY <1>2
  <2>2. w.state = "prepare_review" /\ review' /\ u.state = "candidate_ready" => Tells(u)'
    BY <1>2
  <2> QED
    BY <2>1, <2>2 DEF ShownOK
<1>6. StandsOK'
  <2>1. ASSUME NEW v \in {w, u}, Live' PROVE Stands(v)'
    <3>1. Stands(v)
      BY <2>1
    <3>2. v.state = "candidate_ready" /\ Doomed => Doomed'
      BY <2>1
    <3> QED
      BY <3>1, <3>2 DEF Stands, Resting
  <2>2. Live' => Stands(w)' /\ Stands(u)'
    BY <2>1
  <2> QED
    BY <2>2 DEF StandsOK
<1> QED
  BY <1>1, <1>3, <1>4, <1>5, <1>6 DEF RInv

\* A step that looks at no job ...
LEMMA SameSeen ==
  ASSUME SeenOK, queue' = queue, rt'.seen = rt.seen
  PROVE  SeenOK'
  BY DEF SeenOK, Job

LEMMA SameDoomed ==
  ASSUME Doomed, queue' = queue, rt'.record = rt.record, cancelled \subseteq cancelled'
  PROVE  Doomed'
  BY DEF Doomed, Waits

\* ... or puts one at the end of the queue.
LEMMA JoiningSeen ==
  ASSUME TInv, SeenOK, NEW job, Joins(job), job.pc = "queued", rt' = rt,
         queue' # <<>> => Job' = queue'[1]
  PROVE  SeenOK'
<1>1. CASE Len(queue) = 0
  BY <1>1 DEF Joins, SeenOK
<1>2. CASE Len(queue) # 0
  <2>1. queue # <<>> /\ Job = queue[1] /\ 1 \in 1..Len(queue)
    <3>1. queue # <<>>
      BY <1>2, EmptySeq
    <3> QED
      BY <3>1, QueueFacts DEF TInv
  <2>2. queue' # <<>> => Job' = Job
    BY <2>1 DEF Joins
  <2> QED
    BY <2>1, <2>2 DEF SeenOK
<1> QED
  BY <1>1, <1>2

LEMMA JoiningDoomed ==
  ASSUME Doomed, NEW job, Joins(job), job.pc = "queued",
         job.run # 0 => job.op \in {"prepare", "retract"},
         rt' = rt, UNCHANGED cancelled
  PROVE  Doomed'
<1>1. ASSUME NEW i \in 1..Len(queue'), queue'[i].run # 0
      PROVE  /\ queue'[i].pc # "checked"
             /\ Waits(queue'[i]) => queue'[i].run \in cancelled'
                                      \/ queue'[i].op \in {"prepare", "retract"}
  <2>1. CASE i \in 1..Len(queue)
    BY <1>1, <2>1 DEF Doomed, Joins
  <2>2. CASE i = Len(queue) + 1
    BY <1>1, <2>2 DEF Joins
  <2> QED
    BY <2>1, <2>2 DEF Joins
<1> QED
  BY <1>1 DEF Doomed, Waits

\* What can be shown again instead of a view: the view itself or what a pending
\* preparation is discarded for.
LEMMA DiscardedRecords ==
  ASSUME TInv, FInv, RInv, NEW w, w = Discarded
  PROVE  /\ w \in Views /\ Candidate(w)
         /\ w.state \in Shown /\ ~Live => Tells(w)
         /\ Live => Stands(w)
         /\ w = view \/ w.state = "candidate_ready"
         /\ w.state = "candidate_ready" => Stands(w)
         /\ w.state = "prepare_review" => w = view
<1>1. CASE w = view
  <2>1. w.state = "candidate_ready" /\ ~Live => Stands(w)
    BY <1>1, TellingStands DEF RInv, ShownOK, Shown, Durable, Stands
  <2> QED
    BY <1>1, <2>1 DEF TInv, ControllerOK, RInv, CandidatesOK, ShownOK, StandsOK
<1>2. CASE w = previous /\ review /\ view.state = "prepare_review"
           /\ previous.state = "candidate_ready"
  <2>1. ~Live /\ Tells(w)
    BY <1>2 DEF FInv, QuietOK, RInv, ShownOK
  <2>2. Stands(w)
    BY <1>2, <2>1, TellingStands DEF Stands
  <2> QED
    BY <1>2, <2>1, <2>2 DEF TInv, ControllerOK, RInv, CandidatesOK
<1> QED
  BY <1>1, <1>2 DEF Discarded

LEMMA SubmitKeepsRecords ==
  ASSUME TInv, TInv', FInv, RInv, NEW op, NEW from, Submitted(op, from),
         Candidate(from), from.state = "candidate_ready" => Stands(from),
         from.state = "candidate_ready" => op \in {"prepare", "retract"}
  PROVE  RInv'
<1>1. PICK job : Joins(job) /\ job.run = run' /\ job.op = op /\ job.pc = "queued"
  BY DEF Submitted
<1>2. /\ UNCHANGED <<cancelled, posted, rt, tasks, torn>> /\ previous' = from
      /\ view'.state \in Waiting /\ run' = run + 1 /\ run \in Nat /\ run' # 0
  BY DEF Submitted
<1>3. PICK w : w = view'
  OBVIOUS
<1>4. w.state \notin Shown /\ w.state # "candidate_ready" /\ w.state # "prepare_review"
  BY <1>2, <1>3 DEF Waiting, Shown, Durable
<1>5. queue' # <<>> => Job' = queue'[1]
  BY HeadTailProperties DEF TInv, QueueOK, Job
<1>6. SeenOK'
  BY <1>1, <1>2, <1>5, JoiningSeen DEF RInv, Reads
<1>7. \A i \in 1..Len(posted') : posted'[i].run # run'
  <2>1. \A i \in 1..Len(posted) : posted[i].run <= run /\ posted[i].run \in Nat
    BY RunNumbers DEF FInv, RunsInOrder
  <2> QED
    BY <1>2, <2>1
<1>8. Candidate(w) /\ Stands(w) /\ Stands(from)
  BY <1>4 DEF Candidate, Stands
<1>9. "candidate_ready" \in {w.state, from.state} /\ Doomed => Doomed'
  BY <1>1, <1>2, <1>4, JoiningDoomed
<1>10. Resting
  BY <1>2 DEF Resting
<1>11. \A i \in 1..Len(posted') : \E j \in 1..Len(posted) : posted'[i] = posted[j]
  BY <1>2
<1> QED
  BY <1>2, <1>3, <1>4, <1>6, <1>7, <1>8, <1>9, <1>10, <1>11, StepKeepsRecords

LEMMA CommandsKeepRecords ==
  ASSUME TInv, TInv', FInv, RInv, Commands
  PROVE  RInv'
<1>1. PICK op \in Ops : Submitted(op, view)
                        /\ (view.state = "candidate_ready" => op = "prepare")
  BY CommandsSubmit
<1>2. PICK from : from = view
  OBVIOUS
<1>3. from.state = "candidate_ready" => Stands(from)
  <2>1. CASE Live
    BY <1>2, <2>1 DEF RInv, StandsOK
  <2>2. CASE ~Live
    BY <1>2, <2>2, TellingStands DEF RInv, ShownOK, Shown, Durable, Stands
  <2> QED
    BY <2>1, <2>2
<1>4. Candidate(from) /\ Submitted(op, from)
        /\ (from.state = "candidate_ready" => op \in {"prepare", "retract"})
  BY <1>1, <1>2 DEF RInv, CandidatesOK
<1> QED
  BY <1>3, <1>4, SubmitKeepsRecords

LEMMA RetractKeepsRecords ==
  ASSUME TInv, TInv', FInv, RInv, Retract
  PROVE  RInv'
<1>1. PICK from : from = Discarded
  OBVIOUS
<1>2. Submitted("retract", from)
  BY <1>1, RetractSubmits
<1>3. Candidate(from) /\ (from.state = "candidate_ready" => Stands(from))
  BY <1>1, DiscardedRecords
<1> QED
  BY <1>2, <1>3, SubmitKeepsRecords

\* A step without a job: it leaves what is under way, and changes the view at most.
LEMMA LookingKeepsRecords ==
  ASSUME TInv, RInv, UNCHANGED <<queue, posted, run, previous, tasks, torn>>,
         rt'.handle = rt.handle, rt'.record = rt.record, rt'.seen = rt.seen,
         cancelled \subseteq cancelled', Live' => Live,
         NEW w, view' = w, Candidate(w),
         w.state \in Shown /\ ~Live' => Tells(w),
         w.state = "prepare_review" /\ review' /\ previous.state = "candidate_ready"
           => Tells(previous),
         Live' => Stands(w)
  PROVE  RInv'
<1>1. PICK u : u = previous
  OBVIOUS
<1>2. SeenOK'
  BY SameSeen DEF RInv, Reads
<1>3. Doomed => Doomed'
  BY SameDoomed
<1>4. Candidate(u) /\ (Live' => Stands(u)) /\ previous' = u
  BY <1>1 DEF RInv, CandidatesOK, StandsOK
<1>5. Resting
  BY DEF Resting
<1>6. \A i \in 1..Len(posted') : \E j \in 1..Len(posted) : posted'[i] = posted[j]
  OBVIOUS
<1>7. w.state = "prepare_review" /\ review' /\ u.state = "candidate_ready" => Tells(u)
  BY <1>1
<1> QED
  BY <1>2, <1>3, <1>4, <1>5, <1>6, <1>7, StepKeepsRecords

\* What shows no decision needs no reason.
LEMMA NothingShown ==
  ASSUME NEW w, w.state \notin Shown
  PROVE  Candidate(w) /\ Stands(w) /\ w.state # "prepare_review"
  BY DEF Candidate, Stands, Shown, Durable

LEMMA IntakeStepKeepsRecords ==
  ASSUME TInv, RInv, IntakeStep
  PROVE  RInv'
<1>1. /\ UNCHANGED <<queue, posted, run, previous, tasks, torn, rt, cancelled, version>>
      /\ \E to \in {"intake_causal", "intake_profile", "intake_roles", "causal_scope_notice",
                    "intake_blocked", "scope_boundary"} : view' = Transient(to)
  BY DEF IntakeStep, Turn, pipeline, history
<1>2. PICK w : w = view'
  OBVIOUS
<1>3. w.state \notin Shown
  BY <1>1, <1>2 DEF Transient, Shown, Durable
<1>4. Live' => Live
  BY <1>1 DEF Live
<1> QED
  BY <1>1, <1>2, <1>3, <1>4, NothingShown, LookingKeepsRecords

LEMMA CancelKeepsRecords ==
  ASSUME TInv, OInv, RInv, Cancel
  PROVE  RInv'
<1>1. /\ UNCHANGED <<queue, posted, run, previous, review, tasks, torn, rt, version>>
      /\ busy /\ cancelled \subseteq cancelled'
      /\ \/ view' = previous /\ previous.state \in Durable
         \/ view' = Transient("cancelled")
  BY DEF Cancel, pipeline, history
<1>2. Live /\ (Live' <=> Live)
  BY <1>1 DEF OInv, RunsOK, Live
<1>3. PICK w : w = view'
  OBVIOUS
<1>4. Candidate(w) /\ Stands(w) /\ w.state # "prepare_review"
  <2>1. CASE w = previous /\ previous.state \in Durable
    BY <1>2, <2>1 DEF RInv, CandidatesOK, StandsOK, Durable
  <2>2. CASE w = Transient("cancelled")
    <3>1. w.state \notin Shown
      BY <2>2 DEF Transient, Shown, Durable
    <3> QED
      BY <3>1, NothingShown
  <2> QED
    BY <1>1, <1>3, <2>1, <2>2
<1> QED
  BY <1>1, <1>2, <1>3, <1>4, LookingKeepsRecords

LEMMA AdoptModeKeepsRecords ==
  ASSUME TInv, FInv, RInv, AdoptMode
  PROVE  RInv'
<1>1. /\ UNCHANGED <<queue, posted, run, previous, tasks, torn, rt, cancelled, version>>
      /\ view' = Discarded /\ review' = Kept
  BY DEF AdoptMode, pipeline, history
<1>2. PICK w : w = Discarded
  OBVIOUS
<1>3. Live' <=> Live
  BY <1>1 DEF Live
<1>4. /\ Candidate(w) /\ (w.state \in Shown /\ ~Live => Tells(w)) /\ (Live => Stands(w))
      /\ w.state = "prepare_review" => w = view
  BY <1>2, DiscardedRecords
<1>5. ~(w.state = "prepare_review" /\ review')
  BY <1>1, <1>4 DEF Kept
<1> QED
  BY <1>1, <1>2, <1>3, <1>4, <1>5, LookingKeepsRecords

LEMMA AdoptLanguageKeepsRecords ==
  ASSUME TInv, RInv, AdoptLanguage
  PROVE  RInv'
<1>1. /\ UNCHANGED <<queue, posted, run, previous, tasks, torn, rt, cancelled, version>>
      /\ rt.record # NoRecord
      /\ view' = RecordView(rt.record, rt.identity, rt.seen, version)
  BY DEF AdoptLanguage, pipeline, history
<1>2. PICK w, n : n = version /\ w = RecordView(rt.record, rt.identity, rt.seen, n)
  OBVIOUS
<1>3. Live' <=> Live
  BY <1>1 DEF Live
<1>4. Made(w) /\ Candidate(w) /\ w.state # "prepare_review"
  BY <1>1, <1>2, RecordMade DEF RInv, Reads
<1>5. w.state \in Shown => Tells(w)
  BY <1>4, MadeTells DEF RInv, Reads
<1>6. Stands(w)
  BY <1>5, TellingStands DEF Stands, Shown, Durable
<1> QED
  BY <1>1, <1>2, <1>3, <1>4, <1>5, <1>6, LookingKeepsRecords

LEMMA ConfirmKeepsRecords ==
  ASSUME TInv, OInv', RInv, Confirm
  PROVE  RInv'
<1>1. /\ UNCHANGED <<queue, posted, run, previous, tasks, torn, cancelled>>
      /\ \/ /\ view' = [view EXCEPT !.state = "confirmed", !.version = version']
            /\ rt' = [rt EXCEPT !.cache = NoIdentity]
         \/ /\ view' \in {Transient("replan_required"), Transient("failure")}
            /\ UNCHANGED <<rt, version>>
  BY DEF Confirm
<1>2. rt'.handle = rt.handle /\ rt'.record = rt.record /\ rt'.seen = rt.seen
  BY <1>1 DEF TInv, RtOK
<1>3. PICK w : w = view'
  OBVIOUS
<1>4. w.state \notin Shown /\ (Live' => Live)
  <2>1. CASE view' = [view EXCEPT !.state = "confirmed", !.version = version']
    <3>1. view'.state = "confirmed"
      BY <2>1 DEF TInv, ControllerOK, Views
    <3>2. ~Live'
      BY <3>1 DEF OInv, ConfirmedOK
    <3> QED
      BY <1>3, <3>1, <3>2 DEF Shown, Durable
  <2>2. CASE view' \in {Transient("replan_required"), Transient("failure")}
             /\ UNCHANGED version
    <3>1. w.state \in {"replan_required", "failure"}
      BY <1>3, <2>2 DEF Transient
    <3> QED
      BY <1>1, <2>2, <3>1 DEF Live, Shown, Durable
  <2> QED
    BY <1>1, <2>1, <2>2
<1> QED
  BY <1>1, <1>2, <1>3, <1>4, NothingShown, LookingKeepsRecords

LEMMA CommitEditKeepsRecords ==
  ASSUME TInv, OInv, FInv, RInv, CommitEdit
  PROVE  RInv'
<1>1. /\ UNCHANGED <<queue, posted, previous, tasks, torn>> /\ run' = run + 1
      /\ view' = Overtaken
      /\ rt' = [rt EXCEPT !.cache = IF @.version = version + 1 THEN @ ELSE NoIdentity]
  BY DEF CommitEdit, Sync, history
<1>2. Resting
  BY <1>1 DEF TInv, RtOK, Resting
<1>3. PICK w, u : w = view' /\ u = previous
  OBVIOUS
<1>4. w.state \notin Shown
  BY <1>1, <1>3 DEF Overtaken, Transient, Shown, Durable
<1>5. ~Live'
  BY SyncKeepsRuns
<1>6. SeenOK'
  BY <1>1, <1>2, SameSeen DEF RInv, Reads, Resting
<1>7. \A i \in 1..Len(posted') : posted'[i].run # run'
  BY <1>1, RunNumbers DEF FInv, RunsInOrder
<1>8. Candidate(w) /\ Candidate(u) /\ w.state # "prepare_review" /\ previous' = u
  BY <1>1, <1>3, <1>4, NothingShown DEF RInv, CandidatesOK
<1>9. \A i \in 1..Len(posted') : \E j \in 1..Len(posted) : posted'[i] = posted[j]
  BY <1>1
<1> QED
  BY <1>2, <1>3, <1>4, <1>5, <1>6, <1>7, <1>8, <1>9, StepKeepsRecords

LEMMA RerunKeepsRecords ==
  ASSUME TInv, TInv', RInv, Rerun
  PROVE  RInv'
<1>1. UNCHANGED <<view, previous, run, review, cancelled, posted, rt, tasks, torn>>
  BY RerunIs
<1>2. PICK job : Joins(job) /\ job.run = 0 /\ job.pc = "queued"
  BY RerunIs
<1>3. Live' <=> Live
  BY RerunIsLive
<1>4. PICK w, u : w = view /\ u = previous
  OBVIOUS
<1>5. queue' # <<>> => Job' = queue'[1]
  BY HeadTailProperties DEF TInv, QueueOK, Job
<1>6. SeenOK'
  BY <1>1, <1>2, <1>5, JoiningSeen DEF RInv, Reads
<1>7. Doomed => Doomed'
  BY <1>1, <1>2, JoiningDoomed
<1>8. /\ Candidate(w) /\ Candidate(u) /\ (w.state \in Shown /\ ~Live => Tells(w))
      /\ w.state = "prepare_review" /\ review /\ u.state = "candidate_ready" => Tells(u)
      /\ Live => Stands(w) /\ Stands(u)
  BY <1>4 DEF RInv, CandidatesOK, ShownOK, StandsOK
<1>9. Resting /\ view' = w /\ previous' = u
  BY <1>1, <1>4 DEF Resting
<1>10. \A i \in 1..Len(posted') : \E j \in 1..Len(posted) : posted'[i] = posted[j]
  BY <1>1
<1> QED
  BY <1>1, <1>3, <1>6, <1>7, <1>8, <1>9, <1>10, StepKeepsRecords

\* A result that is accepted is the last one, and of the record that the runtime has.
LEMMA DeliverKeepsRecords ==
  ASSUME TInv, OInv, FInv, RInv, Deliver
  PROVE  RInv'
<1> DEFINE r     == Head(posted)
           stale == r.view.state = "prepare_review"
                      /\ tasks[r.view.of[1]].data # rt.identity.data
           shown == IF stale THEN Transient("failure") ELSE r.view
<1>1. UNCHANGED <<queue, run, version, previous, rt, cancelled, tasks, torn>>
  BY DEF Deliver, pipeline, history
<1>2. /\ posted # <<>> /\ Len(posted) \in Nat /\ Len(posted') = Len(posted) - 1
      /\ Len(posted) > 0 /\ r = posted[1]
      /\ \A i \in 1..Len(posted') : i + 1 \in 1..Len(posted) /\ posted'[i] = posted[i + 1]
  BY DeliverIs
<1>3. \A i \in 1..Len(posted') : \E j \in 1..Len(posted) : posted'[i] = posted[j]
  BY <1>2
<1>4. Resting /\ SeenOK' /\ (Doomed => Doomed')
  BY <1>1, SameSeen, SameDoomed DEF Resting, RInv, Reads
<1>5. PICK u : u = previous
  OBVIOUS
<1>6. Candidate(u) /\ previous' = u
  BY <1>1, <1>5 DEF RInv, CandidatesOK
<1>7. CASE ~Accepts(r)
  <2>1. view' = view /\ review' = review
    BY <1>7 DEF Deliver
  <2>2. Live' <=> Live
    BY <1>7, DroppingIsLive
  <2>3. PICK w : w = view
    OBVIOUS
  <2>4. /\ Candidate(w) /\ (w.state \in Shown /\ ~Live => Tells(w))
        /\ w.state = "prepare_review" /\ review /\ u.state = "candidate_ready" => Tells(u)
        /\ Live => Stands(w) /\ Stands(u)
    BY <1>5, <2>3 DEF RInv, CandidatesOK, ShownOK, StandsOK
  <2> QED
    BY <1>1, <1>3, <1>4, <1>6, <2>1, <2>2, <2>3, <2>4, StepKeepsRecords
<1>8. CASE Accepts(r)
  <2>1. view' = shown
    BY <1>8 DEF Deliver
  <2>2. Len(posted) = 1 /\ posted[1].run = run /\ OnlyReruns
    BY <1>2, <1>8, LastIsDelivered
  <2>3. run # 0 /\ Live
    <3>1. 1 \in 1..Len(posted) /\ posted[1].version = version
      BY <1>2, <1>8 DEF Accepts
    <3> QED
      BY <2>2, <3>1 DEF OInv, RunsOK, Live
  <2>4. ~Live'
    BY <1>1, <1>2, <2>2, <2>3 DEF Live, OnlyReruns
  <2>5. PICK w : w = shown
    OBVIOUS
  <2>6. Candidate(w) /\ Made(w)
    <3>1. CASE stale
      <4>1. w.state = "failure"
        BY <2>5, <3>1 DEF Transient
      <4> QED
        BY <4>1 DEF Candidate, Made, Shown, Durable
    <3>2. CASE ~stale
      <4>1. w = posted[1].view /\ 1 \in 1..Len(posted)
        BY <1>2, <2>5, <3>2
      <4> QED
        BY <2>2, <4>1 DEF RInv, CandidatesOK, MadeOK
    <3> QED
      BY <3>1, <3>2
  <2> HIDE DEF shown
  <2>7. w.state \in Shown => Tells(w)
    BY <2>6, MadeTells DEF RInv, Reads
  <2>8. ASSUME w.state = "prepare_review", u.state = "candidate_ready"
        PROVE  Tells(u)
    <3>1. ~Doomed
      BY <2>6, <2>8 DEF Made, Shown, Doomed
    <3>2. u.of[1] \notin torn => tasks[u.of[1]].kind = "candidate"
      BY <1>5, <2>3, <2>8, <3>1 DEF RInv, StandsOK, Stands
    <3>3. u \in Views
      BY <1>5 DEF TInv, ControllerOK
    <3> QED
      BY <1>6, <2>8, <3>2, <3>3, StandingTells
  <2> QED
    BY <1>1, <1>3, <1>4, <1>6, <2>1, <2>4, <2>5, <2>6, <2>7, <2>8, StepKeepsRecords
<1> QED
  BY <1>7, <1>8

LEMMA QuietKeepsRecords ==
  ASSUME TInv, RInv,
         UNCHANGED <<view, previous, run, review, cancelled, version, queue, posted, rt, tasks,
                     torn>>
  PROVE  RInv'
<1>1. Live' <=> Live
  BY DEF Live
<1>2. PICK w : w = view
  OBVIOUS
<1>3. /\ Candidate(w) /\ (w.state \in Shown /\ ~Live => Tells(w))
      /\ w.state = "prepare_review" /\ review /\ previous.state = "candidate_ready"
           => Tells(previous)
      /\ Live => Stands(w)
  BY <1>2 DEF RInv, CandidatesOK, ShownOK, StandsOK
<1> QED
  BY <1>1, <1>2, <1>3, LookingKeepsRecords

------------------------------------------------------------------------------
LEMMA NextRInv ==
  TInv /\ OInv /\ FInv /\ RInv /\ [Next]_vars => RInv'
<1> SUFFICES ASSUME TInv, OInv, FInv, RInv, [Next]_vars PROVE RInv'
  OBVIOUS
<1>1. TInv' /\ OInv' /\ FInv'
  BY NextTInv, NextOInv, NextFInv
<1>2. CASE Worker
  BY <1>1, <1>2, WorkerKeepsRecords
<1>3. CASE Deliver \/ CommitEdit
  BY <1>3, DeliverKeepsRecords, CommitEditKeepsRecords
<1>4. CASE RollBackEdit \/ Edit
  <2>1. UNCHANGED <<controller, queue, posted, rt, version, tasks, history>>
    BY <1>4 DEF RollBackEdit, Edit
  <2>2. UNCHANGED <<view, previous, run, review, cancelled, torn>>
    BY <2>1 DEF controller, history
  <2> QED
    BY <2>1, <2>2, QuietKeepsRecords
<1>5. CASE User /\ ~Edit
  BY <1>1, <1>5, CommandsKeepRecords, IntakeStepKeepsRecords, CancelKeepsRecords,
     RetractKeepsRecords, AdoptModeKeepsRecords, AdoptLanguageKeepsRecords,
     ConfirmKeepsRecords, RerunKeepsRecords DEF User, Commands
<1>6. CASE UNCHANGED vars
  <2>1. UNCHANGED <<view, previous, run, review, cancelled, version, queue, posted, rt, tasks,
                    torn>>
    BY <1>6 DEF vars, controller, pipeline, history
  <2> QED
    BY <2>1, QuietKeepsRecords
<1> QED
  BY <1>2, <1>3, <1>4, <1>5, <1>6 DEF Next, User

LEMMA InitRInv ==
  Init => RInv
<1> SUFFICES ASSUME Init PROVE RInv
  OBVIOUS
<1>1. /\ queue = <<>> /\ Len(posted) = 0 /\ run = 0
      /\ view = Transient("idle") /\ previous = view
      /\ rt.handle = 0 /\ rt.record = NoRecord
  BY EmptySeq DEF Init
<1>2. view.state \notin Shown
  BY <1>1 DEF Transient, Shown, Durable
<1>3. Reads
  BY <1>1 DEF Reads, HandleOK, ReadOK, SeenOK
<1>4. CandidatesOK /\ MadeOK
  BY <1>1, <1>2, NothingShown DEF CandidatesOK, MadeOK
<1>5. ShownOK /\ StandsOK
  BY <1>1, <1>2, NothingShown DEF ShownOK, StandsOK
<1> QED
  BY <1>3, <1>4, <1>5 DEF RInv

LEMMA InductiveRecords ==
  Spec => [](TInv /\ OInv /\ FInv /\ RInv)
<1> QED
  BY InitTInv, NextTInv, InitOInv, NextOInv, InitFInv, NextFInv, InitRInv, NextRInv, PTL
     DEF Spec

\* However it was cancelled, put back, translated or overtaken before: a decision that is on
\* screen when the worker and the results have come to rest is what its ledger says.
THEOREM ShownStaysRecorded == Spec => []ShownIsRecorded
<1>1. TInv /\ FInv /\ RInv => ShownIsRecorded
  <2> SUFFICES ASSUME TInv, FInv, RInv, view.state \in Durable, ~busy, queue = <<>>,
                      posted = <<>>, view.of[1] \notin torn
               PROVE  /\ view.of[1] \in DOMAIN tasks
                      /\ view.of = Record(view.of[1]).of
                      /\ \E d \in Datas : view.state = StateOf(tasks[view.of[1]].kind, d)
    BY DEF ShownIsRecorded
  <2>1. ~Live
    BY EmptySeq DEF Live
  <2>2. Tells(view)
    BY <2>1 DEF RInv, ShownOK, Shown
  <2> QED
    BY <2>2, TaskFacts DEF Tells, TInv
<1> QED
  BY <1>1, InductiveRecords, PTL

\* A preparation that can be confirmed is of the current decision of an open task, whatever
\* was cancelled, retracted or replanned around it.
THEOREM ReviewStaysCurrent == Spec => []ReviewIsCurrent
<1>1. TInv /\ FInv /\ RInv => ReviewIsCurrent
  <2> SUFFICES ASSUME TInv, FInv, RInv, view.state = "prepare_review", view.of[1] \notin torn
               PROVE  /\ tasks[view.of[1]].active
                      /\ Record(view.of[1]) = [of |-> view.of, kind |-> "candidate"]
    BY DEF ReviewIsCurrent
  <2>1. ~Live /\ Tells(view)
    BY DEF FInv, QuietOK, RInv, ShownOK, Shown
  <2> QED
    BY <2>1 DEF Tells, Record
<1> QED
  BY <1>1, InductiveRecords, PTL

==============================================================================
