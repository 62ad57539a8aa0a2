------------------------- MODULE ResearchFlow_proofs -------------------------
(***************************************************************************)
(* Proofs about ResearchFlow, for any number of jobs, tasks, versions,     *)
(* clarifications and datasets.                                            *)
(*                                                                         *)
(* Types first: what a job of the worker has found out at each of its      *)
(* points (HeadOK), and that the runtime's record and handle go together   *)
(* (RtOK).  Then the order of versions: the worker's jobs and the posted   *)
(* results are of versions that the pipeline has had, oldest first, so     *)
(* that whatever speaks of the current version also speaks for all that    *)
(* comes after it (Aligned).                                               *)
(***************************************************************************)
EXTENDS ResearchFlow, SequenceTheorems, TLAPS

------------------------------------------------------------------------------
(* Types, by the part of the system that a step leaves alone.               *)

RecordKinds == Decisions \union {"pending", "retracted"}
Records     == [of : (1..MaxTasks) \X Nat, kind : RecordKinds]
Caches      == {NoIdentity} \union [version : 1..MaxVersion, data : Datas]
Results     == [run : Nat, version : 1..MaxVersion, view : Views]

ControllerOK ==
  /\ view \in Views /\ previous \in Views
  /\ busy \in BOOLEAN /\ review \in BOOLEAN
  /\ run \in Nat /\ event \in Nat /\ cancelled \subseteq Nat
  /\ active \in 1..MaxVersion
  /\ intake \subseteq {"profile", "roles"}

PipelineOK ==
  /\ data \in Datas /\ version \in 1..MaxVersion /\ editing \subseteq Datas
  /\ editing # {} => version < MaxVersion

QueueOK  == queue \in Seq(Jobs) /\ \A i \in 2..Len(queue) : queue[i].pc = "queued"
PostedOK == posted \in Seq(Results)

\* A task that waits for an answer has one left; a dataset has one open task.
TasksOK ==
  /\ tasks \in Seq(Tasks) /\ Len(tasks) <= MaxTasks
  /\ \A t \in 1..Len(tasks) : tasks[t].kind = "clarify" => tasks[t].asked < Questions
  /\ \A t, u \in 1..Len(tasks) :
       tasks[t].active /\ tasks[u].active /\ tasks[t].data = tasks[u].data => t = u

\* The runtime has no record without a task.
RtOK ==
  /\ rt \in [identity : Identities, seen : Datas \union {NoData}, handle : 0..Len(tasks),
             record : Records \union {NoRecord}, cache : Caches]
  /\ rt.record # NoRecord => rt.handle # 0

\* What the job in progress has found out.
HeadOK ==
  queue # <<>> /\ Job.pc # "queued" =>
    /\ Job.op # "rerun"
    /\ Job.op # "retract" => Job.data \in Datas
    /\ Job.op = "retract" /\ Job.pc # "acted" => rt.record.kind \in Decisions
    /\ Job.op = "prepare" => rt.record.kind = "candidate"
    /\ Job.pc = "acted" => rt.record # NoRecord
    /\ Job.op # "retract" /\ (Fresh \/ Job.pc = "acted") => rt.identity.version = Job.version

TInv == ControllerOK /\ PipelineOK /\ QueueOK /\ PostedOK /\ TasksOK /\ RtOK /\ HeadOK

LEMMA TInvImpliesTypeOK ==
  TInv => TypeOK
<1> SUFFICES ASSUME TInv PROVE TypeOK
  OBVIOUS
<1> USE DEF TInv
<1>1. /\ {view, previous} \subseteq Views
      /\ busy \in BOOLEAN /\ review \in BOOLEAN
      /\ {run, event} \union cancelled \subseteq Nat /\ active \in 1..MaxVersion
      /\ intake \subseteq {"profile", "roles"}
  BY DEF ControllerOK
<1>2. queue \in Seq(Jobs) /\ \A i \in 2..Len(queue) : queue[i].pc = "queued"
  BY DEF QueueOK
<1>3. posted \in Seq([run : Nat, version : 1..MaxVersion, view : Views])
  BY DEF PostedOK, Results
<1>4. rt.identity \in Identities /\ rt.cache \in Identities /\ rt.handle \in 0..Len(tasks)
  <2>1. Caches \subseteq Identities
    BY ResearchFlowAssumption DEF Caches, Identities, NoIdentity
  <2> QED
    BY <2>1 DEF RtOK
<1>5. data \in Datas /\ version \in 1..MaxVersion /\ editing \subseteq Datas
  BY DEF PipelineOK
<1>6. /\ tasks \in Seq(Tasks)
      /\ \A t, u \in {x \in DOMAIN tasks : tasks[x].active} :
           tasks[t].data = tasks[u].data => t = u
  BY LenProperties DEF TasksOK
<1> QED
  BY <1>1, <1>2, <1>3, <1>4, <1>5, <1>6 DEF TypeOK

------------------------------------------------------------------------------
(* The queue.                                                               *)

\* The head of the queue is a job, and the others are waiting.
LEMMA QueueFacts ==
  ASSUME QueueOK, queue # <<>>
  PROVE  /\ Job \in Jobs /\ Job = queue[1]
         /\ Len(queue) \in Nat /\ Len(queue) > 0
         /\ \A i \in 1..Len(queue) : queue[i] \in Jobs
  BY HeadTailProperties, EmptySeq, ElementOfSeq, LenProperties DEF QueueOK, Job

\* The job in progress goes on.
LEMMA Going ==
  ASSUME QueueOK, queue # <<>>, NEW job \in Jobs, Goto(job)
  PROVE  /\ queue' \in Seq(Jobs) /\ queue' # <<>> /\ Len(queue') = Len(queue)
         /\ queue'[1] = job /\ Job' = job
         /\ \A i \in 2..Len(queue) : queue'[i] = queue[i]
         /\ QueueOK' /\ posted' = posted
<1> DEFINE rest == Tail(queue)
           gone == <<job>> \o rest
<1>1. queue' = gone /\ posted' = posted
  BY DEF Goto
<1>2. /\ rest \in Seq(Jobs) /\ Len(rest) = Len(queue) - 1
      /\ Len(queue) \in Nat \ {0}
      /\ \A i \in 1..Len(rest) : rest[i] = queue[i + 1]
  BY HeadTailProperties, EmptySeq, LenProperties, QueueFacts DEF QueueOK
<1>3. <<job>> \in Seq(Jobs) /\ Len(<<job>>) = 1 /\ <<job>>[1] = job
  OBVIOUS
<1> HIDE DEF rest
<1>4. /\ gone \in Seq(Jobs) /\ Len(gone) = Len(queue)
      /\ gone[1] = job /\ \A i \in 2..Len(queue) : gone[i] = rest[i - 1]
  BY <1>2, <1>3, ConcatProperties
<1>5. \A i \in 2..Len(queue) : gone[i] = queue[i]
  BY <1>2, <1>4
<1> HIDE DEF gone
<1>6. gone # <<>> /\ Head(gone) = gone[1]
  BY <1>2, <1>4, EmptySeq, HeadTailProperties
<1> QED
  BY <1>1, <1>2, <1>4, <1>5, <1>6 DEF QueueOK, Job

\* The job in progress ends with a result.
LEMMA Posting ==
  ASSUME QueueOK, PostedOK, queue # <<>>, NEW v \in Views, Post(v)
  PROVE  /\ queue' \in Seq(Jobs) /\ Len(queue') = Len(queue) - 1
         /\ \A i \in 1..Len(queue') : queue'[i] = queue[i + 1] /\ queue'[i].pc = "queued"
         /\ posted' = Append(posted, [run |-> Job.run, version |-> Job.version, view |-> v])
         /\ QueueOK' /\ PostedOK' /\ HeadOK'
<1> DEFINE result == [run |-> Job.run, version |-> Job.version, view |-> v]
<1>1. /\ queue' \in Seq(Jobs) /\ Len(queue') = Len(queue) - 1
      /\ \A i \in 1..Len(queue') : queue'[i] = queue[i + 1]
  BY HeadTailProperties DEF QueueOK, Post
<1>2. \A i \in 1..Len(queue') : queue'[i].pc = "queued"
  BY <1>1, QueueFacts DEF QueueOK
<1>3. posted' = Append(posted, result) /\ result \in Results
  BY QueueFacts DEF Post, Jobs, Results
<1>4. PostedOK'
  BY <1>3, AppendProperties DEF PostedOK
<1>5. queue' # <<>> => Job'.pc = "queued"
  BY <1>1, <1>2, HeadTailProperties, EmptySeq, LenProperties DEF Job
<1>6. HeadOK'
  BY <1>5 DEF HeadOK
<1>7. QueueOK'
  BY <1>1, <1>2 DEF QueueOK
<1> QED
  BY <1>1, <1>2, <1>3, <1>4, <1>6, <1>7

\* A job is put at the end of the queue.
LEMMA Queueing ==
  ASSUME QueueOK, NEW job \in Jobs, job.pc = "queued", queue' = Append(queue, job)
  PROVE  /\ QueueOK' /\ queue' # <<>> /\ Len(queue') = Len(queue) + 1
         /\ \A i \in 1..Len(queue) : queue'[i] = queue[i]
         /\ queue'[Len(queue) + 1] = job
         /\ queue = <<>> => Job' = job
         /\ queue # <<>> => Job' = Job
<1>1. /\ queue' \in Seq(Jobs) /\ Len(queue') = Len(queue) + 1 /\ queue' # <<>>
      /\ \A i \in 1..Len(queue) : queue'[i] = queue[i]
      /\ queue'[Len(queue) + 1] = job
      /\ Len(queue) \in Nat
  BY AppendProperties, LenProperties DEF QueueOK
<1>2. Head(queue') = queue'[1]
  BY <1>1, HeadTailProperties
<1>3. queue # <<>> => Head(queue) = queue[1] /\ Len(queue) > 0
  BY QueueFacts DEF Job
<1>4. queue = <<>> => Len(queue) = 0
  BY EmptySeq
<1>5. QueueOK'
  BY <1>1 DEF QueueOK
<1> QED
  BY <1>1, <1>2, <1>3, <1>4, <1>5 DEF Job

\* A wait in the queue changes nothing that its head relies on.
LEMMA HeadKept ==
  ASSUME QueueOK, HeadOK, NEW job \in Jobs, job.pc = "queued", queue' = Append(queue, job),
         rt' = rt
  PROVE  HeadOK'
<1>1. queue = <<>> => Job' = job
  BY Queueing
<1>2. queue # <<>> => Job' = Job
  BY Queueing
<1> QED
  BY <1>1, <1>2 DEF HeadOK, Fresh, Starts

------------------------------------------------------------------------------
(* The tasks.                                                               *)

LEMMA TaskFacts ==
  ASSUME TasksOK
  PROVE  /\ Len(tasks) \in 0..MaxTasks /\ DOMAIN tasks = 1..Len(tasks)
         /\ \A t \in 1..Len(tasks) : tasks[t] \in Tasks
  BY ElementOfSeq, LenProperties, ResearchFlowAssumption DEF TasksOK

\* What the planner says asks for no more than is left.
LEMMA PlansAllow ==
  ASSUME NEW asked, NEW kind \in Plans(asked)
  PROVE  kind \in Decisions /\ (kind = "clarify" => asked < Questions)
  BY DEF Plans, Decisions

\* A ledger that says something else leaves the tasks in order.
LEMMA Saying ==
  ASSUME TasksOK, NEW t \in 1..Len(tasks), NEW kind \in RecordKinds, NEW n \in Nat,
         NEW asked \in 0..Questions, kind = "clarify" => asked < Questions,
         Says(t, kind, n, asked)
  PROVE  TasksOK' /\ Len(tasks') = Len(tasks)
<1> DEFINE said == [tasks[t] EXCEPT !.kind = kind, !.n = n, !.asked = asked]
<1>1. \A u \in 1..Len(tasks) : tasks[u] \in Tasks
  BY TaskFacts
<1>2. /\ said \in Tasks
      /\ said.kind = kind /\ said.asked = asked
      /\ said.active = tasks[t].active /\ said.data = tasks[t].data
  BY <1>1 DEF Tasks, RecordKinds
<1>3. tasks' = [tasks EXCEPT ![t] = said]
  BY TaskFacts DEF Says, TasksOK
<1> HIDE DEF said
<1>4. /\ tasks' \in Seq(Tasks) /\ Len(tasks') = Len(tasks)
      /\ \A u \in 1..Len(tasks) : tasks'[u] = IF u = t THEN said ELSE tasks[u]
  BY <1>2, <1>3, ExceptSeq, TaskFacts DEF TasksOK
<1> QED
  BY <1>2, <1>4 DEF TasksOK

\* So does a new task of a dataset that has none that is open.
LEMMA Opening ==
  ASSUME TasksOK, Len(tasks) < MaxTasks, NEW task \in Tasks,
         task.kind = "clarify" => task.asked < Questions,
         \A t \in 1..Len(tasks) : ~(tasks[t].active /\ tasks[t].data = task.data),
         tasks' = Append(tasks, task)
  PROVE  TasksOK' /\ Len(tasks') = Len(tasks) + 1
<1>1. /\ tasks' \in Seq(Tasks) /\ Len(tasks') = Len(tasks) + 1 /\ Len(tasks) \in Nat
      /\ \A t \in 1..Len(tasks) : tasks'[t] = tasks[t]
      /\ tasks'[Len(tasks) + 1] = task
  BY AppendProperties, TaskFacts DEF TasksOK
<1>2. \A t \in 1..Len(tasks') : t \in 1..Len(tasks) \/ t = Len(tasks) + 1
  BY <1>1
<1>3. Len(tasks') <= MaxTasks
  BY <1>1, ResearchFlowAssumption
<1>4. \A t \in 1..Len(tasks') : tasks'[t].kind = "clarify" => tasks'[t].asked < Questions
  BY <1>1, <1>2 DEF TasksOK
<1>5. \A t, u \in 1..Len(tasks') :
        tasks'[t].active /\ tasks'[u].active /\ tasks'[t].data = tasks'[u].data => t = u
  BY <1>1, <1>2 DEF TasksOK
<1> QED
  BY <1>1, <1>3, <1>4, <1>5 DEF TasksOK

Closed(h) == [tasks EXCEPT ![h].active = FALSE]

\* Closing one as well.
LEMMA Closing ==
  ASSUME TasksOK, NEW h \in 1..Len(tasks)
  PROVE  /\ Closed(h) \in Seq(Tasks) /\ Len(Closed(h)) = Len(tasks)
         /\ \A t \in 1..Len(tasks) :
              /\ Closed(h)[t].data = tasks[t].data /\ Closed(h)[t].kind = tasks[t].kind
              /\ Closed(h)[t].asked = tasks[t].asked
              /\ Closed(h)[t].active <=> tasks[t].active /\ t # h
<1> DEFINE closed == [tasks[h] EXCEPT !.active = FALSE]
<1>1. \A t \in 1..Len(tasks) : tasks[t] \in Tasks
  BY TaskFacts
<1>2. /\ closed \in Tasks /\ closed.active = FALSE /\ closed.data = tasks[h].data
      /\ closed.kind = tasks[h].kind /\ closed.asked = tasks[h].asked
  BY <1>1 DEF Tasks
<1>3. Closed(h) = [tasks EXCEPT ![h] = closed]
  BY TaskFacts DEF Closed, TasksOK
<1> HIDE DEF closed
<1>4. /\ Closed(h) \in Seq(Tasks) /\ Len(Closed(h)) = Len(tasks)
      /\ \A t \in 1..Len(tasks) : Closed(h)[t] = IF t = h THEN closed ELSE tasks[t]
  BY <1>2, <1>3, ExceptSeq, TaskFacts DEF TasksOK
<1> QED
  BY <1>1, <1>2, <1>4 DEF Tasks

\* A view of a record is a view.
LEMMA RecordViewTyped ==
  ASSUME RtOK, PipelineOK, rt.record # NoRecord, NEW v \in 1..MaxVersion \cup {0}
  PROVE  RecordView(rt.record, rt.identity, rt.seen, v) \in Views
<1>1. /\ rt.record.of \in (0..MaxTasks) \X Nat /\ rt.record.kind \in RecordKinds
  BY DEF RtOK, Records
<1>2. StateOf(rt.record.kind, rt.seen) \in States
  BY <1>1 DEF StateOf, States, Durable, RecordKinds, Decisions
<1>3. Transient("replan_required") \in Views
  BY ResearchFlowAssumption DEF Transient, NoDecision, Views, States
<1>4. v \in 0..MaxVersion
  BY ResearchFlowAssumption
<1> QED
  BY <1>1, <1>2, <1>3, <1>4 DEF RecordView, Views

LEMMA TransientTyped ==
  ASSUME NEW state \in States
  PROVE  Transient(state) \in Views
  BY ResearchFlowAssumption DEF Transient, NoDecision, Views

------------------------------------------------------------------------------
(* The steps of a job.                                                      *)

\* A job that ends with a result.
LEMMA Ending ==
  ASSUME TInv, queue # <<>>, NEW v \in Views, Post(v), WorkerOnly, RtOK', TasksOK'
  PROVE  TInv'
<1>1. ControllerOK' /\ PipelineOK'
  BY DEF TInv, WorkerOnly, controller, pipeline, ControllerOK, PipelineOK
<1>2. QueueOK' /\ PostedOK' /\ HeadOK'
  BY Posting DEF TInv
<1> QED
  BY <1>1, <1>2 DEF TInv

\* A job that has only looked at something ends.
LEMMA EndingIdle ==
  ASSUME TInv, queue # <<>>, NEW state \in States, Post(Transient(state)), WorkerOnly,
         rt' = rt, tasks' = tasks
  PROVE  TInv'
<1>1. RtOK' /\ TasksOK'
  BY DEF TInv, RtOK, TasksOK
<1> QED
  BY <1>1, Ending, TransientTyped

\* A job goes on: what its next point requires is left to show.
LEMMA Proceeding ==
  ASSUME TInv, queue # <<>>, NEW job \in Jobs, Goto(job), WorkerOnly, RtOK', TasksOK',
         Job' = job => HeadOK'
  PROVE  TInv'
<1>1. ControllerOK' /\ PipelineOK'
  BY DEF TInv, WorkerOnly, controller, pipeline, ControllerOK, PipelineOK
<1>2. QueueOK' /\ posted' = posted /\ Job' = job
  BY Going DEF TInv
<1> QED
  BY <1>1, <1>2 DEF TInv, PostedOK

LEMMA IdentityTyped ==
  ASSUME TInv, queue # <<>>
  PROVE  /\ Identity \in [version : 1..MaxVersion, data : Datas]
         /\ Identity.version = Job.version
  BY QueueFacts, ResearchFlowAssumption
     DEF TInv, RtOK, PipelineOK, Identity, Caches, NoIdentity, Jobs

LEMMA CaptureKeeps ==
  ASSUME TInv, Capture
  PROVE  TInv'
<1>1. queue # <<>> /\ Job \in Jobs /\ Job.pc = "queued" /\ Job.op # "rerun"
  BY QueueFacts DEF TInv, Capture, At
<1>2. WorkerOnly /\ tasks' = tasks
  BY DEF Capture
<1>3. CASE Post(Transient("failure")) /\ rt' = rt
  BY <1>1, <1>2, <1>3, EndingIdle DEF States, Failures
<1>4. CASE Post(Transient("replan_required")) /\ rt' = rt
  BY <1>1, <1>2, <1>4, EndingIdle DEF States
<1>5. CASE /\ ~Refused /\ Job.op = "retract" /\ rt' = rt
           /\ Goto([Job EXCEPT !.pc = "captured"])
  <2> DEFINE job == [Job EXCEPT !.pc = "captured"]
  <2>1. job \in Jobs /\ job.op = "retract" /\ job.pc = "captured"
    BY <1>1, <1>5 DEF Jobs
  <2>2. RtOK' /\ TasksOK'
    BY <1>2, <1>5 DEF TInv, RtOK, TasksOK
  <2>3. rt.record.kind \in Decisions
    BY <1>5 DEF Refused
  <2>4. Job' = job => HeadOK'
    BY <1>5, <2>1, <2>3 DEF HeadOK
  <2> HIDE DEF job
  <2> QED
    BY <1>1, <1>2, <1>5, <2>1, <2>2, <2>4, Proceeding DEF job
<1>6. CASE /\ ~Refused /\ Job.op # "retract" /\ (Fresh => rt.identity.version = Job.version)
           /\ Goto([Job EXCEPT !.pc = "captured", !.data = Identity.data, !.seen = data])
           /\ rt' = [rt EXCEPT !.cache = Identity]
  <2> DEFINE job == [Job EXCEPT !.pc = "captured", !.data = Identity.data, !.seen = data]
  <2>1. /\ job \in Jobs /\ job.op = Job.op /\ job.pc = "captured" /\ job.data \in Datas
        /\ job.version = Job.version
    BY <1>1, IdentityTyped DEF Jobs, TInv, PipelineOK
  <2>2. /\ RtOK' /\ TasksOK'
        /\ rt'.record = rt.record /\ rt'.identity = rt.identity
    BY <1>1, <1>2, <1>6, IdentityTyped DEF TInv, RtOK, TasksOK, Caches
  <2>3. job.op = "prepare" => rt.record.kind = "candidate"
    BY <1>6, <2>1 DEF Refused
  <2>4. Job' = job => HeadOK'
    BY <1>1, <1>6, <2>1, <2>2, <2>3 DEF HeadOK, Fresh, Starts
  <2> HIDE DEF job
  <2> QED
    BY <1>1, <1>2, <1>6, <2>1, <2>2, <2>4, Proceeding DEF job
<1> QED
  BY <1>3, <1>4, <1>5, <1>6 DEF Capture

LEMMA CheckKeeps ==
  ASSUME TInv, Check
  PROVE  TInv'
<1>1. queue # <<>> /\ Job \in Jobs /\ Job.pc = "captured"
  BY QueueFacts DEF TInv, Check, At
<1>2. WorkerOnly /\ tasks' = tasks
  BY DEF Check
<1>3. CASE Post(Transient("cancelled")) /\ rt' = rt
  BY <1>1, <1>2, <1>3, EndingIdle DEF States
<1>4. CASE Post(Transient("replan_required")) /\ rt' = rt
  BY <1>1, <1>2, <1>4, EndingIdle DEF States
<1>5. CASE /\ Goto([Job EXCEPT !.pc = "checked"])
           /\ rt' = [rt EXCEPT !.seen = IF Fresh THEN Job.seen ELSE @]
  <2> DEFINE job == [Job EXCEPT !.pc = "checked"]
  <2>1. /\ job \in Jobs /\ job.op = Job.op /\ job.pc = "checked" /\ job.data = Job.data
        /\ job.version = Job.version
    BY <1>1 DEF Jobs
  <2>2. /\ RtOK' /\ TasksOK'
        /\ rt'.record = rt.record /\ rt'.identity = rt.identity
    BY <1>1, <1>2, <1>5 DEF TInv, RtOK, TasksOK, Jobs
  <2>3. Job' = job => HeadOK'
    BY <1>1, <1>5, <2>1, <2>2 DEF TInv, HeadOK, Fresh, Starts
  <2> HIDE DEF job
  <2> QED
    BY <1>1, <1>2, <1>5, <2>1, <2>2, <2>3, Proceeding DEF job
<1> QED
  BY <1>3, <1>4, <1>5 DEF Check

\* An open task of a dataset is a task.
LEMMA ActiveForTyped ==
  ASSUME TasksOK, NEW d, NEW t \in ActiveFor(d)
  PROVE  t \in 1..Len(tasks) /\ tasks[t] \in Tasks /\ tasks[t].active /\ tasks[t].data = d
  BY TaskFacts DEF ActiveFor

LEMMA LocateKeeps ==
  ASSUME TInv, Locate
  PROVE  TInv'
<1> DEFINE found  == ActiveFor(Job.data)
           handle == IF found = {} THEN 0 ELSE CHOOSE t \in found : TRUE
           known  == found # {} /\ tasks[handle].kind # "empty"
           job    == [Job EXCEPT !.pc = "acted"]
<1>1. queue # <<>> /\ Job \in Jobs /\ Job.pc = "checked" /\ Starts
  BY QueueFacts DEF TInv, Locate, At
<1>2. WorkerOnly /\ tasks' = tasks /\ TasksOK'
  BY DEF Locate, TInv, TasksOK
<1>3. handle = 0 \/ (handle \in 1..Len(tasks) /\ tasks[handle] \in Tasks)
  BY ActiveForTyped DEF TInv
<1>4. rt' = [rt EXCEPT !.identity = [version |-> Job.version, data |-> Job.data],
                       !.seen = Job.seen, !.handle = handle,
                       !.record = IF known THEN Record(handle) ELSE NoRecord]
  BY DEF Locate
<1>5. known => /\ handle \in 1..Len(tasks) /\ Record(handle) \in Records
               /\ Goto(job)
  <2>1. known => handle \in 1..Len(tasks) /\ tasks[handle] \in Tasks
    BY ActiveForTyped DEF TInv
  <2>2. Len(tasks) \in 0..MaxTasks
    BY TaskFacts DEF TInv
  <2>3. \A t \in 1..Len(tasks) : tasks[t].kind # "empty" => Record(t) \in Records
    <3> SUFFICES ASSUME NEW t \in 1..Len(tasks), tasks[t].kind # "empty"
                 PROVE  Record(t) \in Records
      OBVIOUS
    <3>1. tasks[t].kind \in RecordKinds /\ tasks[t].n \in Nat
      BY TaskFacts DEF TInv, Tasks, RecordKinds
    <3>2. t \in 1..MaxTasks
      BY <2>2, ResearchFlowAssumption
    <3> QED
      BY <3>1, <3>2 DEF Record, Records
  <2> QED
    BY <2>1, <2>3 DEF Locate
<1>6. ~known => Post(Transient("intake_causal"))
  BY DEF Locate
<1> HIDE DEF handle, known, found
<1>7. handle \in 0..Len(tasks)
  BY <1>3, TaskFacts DEF TInv
<1>8. [version |-> Job.version, data |-> Job.data] \in Identities
  BY <1>1, ResearchFlowAssumption DEF Jobs, Identities
<1>9. RtOK'
  <2> DEFINE record == IF known THEN Record(handle) ELSE NoRecord
  <2>1. record \in Records \union {NoRecord} /\ (record # NoRecord => handle # 0)
    BY <1>5
  <2> HIDE DEF record
  <2>2. rt' = [rt EXCEPT !.identity = [version |-> Job.version, data |-> Job.data],
                         !.seen = Job.seen, !.handle = handle, !.record = record]
    BY <1>4 DEF record
  <2>3. Job.seen \in Datas \union {NoData}
    BY <1>1 DEF Jobs
  <2> QED
    BY <1>2, <1>7, <1>8, <2>1, <2>2, <2>3 DEF TInv, RtOK
<1>10. CASE known
  <2>1. job \in Jobs /\ job.op = Job.op /\ job.pc = "acted" /\ job.data = Job.data
        /\ job.version = Job.version
    BY <1>1 DEF Jobs
  <2>2. rt'.record = Record(handle) /\ rt'.identity.version = Job.version
    BY <1>4, <1>10 DEF TInv, RtOK
  <2>3. rt'.record # NoRecord
    BY <1>5, <1>10, <2>2 DEF Records, NoRecord, RecordKinds, Decisions
  <2>4. Job.op \notin {"retract", "prepare", "rerun"}
    BY <1>1 DEF Starts
  <2>5. Job' = job => HeadOK'
    BY <1>1, <2>1, <2>2, <2>3, <2>4 DEF TInv, HeadOK
  <2> HIDE DEF job
  <2> QED
    BY <1>1, <1>2, <1>5, <1>9, <1>10, <2>1, <2>5, Proceeding
<1>11. CASE ~known
  BY <1>1, <1>2, <1>6, <1>9, <1>11, Ending, TransientTyped DEF States
<1> QED
  BY <1>10, <1>11

LEMMA StartReplanKeeps ==
  ASSUME TInv, StartReplan
  PROVE  TInv'
<1> DEFINE h      == rt.handle
           others == ActiveFor(Job.data) \ {h}
           Intake(t) == rt' = [rt EXCEPT !.identity = [version |-> Job.version,
                                                        data |-> Job.data],
                                         !.seen = Job.seen, !.handle = t,
                                         !.record = NoRecord]
<1>1. queue # <<>> /\ Job \in Jobs /\ Job.pc = "checked" /\ Job.op = "replan"
  BY QueueFacts DEF TInv, StartReplan, At
<1>2. WorkerOnly
  BY DEF StartReplan
<1>3. h \in 0..Len(tasks) /\ Len(tasks) \in 0..MaxTasks
  BY TaskFacts DEF TInv, RtOK
<1>4. Job.data \in Datas
  BY <1>1 DEF TInv, HeadOK
<1>5. ASSUME NEW t \in 0..Len(tasks'), Intake(t)
      PROVE  RtOK'
  <2>1. [version |-> Job.version, data |-> Job.data] \in Identities
    BY <1>1, ResearchFlowAssumption DEF Jobs, Identities
  <2> QED
    BY <1>1, <1>5, <2>1 DEF TInv, RtOK, Jobs
<1>6. CASE h = 0 /\ Intake(0) /\ tasks' = tasks /\ Post(Transient("intake_causal"))
  <2>1. TasksOK' /\ 0 \in 0..Len(tasks')
    BY <1>3, <1>6 DEF TInv, TasksOK
  <2>2. RtOK'
    BY <1>5, <1>6, <2>1
  <2> QED
    BY <1>1, <1>2, <1>6, <2>1, <2>2, Ending, TransientTyped DEF States
<1>7. ASSUME NEW t \in others, h # 0, Intake(t), tasks' = Closed(h),
             Post(Transient("intake_causal"))
      PROVE  TInv'
  <2>1. h \in 1..Len(tasks)
    BY <1>3, <1>7
  <2>2. t \in 1..Len(tasks)
    BY ActiveForTyped DEF TInv
  <2>3. TasksOK' /\ Len(tasks') = Len(tasks)
    BY <1>7, <2>1, Closing DEF TInv, TasksOK
  <2>4. t \in 0..Len(tasks')
    BY <1>3, <2>2, <2>3
  <2>5. RtOK'
    BY <1>5, <1>7, <2>4
  <2> QED
    BY <1>1, <1>2, <1>7, <2>3, <2>5, Ending, TransientTyped DEF States
<1>8. CASE /\ h # 0 /\ others = {} /\ Len(tasks) < MaxTasks /\ Intake(Len(tasks) + 1)
           /\ tasks' = Append(Closed(h), NewTask(Job.data))
           /\ Post(Transient("intake_causal"))
  <2> DEFINE task == NewTask(Job.data)
  <2>1. h \in 1..Len(tasks)
    BY <1>3, <1>8
  <2>2. task \in Tasks /\ task.kind = "empty" /\ task.data = Job.data /\ task.active
    BY <1>4, ResearchFlowAssumption DEF NewTask, Tasks
  <2>3. \A t \in 1..Len(tasks) : ~(tasks[t].active /\ tasks[t].data = Job.data) \/ t = h
    BY <1>8, TaskFacts DEF ActiveFor, TInv
  <2>4. /\ Closed(h) \in Seq(Tasks) /\ Len(Closed(h)) = Len(tasks)
        /\ \A t \in 1..Len(tasks) : ~(Closed(h)[t].active /\ Closed(h)[t].data = task.data)
        /\ \A t \in 1..Len(tasks) : /\ Closed(h)[t].data = tasks[t].data
                                    /\ Closed(h)[t].kind = tasks[t].kind
                                    /\ Closed(h)[t].asked = tasks[t].asked
                                    /\ Closed(h)[t].active => tasks[t].active
    BY <2>1, <2>2, <2>3, Closing DEF TInv
  <2> HIDE DEF task
  <2>5. /\ tasks' \in Seq(Tasks) /\ Len(tasks') = Len(tasks) + 1
        /\ \A t \in 1..Len(tasks) : tasks'[t] = Closed(h)[t]
        /\ tasks'[Len(tasks) + 1] = task
    BY <1>8, <2>2, <2>4, AppendProperties DEF task
  <2>6. \A t \in 1..Len(tasks') : t \in 1..Len(tasks) \/ t = Len(tasks) + 1
    BY <1>3, <2>5, ResearchFlowAssumption
  <2>7. \A t \in 1..Len(tasks') : tasks'[t].kind = "clarify" => tasks'[t].asked < Questions
    BY <2>2, <2>4, <2>5, <2>6 DEF TInv, TasksOK
  <2>8. \A t, u \in 1..Len(tasks') :
          tasks'[t].active /\ tasks'[u].active /\ tasks'[t].data = tasks'[u].data => t = u
    BY <2>2, <2>4, <2>5, <2>6 DEF TInv, TasksOK
  <2>9. Len(tasks') <= MaxTasks /\ Len(tasks) + 1 \in 0..Len(tasks')
    BY <1>3, <1>8, <2>5, ResearchFlowAssumption
  <2>10. TasksOK'
    BY <2>5, <2>7, <2>8, <2>9 DEF TasksOK
  <2>11. RtOK'
    BY <1>5, <1>8, <2>9
  <2> QED
    BY <1>1, <1>2, <1>8, <2>10, <2>11, Ending, TransientTyped DEF States
<1>9. CASE Post(Transient("corruption")) /\ rt' = rt /\ tasks' = tasks
  BY <1>1, <1>2, <1>9, EndingIdle DEF States, Failures
<1> QED
  BY <1>6, <1>7, <1>8, <1>9 DEF StartReplan, Closed

\* A job has written: its record is the task's, and its view is still to be made.
LEMMA Doing ==
  ASSUME TInv, At("checked"), Job.op # "prepare", WorkerOnly, TasksOK',
         NEW t \in 1..Len(tasks'), NEW kind \in RecordKinds, NEW n \in Nat, Done(t, kind, n),
         Job.op # "retract" => rt.identity.version = Job.version
  PROVE  TInv'
<1> DEFINE job    == [Job EXCEPT !.pc = "acted"]
           record == [of |-> <<t, n>>, kind |-> kind]
<1>1. queue # <<>> /\ Job \in Jobs /\ Job.pc = "checked"
  BY QueueFacts DEF TInv, At
<1>2. /\ job \in Jobs /\ job.op = Job.op /\ job.pc = "acted" /\ job.data = Job.data
      /\ job.version = Job.version
  BY <1>1 DEF Jobs
<1>3. t \in 1..MaxTasks /\ t \in 0..Len(tasks') /\ t # 0
  BY ResearchFlowAssumption DEF TasksOK
<1>4. record \in Records /\ record # NoRecord
  BY <1>3 DEF Records, NoRecord, RecordKinds, Decisions
<1>5. Goto(job) /\ rt' = [rt EXCEPT !.handle = t, !.record = record]
  BY DEF Done
<1> HIDE DEF record
<1>6. RtOK' /\ rt'.record = record /\ rt'.identity = rt.identity
  BY <1>3, <1>4, <1>5 DEF TInv, RtOK
<1>7. Job' = job => HeadOK'
  BY <1>1, <1>2, <1>4, <1>6 DEF TInv, HeadOK
<1> HIDE DEF job
<1> QED
  BY <1>1, <1>2, <1>5, <1>6, <1>7, Proceeding

\* What a job that goes through _fresh_context knows once it has been checked.
LEMMA FreshIdentity ==
  ASSUME TInv, At("checked"), Job.op \notin {"start", "replan", "retract"},
         Job.op = "resume" => rt.record.kind = "pending"
  PROVE  rt.identity.version = Job.version
  BY DEF TInv, HeadOK, Fresh, Starts, At

\* The record at hand is what the ledger of an open task says.
LEMMA CurrentFacts ==
  ASSUME TInv, Current
  PROVE  /\ rt.handle \in 1..Len(tasks) /\ tasks[rt.handle] \in Tasks
         /\ tasks[rt.handle].kind = rt.record.kind
         /\ rt.record.kind = "clarify" => tasks[rt.handle].asked + 1 \in 0..Questions
         /\ tasks[rt.handle].n + 1 \in Nat
<1>1. rt.handle \in 1..Len(tasks)
  BY TaskFacts DEF Current, TInv, RtOK
<1>2. tasks[rt.handle] \in Tasks
  BY <1>1, TaskFacts DEF TInv
<1>3. tasks[rt.handle].kind = rt.record.kind
  BY DEF Current, Record
<1>4. tasks[rt.handle].n \in Nat /\ tasks[rt.handle].asked \in 0..Questions
  BY <1>2 DEF Tasks
<1>5. Questions \in Nat
  BY ResearchFlowAssumption
<1>6. tasks[rt.handle].kind = "clarify" => tasks[rt.handle].asked < Questions
  BY <1>1 DEF TInv, TasksOK
<1>7. rt.record.kind = "clarify" => tasks[rt.handle].asked + 1 \in 0..Questions
  BY <1>3, <1>4, <1>5, <1>6
<1>8. tasks[rt.handle].n + 1 \in Nat
  BY <1>4
<1> QED
  BY <1>1, <1>2, <1>3, <1>7, <1>8

LEMMA CommitInitialKeeps ==
  ASSUME TInv, CommitInitial
  PROVE  TInv'
<1> DEFINE found == IF rt.handle # 0 THEN {rt.handle} ELSE ActiveFor(Job.data)
           fresh == Len(tasks) + 1
<1>1. /\ queue # <<>> /\ Job \in Jobs /\ Job.op \in {"initial", "causal"}
      /\ At("checked") /\ Job.data \in Datas /\ WorkerOnly
  BY QueueFacts DEF TInv, HeadOK, CommitInitial, At
<1>2. rt.identity.version = Job.version
  BY <1>1, FreshIdentity
<1>3. \A t \in found : t \in 1..Len(tasks)
  BY ActiveForTyped, TaskFacts DEF TInv, RtOK
<1>4. \A kind \in FirstDecisions : /\ kind \in RecordKinds
                                   /\ kind = "clarify" => 0 < Questions
  BY PlansAllow DEF FirstDecisions, RecordKinds, Decisions
<1>5. ASSUME NEW t \in found, NEW kind \in FirstDecisions, Says(t, kind, 1, 0), Done(t, kind, 1)
      PROVE  TInv'
  <2>1. TasksOK' /\ Len(tasks') = Len(tasks)
    BY <1>3, <1>4, <1>5, Saying, ResearchFlowAssumption DEF TInv
  <2>2. t \in 1..Len(tasks') /\ kind \in RecordKinds
    BY <1>3, <1>4, <1>5, <2>1
  <2> QED
    BY <1>1, <1>2, <1>5, <2>1, <2>2, Doing
<1>6. ASSUME NEW kind \in FirstDecisions, found = {}, Len(tasks) < MaxTasks,
             tasks' = Append(tasks, [NewTask(Job.data) EXCEPT !.kind = kind, !.n = 1]),
             Done(fresh, kind, 1)
      PROVE  TInv'
  <2> DEFINE task == [NewTask(Job.data) EXCEPT !.kind = kind, !.n = 1]
  <2>1. /\ task \in Tasks /\ task.kind = kind /\ task.asked = 0 /\ task.data = Job.data
    <3>1. /\ NewTask(Job.data) \in Tasks
          /\ NewTask(Job.data).asked = 0 /\ NewTask(Job.data).data = Job.data
      BY <1>1, ResearchFlowAssumption DEF NewTask, Tasks
    <3>2. kind \in Decisions \union {"empty", "pending", "retracted"}
      BY <1>4 DEF RecordKinds
    <3> QED
      BY <3>1, <3>2 DEF Tasks
  <2>2. \A t \in 1..Len(tasks) : ~(tasks[t].active /\ tasks[t].data = Job.data)
    BY <1>6, TaskFacts DEF ActiveFor, TInv
  <2>3. task.kind = "clarify" => task.asked < Questions
    BY <1>4, <2>1
  <2> HIDE DEF task
  <2>4. TasksOK' /\ Len(tasks') = Len(tasks) + 1
    BY <1>6, <2>1, <2>2, <2>3, Opening DEF TInv, task
  <2>5. fresh \in 1..Len(tasks') /\ kind \in RecordKinds
    BY <1>4, <1>6, <2>4, TaskFacts, ResearchFlowAssumption DEF TInv
  <2> HIDE DEF fresh
  <2> QED
    BY <1>1, <1>2, <1>6, <2>4, <2>5, Doing
<1>7. ASSUME NEW t \in found, rt' = [rt EXCEPT !.handle = t], Post(Transient("failure")),
             tasks' = tasks
      PROVE  TInv'
  <2>1. TasksOK'
    BY <1>7 DEF TInv, TasksOK
  <2>2. t \in 0..Len(tasks') /\ t # 0
    BY <1>3, <1>7
  <2>3. RtOK'
    BY <1>7, <2>2 DEF TInv, RtOK
  <2> QED
    BY <1>1, <1>7, <2>1, <2>3, Ending, TransientTyped DEF States, Failures
<1> QED
  BY <1>5, <1>6, <1>7 DEF CommitInitial

LEMMA CommitAnswerKeeps ==
  ASSUME TInv, CommitAnswer
  PROVE  TInv'
<1> DEFINE t == rt.handle
           n == tasks[t].n + 1
           asked == tasks[t].asked + 1
<1>1. At("checked") /\ Job.op = "answer" /\ Current /\ rt.record.kind = "clarify" /\ WorkerOnly
  BY DEF CommitAnswer, Asks
<1>2. rt.identity.version = Job.version
  BY <1>1, FreshIdentity
<1>3. t \in 1..Len(tasks) /\ n \in Nat /\ asked \in 0..Questions
  BY <1>1, CurrentFacts
<1>4. PICK kind \in Plans(asked) : Says(t, kind, n, asked) /\ Done(t, kind, n)
  BY DEF CommitAnswer
<1> HIDE DEF n, asked
<1>5. kind \in RecordKinds /\ (kind = "clarify" => asked < Questions)
  BY PlansAllow DEF RecordKinds
<1>6. TasksOK' /\ Len(tasks') = Len(tasks)
  BY <1>3, <1>4, <1>5, Saying DEF TInv
<1>7. t \in 1..Len(tasks')
  BY <1>3, <1>6
<1> HIDE DEF t
<1> QED
  BY <1>1, <1>2, <1>3, <1>4, <1>5, <1>6, <1>7, Doing

LEMMA ResumePendingKeeps ==
  ASSUME TInv, ResumePending
  PROVE  TInv'
<1> DEFINE t == rt.handle
           n == tasks[t].n + 1
           asked == tasks[t].asked
<1>1. At("checked") /\ Job.op = "resume" /\ Current /\ rt.record.kind = "pending" /\ WorkerOnly
  BY DEF ResumePending
<1>2. rt.identity.version = Job.version
  BY <1>1, FreshIdentity
<1>3. t \in 1..Len(tasks) /\ n \in Nat /\ asked \in 0..Questions
  BY <1>1, CurrentFacts DEF Tasks
<1>4. PICK kind \in Plans(asked) : Says(t, kind, n, asked) /\ Done(t, kind, n)
  BY DEF ResumePending
<1> HIDE DEF n, asked
<1>5. kind \in RecordKinds /\ (kind = "clarify" => asked < Questions)
  BY PlansAllow DEF RecordKinds
<1>6. TasksOK' /\ Len(tasks') = Len(tasks)
  BY <1>3, <1>4, <1>5, Saying DEF TInv
<1>7. t \in 1..Len(tasks')
  BY <1>3, <1>6
<1> HIDE DEF t
<1> QED
  BY <1>1, <1>2, <1>3, <1>4, <1>5, <1>6, <1>7, Doing

LEMMA RetractCurrentKeeps ==
  ASSUME TInv, RetractCurrent
  PROVE  TInv'
<1> DEFINE t == rt.handle
           n == tasks[t].n
           asked == tasks[t].asked
<1>1. At("checked") /\ Job.op = "retract" /\ WorkerOnly
  BY DEF RetractCurrent
<1>2. rt.record.kind \in Decisions
  BY <1>1 DEF TInv, HeadOK, At
<1>3. t \in 1..Len(tasks)
  BY <1>2, TaskFacts DEF TInv, RtOK, NoRecord, Decisions
<1>4. n \in Nat /\ asked \in 0..Questions
  BY <1>3, TaskFacts DEF TInv, Tasks
<1>5. Says(t, "retracted", n, asked) /\ Done(t, "retracted", n)
  BY DEF RetractCurrent
<1>6. "retracted" \in RecordKinds
  BY DEF RecordKinds
<1> HIDE DEF n, asked
<1>7. TasksOK' /\ Len(tasks') = Len(tasks)
  BY <1>3, <1>4, <1>5, <1>6, Saying DEF TInv
<1>8. t \in 1..Len(tasks')
  BY <1>3, <1>7
<1> HIDE DEF t
<1> QED
  BY <1>1, <1>4, <1>5, <1>6, <1>7, <1>8, Doing

LEMMA ConflictKeeps ==
  ASSUME TInv, Conflict
  PROVE  TInv'
  BY EndingIdle DEF Conflict, At, States, Failures

LEMMA ReviewMeaningsKeeps ==
  ASSUME TInv, ReviewMeanings
  PROVE  TInv'
<1> DEFINE v == [state |-> "variable_meaning_review", of |-> NoDecision,
                 version |-> Job.version]
<1>1. queue # <<>> /\ Job \in Jobs /\ WorkerOnly /\ Post(v) /\ rt' = rt /\ tasks' = tasks
  BY QueueFacts DEF TInv, ReviewMeanings, At
<1>2. v \in Views
  BY <1>1, ResearchFlowAssumption DEF Views, States, Reviews, NoDecision, Jobs
<1>3. RtOK' /\ TasksOK'
  BY <1>1 DEF TInv, RtOK, TasksOK
<1> HIDE DEF v
<1> QED
  BY <1>1, <1>2, <1>3, Ending

LEMMA PrepareCandidateKeeps ==
  ASSUME TInv, PrepareCandidate
  PROVE  TInv'
<1> DEFINE job == [Job EXCEPT !.pc = "acted"]
<1>1. /\ queue # <<>> /\ Job \in Jobs /\ Job.pc = "checked" /\ Job.op = "prepare"
      /\ At("checked") /\ WorkerOnly /\ Goto(job) /\ rt' = rt /\ tasks' = tasks
  BY QueueFacts DEF TInv, PrepareCandidate, At
<1>2. /\ job \in Jobs /\ job.op = Job.op /\ job.pc = "acted" /\ job.data = Job.data
      /\ job.version = Job.version
  BY <1>1 DEF Jobs
<1>3. rt.identity.version = Job.version
  BY <1>1, FreshIdentity
<1>4. RtOK' /\ TasksOK'
  BY <1>1 DEF TInv, RtOK, TasksOK
<1>5. rt.record.kind = "candidate" /\ Job.data \in Datas
  BY <1>1 DEF TInv, HeadOK
<1>6. Job' = job => HeadOK'
  BY <1>1, <1>2, <1>3, <1>5 DEF HeadOK, NoRecord
<1> HIDE DEF job
<1> QED
  BY <1>1, <1>2, <1>4, <1>6, Proceeding

LEMMA PublishKeeps ==
  ASSUME TInv, Publish
  PROVE  TInv'
<1> DEFINE shown == RecordView(rt.record, rt.identity, rt.seen, rt.identity.version)
           v == IF Job.op = "prepare" /\ shown.state = "candidate_ready"
                  THEN [shown EXCEPT !.state = "prepare_review"] ELSE shown
<1>1. queue # <<>> /\ Job.pc = "acted" /\ WorkerOnly /\ Post(v) /\ rt' = rt /\ tasks' = tasks
  BY DEF Publish, At
<1>2. rt.record # NoRecord
  BY <1>1 DEF TInv, HeadOK
<1>3. rt.identity.version \in 1..MaxVersion \cup {0}
  BY ResearchFlowAssumption DEF TInv, RtOK, Identities
<1>4. shown \in Views
  BY <1>2, <1>3, RecordViewTyped DEF TInv
<1> HIDE DEF shown
<1>5. v \in Views
  BY <1>4 DEF Views, States, Reviews
<1>6. RtOK' /\ TasksOK'
  BY <1>1 DEF TInv, RtOK, TasksOK
<1> HIDE DEF v
<1> QED
  BY <1>1, <1>5, <1>6, Ending

\* What an unfinished job leaves in a ledger.
LEMMA UnfinishedKeeps ==
  ASSUME TasksOK, NEW t \in 1..Len(tasks), NEW kinds, NEW asked \in 0..Questions,
         \A kind \in kinds : kind \in RecordKinds /\ (kind = "clarify" => asked < Questions),
         Unfinished(t, kinds, asked)
  PROVE  TasksOK' /\ Len(tasks') = Len(tasks)
<1>1. PICK kind \in {"pending"} \union kinds :
        Says(t, kind, IF kind = "pending" THEN tasks[t].n ELSE tasks[t].n + 1, asked)
  BY DEF Unfinished
<1> DEFINE n == IF kind = "pending" THEN tasks[t].n ELSE tasks[t].n + 1
<1>2. n \in Nat
  BY TaskFacts DEF Tasks
<1>3. kind \in RecordKinds /\ (kind = "clarify" => asked < Questions)
  BY DEF RecordKinds
<1>4. Says(t, kind, n, asked)
  BY <1>1
<1> HIDE DEF n
<1> QED
  BY <1>2, <1>3, <1>4, Saying

LEMMA FailsAfterWritingKeeps ==
  ASSUME TInv, At("checked"), FailsAfterWriting
  PROVE  TasksOK' /\ RtOK'
<1> DEFINE h == rt.handle
<1>1. /\ queue # <<>> /\ Job \in Jobs
      /\ Job.op \notin {"retract", "rerun"} => Job.data \in Datas
      /\ h \in 0..Len(tasks) /\ Len(tasks) \in 0..MaxTasks
  BY QueueFacts, TaskFacts DEF TInv, HeadOK, RtOK, At
<1>2. ASSUME rt' = rt, TasksOK', Len(tasks') = Len(tasks)
      PROVE  TasksOK' /\ RtOK'
  BY <1>2 DEF TInv, RtOK
<1>3. CASE Job.op = "answer" /\ Asks /\ rt' = rt /\
           LET asked == tasks[h].asked + 1 IN Unfinished(h, Plans(asked), asked)
  <2> DEFINE asked == tasks[h].asked + 1
  <2>1. h \in 1..Len(tasks) /\ asked \in 0..Questions
    BY <1>3, CurrentFacts DEF Asks
  <2>2. Unfinished(h, Plans(asked), asked)
    BY <1>3
  <2> HIDE DEF asked
  <2>3. \A kind \in Plans(asked) :
          kind \in RecordKinds /\ (kind = "clarify" => asked < Questions)
    BY PlansAllow DEF RecordKinds
  <2> QED
    BY <1>2, <1>3, <2>1, <2>2, <2>3, UnfinishedKeeps DEF TInv
<1>4. CASE Current /\ rt' = rt /\
           LET asked == tasks[h].asked IN Unfinished(h, Plans(asked), asked)
  <2> DEFINE asked == tasks[h].asked
  <2>1. h \in 1..Len(tasks) /\ asked \in 0..Questions
    BY <1>4, CurrentFacts DEF Tasks
  <2>2. Unfinished(h, Plans(asked), asked)
    BY <1>4
  <2> HIDE DEF asked
  <2>3. \A kind \in Plans(asked) :
          kind \in RecordKinds /\ (kind = "clarify" => asked < Questions)
    BY PlansAllow DEF RecordKinds
  <2> QED
    BY <1>2, <1>4, <2>1, <2>2, <2>3, UnfinishedKeeps DEF TInv
<1>5. CASE Current /\ rt' = rt /\ Says(h, "retracted", tasks[h].n, tasks[h].asked)
  <2>1. h \in 1..Len(tasks) /\ tasks[h].n \in Nat /\ tasks[h].asked \in 0..Questions
    BY <1>5, CurrentFacts DEF Tasks
  <2>2. "retracted" \in RecordKinds
    BY DEF RecordKinds
  <2> QED
    BY <1>2, <1>5, <2>1, <2>2, Saying DEF TInv
<1>6. CASE h # 0 /\ rt' = rt /\ Unfinished(h, FirstDecisions, 0)
  <2>1. \A kind \in FirstDecisions : /\ kind \in RecordKinds
                                     /\ kind = "clarify" => 0 < Questions
    BY PlansAllow DEF FirstDecisions, RecordKinds, Decisions
  <2>2. h \in 1..Len(tasks) /\ 0 \in 0..Questions
    BY <1>1, <1>6, ResearchFlowAssumption
  <2> QED
    BY <1>2, <1>6, <2>1, <2>2, UnfinishedKeeps DEF TInv
<1>7. CASE /\ Job.op \in {"initial", "causal"} /\ ActiveFor(Job.data) = {}
           /\ Len(tasks) < MaxTasks /\ tasks' = Append(tasks, NewTask(Job.data))
           /\ rt' \in {rt, [rt EXCEPT !.handle = Len(tasks) + 1]}
  <2>1. /\ NewTask(Job.data) \in Tasks /\ NewTask(Job.data).kind = "empty"
        /\ NewTask(Job.data).data = Job.data
    BY <1>1, <1>7, ResearchFlowAssumption DEF NewTask, Tasks
  <2>2. \A t \in 1..Len(tasks) : ~(tasks[t].active /\ tasks[t].data = Job.data)
    BY <1>7, TaskFacts DEF ActiveFor, TInv
  <2>3. TasksOK' /\ Len(tasks') = Len(tasks) + 1
    BY <1>7, <2>1, <2>2, Opening DEF TInv
  <2>4. /\ h \in 0..Len(tasks') /\ Len(tasks) + 1 \in 0..Len(tasks') /\ Len(tasks) + 1 # 0
    BY <1>1, <2>3, ResearchFlowAssumption
  <2>5. RtOK'
    BY <1>7, <2>4 DEF TInv, RtOK
  <2> QED
    BY <2>3, <2>5
<1> QED
  BY <1>3, <1>4, <1>5, <1>6, <1>7 DEF FailsAfterWriting

LEMMA FailJobKeeps ==
  ASSUME TInv, FailJob
  PROVE  TInv'
<1>1. PICK state \in Failures : Post(Transient(state))
  BY DEF FailJob
<1>2. queue # <<>> /\ WorkerOnly /\ state \in States
  BY DEF FailJob, States
<1>3. CASE rt' = rt /\ tasks' = tasks
  BY <1>1, <1>2, <1>3, EndingIdle
<1>4. CASE FailsAfterWriting
  <2>1. TasksOK' /\ RtOK'
    BY <1>4, FailsAfterWritingKeeps DEF FailsAfterWriting
  <2> QED
    BY <1>1, <1>2, <2>1, Ending, TransientTyped
<1> QED
  BY <1>3, <1>4 DEF FailJob

LEMMA RecomputeKeeps ==
  ASSUME TInv, Recompute
  PROVE  TInv'
<1>1. queue # <<>> /\ queue' = Tail(queue) /\ data' \in Datas
  BY DEF Recompute
<1>2. /\ queue' \in Seq(Jobs) /\ Len(queue') = Len(queue) - 1
      /\ \A i \in 1..Len(queue') : queue'[i] = queue[i + 1]
  BY <1>1, HeadTailProperties DEF TInv, QueueOK
<1>3. \A i \in 1..Len(queue') : queue'[i].pc = "queued"
  BY <1>1, <1>2, QueueFacts DEF TInv, QueueOK
<1>4. queue' # <<>> => Job'.pc = "queued"
  BY <1>2, <1>3, HeadTailProperties, EmptySeq, LenProperties DEF Job
<1>5. QueueOK' /\ HeadOK'
  BY <1>2, <1>3, <1>4 DEF QueueOK, HeadOK
<1>6. ControllerOK' /\ PostedOK' /\ TasksOK' /\ RtOK'
  BY DEF TInv, Recompute, controller, ControllerOK, PostedOK, TasksOK, RtOK
<1>7. PipelineOK'
  BY <1>1 DEF TInv, Recompute, PipelineOK
<1> QED
  BY <1>5, <1>6, <1>7 DEF TInv

LEMMA WorkerKeeps ==
  ASSUME TInv, Worker
  PROVE  TInv'
  BY CaptureKeeps, CheckKeeps, LocateKeeps, StartReplanKeeps, CommitInitialKeeps,
     CommitAnswerKeeps, ResumePendingKeeps, RetractCurrentKeeps, ConflictKeeps,
     ReviewMeaningsKeeps, PrepareCandidateKeeps, PublishKeeps, FailJobKeeps, RecomputeKeeps
     DEF Worker

------------------------------------------------------------------------------
(* The steps of the main thread.                                            *)

\* A step that leaves the jobs, their results and what they write alone.
LEMMA Beside ==
  ASSUME TInv, UNCHANGED <<queue, posted, tasks>>, ControllerOK', PipelineOK',
         rt' = rt \/ rt' = [rt EXCEPT !.cache = NoIdentity]
  PROVE  TInv'
<1>1. QueueOK' /\ PostedOK' /\ TasksOK'
  BY DEF TInv, QueueOK, PostedOK, TasksOK
<1>2. RtOK' /\ rt'.record = rt.record /\ rt'.identity = rt.identity
  BY DEF TInv, RtOK, Caches
<1>3. HeadOK'
  BY <1>2 DEF TInv, HeadOK, Job, Fresh, Starts
<1> QED
  BY <1>1, <1>2, <1>3 DEF TInv

LEMMA BusyStates ==
  ASSUME NEW op
  PROVE  BusyState(op) \in Waiting
  BY DEF BusyState, Waiting

Ops == {"start", "resume", "causal", "answer", "replan", "prepare", "review", "initial",
        "retract"}

LEMMA SubmitKeeps ==
  ASSUME TInv, NEW op \in Ops, NEW from \in Views, Submit(op, from),
         intake' \subseteq {"profile", "roles"}, review' \in BOOLEAN
  PROVE  TInv'
<1> DEFINE job == [run |-> run', version |-> version, op |-> op, of |-> from.of,
                   pc |-> "queued", data |-> NoData, seen |-> NoData]
<1>1. run' = run + 1 /\ run \in Nat /\ version \in 1..MaxVersion
  BY DEF Submit, TInv, ControllerOK, PipelineOK
<1>2. job \in Jobs /\ job.pc = "queued"
  BY <1>1 DEF Jobs, Ops, Views
<1>3. queue' = Append(queue, job) /\ rt' = rt
  BY DEF Submit
<1> HIDE DEF job
<1>4. QueueOK' /\ HeadOK'
  BY <1>2, <1>3, Queueing, HeadKept DEF TInv
<1>5. Transient(BusyState(op)) \in Views
  BY BusyStates, TransientTyped DEF States
<1>6. ControllerOK'
  BY <1>1, <1>5 DEF TInv, Submit, ControllerOK
<1>7. PostedOK' /\ TasksOK' /\ RtOK' /\ PipelineOK'
  BY DEF TInv, Submit, pipeline, PostedOK, TasksOK, RtOK, PipelineOK
<1> QED
  BY <1>4, <1>6, <1>7 DEF TInv

LEMMA CommandKeeps ==
  ASSUME TInv, NEW op \in Ops, NEW states, Command(op, states)
  PROVE  TInv'
  BY SubmitKeeps DEF Command, TInv, ControllerOK

LEMMA CommandsKeep ==
  ASSUME TInv,
         \/ Start \/ Resume \/ RecordCausalBoundary \/ Answer \/ Replan \/ Prepare
         \/ ConfirmVariableMeanings
  PROVE  TInv'
  BY CommandKeeps
     DEF Ops, Start, Resume, RecordCausalBoundary, Answer, Replan, Prepare,
         ConfirmVariableMeanings

LEMMA SubmitRolesKeeps ==
  ASSUME TInv, SubmitRoles
  PROVE  TInv'
<1>1. "review" \in Ops /\ view \in Views /\ Submit("review", view)
  BY DEF SubmitRoles, Ops, TInv, ControllerOK
<1>2. intake' \subseteq {"profile", "roles"} /\ review' \in BOOLEAN
  BY DEF SubmitRoles, TInv, ControllerOK
<1> QED
  BY <1>1, <1>2, SubmitKeeps

LEMMA TurnKeeps ==
  ASSUME TInv, NEW from, NEW to \in States, NEW held \in SUBSET {"profile", "roles"},
         Turn(from, to, held)
  PROVE  TInv'
<1>1. ControllerOK'
  BY TransientTyped DEF TInv, Turn, ControllerOK
<1>2. PipelineOK'
  BY DEF TInv, Turn, pipeline, PipelineOK
<1> QED
  BY <1>1, <1>2, Beside DEF Turn

LEMMA IntakeStepKeeps ==
  ASSUME TInv, IntakeStep
  PROVE  TInv'
<1>1. /\ {"intake_profile", "causal_scope_notice", "intake_blocked", "intake_roles",
           "scope_boundary", "intake_causal"} \subseteq States
      /\ intake \in SUBSET {"profile", "roles"}
  BY DEF States, Static, TInv, ControllerOK
<1>2. /\ intake \union {"profile"} \in SUBSET {"profile", "roles"}
      /\ intake \ {"roles"} \in SUBSET {"profile", "roles"}
  BY <1>1
<1> QED
  BY <1>1, <1>2, TurnKeeps DEF IntakeStep

LEMMA CancelKeeps ==
  ASSUME TInv, Cancel
  PROVE  TInv'
<1>1. view' \in Views
  BY TransientTyped DEF TInv, Cancel, ControllerOK, States
<1>2. ControllerOK'
  BY <1>1 DEF TInv, Cancel, ControllerOK
<1>3. PipelineOK'
  BY DEF TInv, Cancel, pipeline, PipelineOK
<1> QED
  BY <1>2, <1>3, Beside DEF Cancel

LEMMA DiscardedTyped ==
  ASSUME ControllerOK
  PROVE  Discarded \in Views /\ Kept \in BOOLEAN
  BY DEF Discarded, Kept, ControllerOK

LEMMA RetractKeeps ==
  ASSUME TInv, Retract
  PROVE  TInv'
<1>1. "retract" \in Ops /\ Discarded \in Views /\ Submit("retract", Discarded)
  BY DiscardedTyped DEF Retract, Ops, TInv
<1>2. intake' \subseteq {"profile", "roles"} /\ review' \in BOOLEAN
  BY DiscardedTyped DEF Retract, TInv, ControllerOK
<1> QED
  BY <1>1, <1>2, SubmitKeeps

LEMMA AdoptModeKeeps ==
  ASSUME TInv, AdoptMode
  PROVE  TInv'
<1>1. ControllerOK'
  BY DiscardedTyped DEF TInv, AdoptMode, ControllerOK
<1>2. PipelineOK'
  BY DEF TInv, AdoptMode, pipeline, PipelineOK
<1> QED
  BY <1>1, <1>2, Beside DEF AdoptMode

LEMMA AdoptLanguageKeeps ==
  ASSUME TInv, AdoptLanguage
  PROVE  TInv'
<1>1. view' \in Views
  BY RecordViewTyped DEF TInv, AdoptLanguage, PipelineOK
<1>2. ControllerOK'
  BY <1>1 DEF TInv, AdoptLanguage, ControllerOK
<1>3. PipelineOK'
  BY DEF TInv, AdoptLanguage, pipeline, PipelineOK
<1> QED
  BY <1>2, <1>3, Beside DEF AdoptLanguage

LEMMA DeliverKeeps ==
  ASSUME TInv, Deliver
  PROVE  TInv'
<1> DEFINE r     == Head(posted)
           stale == r.view.state = "prepare_review"
                      /\ tasks[r.view.of[1]].data # rt.identity.data
           shown == IF stale THEN Transient("failure") ELSE r.view
<1>1. r \in Results /\ posted' \in Seq(Results)
  BY HeadTailProperties DEF Deliver, TInv, PostedOK
<1>2. shown \in Views
  BY <1>1, TransientTyped DEF Results, States, Failures
<1>3. view' \in {view, shown} /\ event' \in {event, 0} /\ intake' \in {intake, {}}
  BY DEF Deliver
<1>4. busy' \in {busy, FALSE} /\ review' \in BOOLEAN
  BY DEF Deliver, TInv, ControllerOK
<1> HIDE DEF shown
<1>5. ControllerOK'
  <2>1. /\ view' \in Views /\ event' \in Nat /\ intake' \subseteq {"profile", "roles"}
    BY <1>2, <1>3 DEF TInv, ControllerOK
  <2>2. previous' \in Views /\ run' \in Nat /\ active' \in 1..MaxVersion /\ cancelled' \subseteq Nat
    BY DEF Deliver, TInv, ControllerOK
  <2>3. busy' \in BOOLEAN /\ review' \in BOOLEAN
    BY <1>4 DEF TInv, ControllerOK
  <2> QED
    BY <2>1, <2>2, <2>3 DEF ControllerOK
<1>6. QueueOK' /\ HeadOK' /\ TasksOK' /\ RtOK' /\ PipelineOK' /\ PostedOK'
  BY <1>1 DEF Deliver, pipeline, TInv, QueueOK, HeadOK, TasksOK, RtOK, PipelineOK, PostedOK,
              Job, Fresh, Starts
<1> QED
  BY <1>5, <1>6 DEF TInv

LEMMA EditKeeps ==
  ASSUME TInv, Edit
  PROVE  TInv'
<1>1. ControllerOK'
  BY DEF TInv, Edit, controller, ControllerOK
<1>2. PipelineOK'
  BY DEF TInv, Edit, PipelineOK
<1> QED
  BY <1>1, <1>2, Beside DEF Edit

LEMMA CommitEditKeeps ==
  ASSUME TInv, CommitEdit
  PROVE  TInv'
<1>1. /\ version' = version + 1 /\ version' \in 1..MaxVersion /\ editing' = {} /\ data' = data
      /\ Sync(version + 1)
  BY ResearchFlowAssumption DEF CommitEdit, MainFree, TInv, PipelineOK
<1>2. rt' = rt \/ rt' = [rt EXCEPT !.cache = NoIdentity]
  BY <1>1 DEF Sync, TInv, RtOK
<1>3. view' \in Views
  BY <1>1, TransientTyped DEF Sync, Overtaken, TInv, ControllerOK, States
<1>4. ControllerOK'
  <2>1. busy' \in BOOLEAN /\ review' \in BOOLEAN /\ intake' \subseteq {"profile", "roles"}
    BY <1>1 DEF Sync
  <2>2. /\ run' \in Nat /\ event' \in Nat /\ cancelled' \subseteq Nat
        /\ active' \in 1..MaxVersion
    BY <1>1 DEF CommitEdit, Sync, TInv, ControllerOK
  <2>3. previous' \in Views
    BY DEF CommitEdit, TInv, ControllerOK
  <2> QED
    BY <1>3, <2>1, <2>2, <2>3 DEF ControllerOK
<1>5. PipelineOK'
  BY <1>1 DEF TInv, PipelineOK
<1> QED
  BY <1>2, <1>4, <1>5, Beside DEF CommitEdit

LEMMA RollBackEditKeeps ==
  ASSUME TInv, RollBackEdit
  PROVE  TInv'
<1>1. ControllerOK'
  BY DEF TInv, RollBackEdit, controller, ControllerOK
<1>2. PipelineOK'
  BY DEF TInv, RollBackEdit, PipelineOK
<1> QED
  BY <1>1, <1>2, Beside DEF RollBackEdit

LEMMA ConfirmKeeps ==
  ASSUME TInv, Confirm
  PROVE  TInv'
<1>1. UNCHANGED <<previous, busy, run, event, intake, cancelled, data, editing>>
  BY DEF Confirm
<1>2. editing = {} /\ version \in 1..MaxVersion /\ version < MaxVersion
  BY DEF Confirm, MainFree, TInv, PipelineOK
<1>3. CASE /\ version' = version + 1 /\ active' = version'
           /\ rt' = [rt EXCEPT !.cache = NoIdentity]
           /\ view' = [view EXCEPT !.state = "confirmed", !.version = version']
           /\ UNCHANGED review
  <2>1. version' \in 1..MaxVersion
    BY <1>2, <1>3, ResearchFlowAssumption
  <2>2. view' \in Views
    <3>1. "confirmed" \in States /\ version' \in 0..MaxVersion
      BY <2>1, ResearchFlowAssumption DEF States
    <3>2. view \in Views
      BY DEF TInv, ControllerOK
    <3> QED
      BY <1>3, <3>1, <3>2 DEF Views
  <2>3. ControllerOK' /\ PipelineOK'
    BY <1>1, <1>2, <1>3, <2>1, <2>2 DEF TInv, ControllerOK, PipelineOK
  <2> QED
    BY <1>3, <2>3, Beside DEF Confirm
<1>4. CASE /\ view' \in {Transient("replan_required"), Transient("failure")}
           /\ review' = FALSE /\ UNCHANGED <<version, active, rt, applied>>
  <2>1. view' \in Views
    BY <1>4, TransientTyped DEF States, Failures
  <2>2. ControllerOK' /\ PipelineOK'
    BY <1>1, <1>4, <2>1 DEF TInv, ControllerOK, PipelineOK
  <2> QED
    BY <1>4, <2>2, Beside DEF Confirm
<1> QED
  BY <1>3, <1>4 DEF Confirm

LEMMA RerunKeeps ==
  ASSUME TInv, Rerun
  PROVE  TInv'
<1> DEFINE job == [run |-> 0, version |-> version, op |-> "rerun", of |-> NoDecision,
                   pc |-> "queued", data |-> NoData, seen |-> NoData]
<1>1. job \in Jobs /\ job.pc = "queued"
  BY ResearchFlowAssumption DEF Jobs, NoDecision, TInv, PipelineOK
<1>2. queue' = Append(queue, job) /\ rt' = rt
  BY DEF Rerun
<1> HIDE DEF job
<1>3. QueueOK' /\ HeadOK'
  BY <1>1, <1>2, Queueing, HeadKept DEF TInv
<1>4. ControllerOK' /\ PostedOK' /\ TasksOK' /\ RtOK' /\ PipelineOK'
  BY DEF TInv, Rerun, controller, pipeline, ControllerOK, PostedOK, TasksOK, RtOK, PipelineOK
<1> QED
  BY <1>3, <1>4 DEF TInv

LEMMA NextTInv ==
  TInv /\ [Next]_vars => TInv'
<1> SUFFICES ASSUME TInv, [Next]_vars PROVE TInv'
  OBVIOUS
<1>1. CASE Worker
  BY <1>1, WorkerKeeps
<1>2. CASE Deliver \/ CommitEdit \/ RollBackEdit
  BY <1>2, DeliverKeeps, CommitEditKeeps, RollBackEditKeeps
<1>3. CASE User
  BY <1>3, CommandsKeep, SubmitRolesKeeps, IntakeStepKeeps, CancelKeeps, RetractKeeps,
     AdoptModeKeeps, AdoptLanguageKeeps, EditKeeps, ConfirmKeeps, RerunKeeps DEF User
<1>4. CASE UNCHANGED vars
  <2>1. ControllerOK' /\ PipelineOK'
    BY <1>4 DEF vars, controller, pipeline, TInv, ControllerOK, PipelineOK
  <2> QED
    BY <1>4, <2>1, Beside DEF vars
<1> QED
  BY <1>1, <1>2, <1>3, <1>4 DEF Next

LEMMA InitTInv ==
  Init => TInv
<1> SUFFICES ASSUME Init PROVE TInv
  OBVIOUS
<1>1. Transient("idle") \in Views
  BY TransientTyped DEF States
<1>2. ControllerOK /\ PipelineOK /\ QueueOK /\ PostedOK /\ HeadOK
  <2>1. 1 \in 1..MaxVersion
    BY ResearchFlowAssumption
  <2>2. ControllerOK
    BY <1>1, <2>1 DEF Init, ControllerOK
  <2>3. PipelineOK
    BY <2>1 DEF Init, PipelineOK
  <2>4. QueueOK /\ PostedOK /\ HeadOK
    BY EmptySeq DEF Init, QueueOK, PostedOK, HeadOK
  <2> QED
    BY <2>2, <2>3, <2>4
<1>3. TasksOK
  <2>1. CASE tasks = <<>>
    BY <2>1, EmptySeq, ResearchFlowAssumption DEF TasksOK
  <2>2. ASSUME NEW task \in Tasks, tasks = <<task>>,
               task.kind = "clarify" => task.asked < Questions
        PROVE  TasksOK
    <3>1. <<task>> \in Seq(Tasks) /\ Len(<<task>>) = 1 /\ <<task>>[1] = task
      OBVIOUS
    <3> QED
      BY <2>2, <3>1, ResearchFlowAssumption DEF TasksOK
  <2>3. ASSUME NEW d \in Datas, NEW kind \in Plans(0) \union {"retracted"},
               tasks = <<[data |-> d, active |-> TRUE, kind |-> kind, n |-> 1, asked |-> 0]>>
        PROVE  TasksOK
    <3>1. kind \in RecordKinds /\ (kind = "clarify" => 0 < Questions)
      BY PlansAllow DEF RecordKinds
    <3>2. [data |-> d, active |-> TRUE, kind |-> kind, n |-> 1, asked |-> 0] \in Tasks
      BY <3>1, ResearchFlowAssumption DEF Tasks, RecordKinds
    <3> QED
      BY <2>2, <2>3, <3>1, <3>2
  <2>4. ASSUME NEW d \in Datas,
               tasks = <<[data |-> d, active |-> TRUE, kind |-> "pending", n |-> 0,
                          asked |-> 0]>>
        PROVE  TasksOK
    <3>1. [data |-> d, active |-> TRUE, kind |-> "pending", n |-> 0, asked |-> 0] \in Tasks
      BY ResearchFlowAssumption DEF Tasks
    <3> QED
      BY <2>2, <2>4, <3>1
  <2> QED
    BY <2>1, <2>3, <2>4 DEF Init
<1>4. RtOK
  <2>1. Len(tasks) \in Nat /\ NoIdentity \in Identities
    BY <1>3, TaskFacts, ResearchFlowAssumption DEF NoIdentity, Identities
  <2> QED
    BY <2>1 DEF Init, RtOK, Caches
<1> QED
  BY <1>2, <1>3, <1>4 DEF TInv

LEMMA InductiveTypes ==
  Spec => []TInv
<1> QED
  BY InitTInv, NextTInv, PTL DEF Spec

\* Types; a dataset has one open task; and only the head of the queue is being worked on:
\* whatever job fails, after whatever it has written, and whatever is opened or closed.
THEOREM TypeCorrect == Spec => []TypeOK
<1> QED
  BY InductiveTypes, TInvImpliesTypeOK, PTL

------------------------------------------------------------------------------
(* The order of versions.                                                   *)

\* A job or a result of the current run and the current version is there.
Live ==
  /\ run # 0
  /\ \/ \E i \in 1..Len(queue) : queue[i].run = run /\ queue[i].version = version
     \/ \E i \in 1..Len(posted) : posted[i].run = run /\ posted[i].version = version

\* Only the application's own reruns have no run of the flow.
RunsOK ==
  /\ \A i \in 1..Len(queue) : queue[i].op = "rerun" <=> queue[i].run = 0
  /\ \A i \in 1..Len(posted) : posted[i].run # 0
  /\ busy => Live

OrderedOK ==
  /\ \A i \in 1..Len(queue) : queue[i].version <= version
  /\ \A i, j \in 1..Len(queue) : i < j => queue[i].version <= queue[j].version
  /\ \A i \in 1..Len(posted) : posted[i].version <= version

\* What the runtime remembers is of the current version, and so is all that it will do.
Aligned ==
  /\ rt.identity.version = version
  /\ \A i \in 1..Len(queue) : queue[i].version = version

Shown   == Durable \union {"prepare_review"}
Bound   == Durable \union Reviews

\* Whatever shows a decision of the current version, or will, finds the runtime aligned.
AlignedOK ==
  /\ view.state \in Shown => Aligned
  /\ \A i \in 1..Len(posted) :
       posted[i].version = version /\ posted[i].view.state \in Shown => Aligned
  /\ \A i \in 1..Len(queue) :
       queue[i].version = version /\ queue[i].op = "retract" => Aligned
  /\ Live /\ previous.state \in Durable => Aligned

VersionsOK ==
  /\ view.state \in Bound => view.version = version
  /\ \A i \in 1..Len(posted) :
       posted[i].version = version /\ posted[i].view.state \in Bound
         => posted[i].view.version = version
  /\ previous.state \in Durable /\ (Live \/ (review /\ view.state = "prepare_review"))
       => previous.version = version

\* Nothing that could be accepted is under way when a preparation has been confirmed.
ConfirmedOK ==
  /\ view.state = "confirmed" => ~Live
  /\ \A i \in 1..Len(posted) : posted[i].view.state # "confirmed"

OInv == RunsOK /\ OrderedOK /\ AlignedOK /\ VersionsOK /\ ConfirmedOK

\* None of the states that are only on the way says anything of a decision.
LEMMA TransientStates ==
  \A state \in States \ (Bound \union {"confirmed"}) :
    /\ Transient(state).state = state
    /\ state \notin Shown /\ state \notin Bound /\ state # "confirmed"
  BY DEF Transient, Shown, Bound, Reviews

LEMMA ShownIsBound == Shown \subseteq Bound /\ Durable \subseteq Shown
  BY DEF Shown, Bound, Reviews

LEMMA WaitingStates ==
  /\ Waiting \union Failures \union Static \union {"idle", "cancelled", "replan_required",
       "intake_causal", "intake_profile", "intake_roles"}
       \subseteq States \ (Bound \union {"confirmed"})
  BY DEF Waiting, Failures, Static, States, Bound, Durable, Reviews

LEMMA DecidedStates ==
  ASSUME RtOK, rt.record # NoRecord, NEW v
  PROVE  LET shown == RecordView(rt.record, rt.identity, rt.seen, v)
         IN  /\ shown.state \in Durable \union {"replan_required"}
             /\ shown.state \in Durable => shown.version = v
<1>1. rt.record.kind \in RecordKinds
  BY DEF RtOK, Records
<1>2. StateOf(rt.record.kind, rt.seen) \in Durable
  BY <1>1 DEF StateOf, Durable, RecordKinds, Decisions
<1>3. "replan_required" \notin Durable
  BY DEF Durable
<1> QED
  BY <1>2, <1>3 DEF RecordView, Transient

\* What the worker may do to the queue: the head goes on as the same job ...
LEMMA GoingKeepsOrder ==
  ASSUME TInv, OInv, queue # <<>>, NEW job \in Jobs, Goto(job), WorkerOnly,
         job.run = Job.run, job.version = Job.version, job.op = Job.op,
         rt'.identity.version = rt.identity.version \/ rt'.identity.version = Job.version
  PROVE  OInv'
<1>1. /\ Len(queue') = Len(queue) /\ posted' = posted
      /\ Len(queue) \in Nat /\ Len(queue) > 0 /\ Job = queue[1]
      /\ queue'[1] = job /\ \A i \in 2..Len(queue) : queue'[i] = queue[i]
  BY Going, QueueFacts DEF TInv
<1>2. \A i \in 1..Len(queue) : /\ queue'[i].run = queue[i].run
                               /\ queue'[i].version = queue[i].version
                               /\ queue'[i].op = queue[i].op
  BY <1>1
<1>3. UNCHANGED <<view, previous, busy, run, review, version>>
  BY DEF WorkerOnly, controller, pipeline
<1>4. Live' <=> Live
  BY <1>1, <1>2, <1>3 DEF Live
<1>5. Aligned => Aligned'
  BY <1>1, <1>2, <1>3 DEF Aligned
<1>6. RunsOK' /\ OrderedOK'
  BY <1>1, <1>2, <1>3, <1>4 DEF OInv, RunsOK, OrderedOK
<1>7. AlignedOK'
  BY <1>1, <1>2, <1>3, <1>4, <1>5 DEF OInv, AlignedOK
<1>8. VersionsOK' /\ ConfirmedOK'
  BY <1>1, <1>3, <1>4 DEF OInv, VersionsOK, ConfirmedOK
<1> QED
  BY <1>6, <1>7, <1>8 DEF OInv

\* ... or ends, with a view that is of the job's version and the runtime's.
LEMMA PostingKeepsOrder ==
  ASSUME TInv, OInv, queue # <<>>, Job.op # "rerun", NEW v \in Views, Post(v), WorkerOnly,
         rt'.identity.version = rt.identity.version \/ rt'.identity.version = Job.version,
         Job.version = version /\ v.state \in Bound => v.version = version,
         Job.version = version /\ v.state \in Shown => rt'.identity.version = version,
         v.state # "confirmed"
  PROVE  OInv'
<1> DEFINE result == [run |-> Job.run, version |-> Job.version, view |-> v]
<1>1. /\ Len(queue') = Len(queue) - 1 /\ Len(queue) \in Nat /\ Len(queue) > 0
      /\ Job = queue[1] /\ Job \in Jobs
      /\ \A i \in 1..Len(queue') : queue'[i] = queue[i + 1]
      /\ posted' = Append(posted, result)
  BY Posting, QueueFacts DEF TInv
<1>2. /\ result.run = Job.run /\ result.version = Job.version /\ result.view = v
  OBVIOUS
<1>3. /\ Len(posted) \in Nat /\ Len(posted') = Len(posted) + 1
      /\ \A i \in 1..Len(posted) : posted'[i] = posted[i]
      /\ posted'[Len(posted) + 1] = result
  <2>1. result \in Results
    BY <1>1 DEF Results, Jobs
  <2> HIDE DEF result
  <2> QED
    BY <1>1, <2>1, AppendProperties, LenProperties DEF TInv, PostedOK
<1> HIDE DEF result
<1>4. \A i \in 1..Len(posted') : i \in 1..Len(posted) \/ i = Len(posted) + 1
  BY <1>3
<1>5. \A i \in 1..Len(queue') : i + 1 \in 1..Len(queue)
  BY <1>1
<1>6. UNCHANGED <<view, previous, busy, run, review, version>>
  BY DEF WorkerOnly, controller, pipeline
<1>7. Live' <=> Live
  <2>1. ASSUME NEW i \in 1..Len(queue), queue[i].run = run, queue[i].version = version, run # 0
        PROVE  Live'
    <3>1. CASE i = 1
      <4>1. Len(posted) + 1 \in 1..Len(posted')
        BY <1>3
      <4> QED
        BY <1>1, <1>2, <1>3, <1>6, <2>1, <3>1, <4>1 DEF Live
    <3>2. CASE i # 1
      <4>1. i - 1 \in 1..Len(queue') /\ queue'[i - 1] = queue[i]
        BY <1>1, <3>2
      <4> QED
        BY <1>6, <2>1, <4>1 DEF Live
    <3> QED
      BY <3>1, <3>2
  <2>2. ASSUME NEW i \in 1..Len(posted), posted[i].run = run, posted[i].version = version,
               run # 0
        PROVE  Live'
    <3>1. i \in 1..Len(posted') /\ posted'[i] = posted[i]
      BY <1>3
    <3> QED
      BY <1>6, <2>2, <3>1 DEF Live
  <2>3. Live => Live'
    BY <2>1, <2>2 DEF Live
  <2>4. ASSUME NEW i \in 1..Len(queue'), queue'[i].run = run, queue'[i].version = version,
               run # 0
        PROVE  Live
    BY <1>1, <1>5, <2>4 DEF Live
  <2>5. ASSUME NEW i \in 1..Len(posted'), posted'[i].run = run, posted'[i].version = version,
               run # 0
        PROVE  Live
    <3>1. 1 \in 1..Len(queue)
      BY <1>1
    <3> QED
      BY <1>1, <1>2, <1>3, <1>4, <2>5, <3>1 DEF Live
  <2>6. Live' => Live
    BY <1>6, <2>4, <2>5 DEF Live
  <2> QED
    BY <2>3, <2>6
<1>8. Aligned => Aligned'
  BY <1>1, <1>5, <1>6 DEF Aligned
<1>9. Job.version = version /\ v.state \in Shown => Aligned'
  <2> SUFFICES ASSUME Job.version = version, v.state \in Shown
               PROVE  Aligned'
    OBVIOUS
  <2>1. \A i \in 1..Len(queue) : queue[i].version = version
    <3> SUFFICES ASSUME NEW i \in 1..Len(queue) PROVE queue[i].version = version
      OBVIOUS
    <3>1. queue[i].version <= version /\ (i # 1 => queue[1].version <= queue[i].version)
      BY <1>1 DEF OInv, OrderedOK
    <3>2. queue[i].version \in Nat /\ version \in Nat
      BY QueueFacts, ResearchFlowAssumption DEF TInv, PipelineOK, Jobs
    <3> QED
      BY <1>1, <3>1, <3>2
  <2> QED
    BY <1>1, <1>5, <1>6, <2>1 DEF Aligned
<1>10. RunsOK'
  <2>1. Job.run # 0
    BY <1>1 DEF OInv, RunsOK
  <2> QED
    BY <1>1, <1>2, <1>3, <1>4, <1>5, <1>6, <1>7, <2>1 DEF OInv, RunsOK
<1>11. OrderedOK'
  <2>1. Job.version <= version
    BY <1>1 DEF OInv, OrderedOK
  <2>2. \A i \in 1..Len(posted') : posted'[i].version <= version
    BY <1>2, <1>3, <1>4, <2>1 DEF OInv, OrderedOK
  <2>3. \A i \in 1..Len(queue') : queue'[i].version <= version
    BY <1>1, <1>5 DEF OInv, OrderedOK
  <2>4. ASSUME NEW i \in 1..Len(queue'), NEW j \in 1..Len(queue'), i < j
        PROVE  queue'[i].version <= queue'[j].version
    <3>1. i + 1 \in 1..Len(queue) /\ j + 1 \in 1..Len(queue) /\ i + 1 < j + 1
      BY <1>5, <2>4
    <3> QED
      BY <1>1, <3>1 DEF OInv, OrderedOK
  <2> QED
    BY <1>6, <2>2, <2>3, <2>4 DEF OrderedOK
<1>12. AlignedOK'
  BY <1>1, <1>2, <1>3, <1>4, <1>5, <1>6, <1>7, <1>8, <1>9 DEF OInv, AlignedOK
<1>13. VersionsOK' /\ ConfirmedOK'
  BY <1>2, <1>3, <1>4, <1>6, <1>7 DEF OInv, VersionsOK, ConfirmedOK
<1> QED
  BY <1>10, <1>11, <1>12, <1>13 DEF OInv

\* A job ends with a view that shows no decision.
LEMMA EndingKeepsOrder ==
  ASSUME TInv, OInv, queue # <<>>, Job.op # "rerun",
         NEW state \in {"failure", "corruption", "cancelled", "replan_required",
                        "intake_causal"},
         Post(Transient(state)), WorkerOnly,
         rt'.identity.version = rt.identity.version \/ rt'.identity.version = Job.version
  PROVE  OInv'
<1>1. state \in States \ (Bound \union {"confirmed"})
  BY WaitingStates DEF Failures
<1>2. Transient(state) \in Views
  BY <1>1, TransientTyped
<1>3. Transient(state).state \notin Shown \union Bound \union {"confirmed"}
  BY <1>1, TransientStates
<1> QED
  BY <1>2, <1>3, PostingKeepsOrder

\* A job that has written goes on.
LEMMA DoingKeepsOrder ==
  ASSUME TInv, OInv, At("checked"), WorkerOnly, NEW t, NEW kind, NEW n, Done(t, kind, n)
  PROVE  OInv'
<1> DEFINE job == [Job EXCEPT !.pc = "acted"]
<1>1. queue # <<>> /\ Job \in Jobs
  BY QueueFacts DEF TInv, At
<1>2. job \in Jobs /\ job.run = Job.run /\ job.version = Job.version /\ job.op = Job.op
  BY <1>1 DEF Jobs
<1>3. Goto(job) /\ rt'.identity = rt.identity
  BY DEF Done, TInv, RtOK
<1> HIDE DEF job
<1> QED
  BY <1>1, <1>2, <1>3, GoingKeepsOrder

LEMMA CaptureKeepsOrder ==
  ASSUME TInv, OInv, Capture
  PROVE  OInv'
<1>1. queue # <<>> /\ Job \in Jobs /\ Job.op # "rerun" /\ WorkerOnly
  BY QueueFacts DEF TInv, Capture, At
<1>2. rt'.identity = rt.identity
  BY DEF Capture, TInv, RtOK
<1>3. CASE \E state \in {"failure", "replan_required"} : Post(Transient(state))
  BY <1>1, <1>2, <1>3, EndingKeepsOrder
<1>4. ASSUME NEW job, Goto(job),
             \/ job = [Job EXCEPT !.pc = "captured"]
             \/ job = [Job EXCEPT !.pc = "captured", !.data = Identity.data, !.seen = data]
      PROVE  OInv'
  <2>1. job \in Jobs /\ job.run = Job.run /\ job.version = Job.version /\ job.op = Job.op
    BY <1>1, <1>4, IdentityTyped DEF Jobs, TInv, PipelineOK
  <2> QED
    BY <1>1, <1>2, <1>4, <2>1, GoingKeepsOrder
<1> QED
  BY <1>3, <1>4 DEF Capture

LEMMA CheckKeepsOrder ==
  ASSUME TInv, OInv, Check
  PROVE  OInv'
<1>1. queue # <<>> /\ Job \in Jobs /\ Job.op # "rerun" /\ WorkerOnly
  BY QueueFacts DEF TInv, Check, At, HeadOK
<1>2. rt'.identity = rt.identity
  BY DEF Check, TInv, RtOK
<1>3. CASE \E state \in {"cancelled", "replan_required"} : Post(Transient(state))
  BY <1>1, <1>2, <1>3, EndingKeepsOrder
<1>4. CASE Goto([Job EXCEPT !.pc = "checked"])
  <2> DEFINE job == [Job EXCEPT !.pc = "checked"]
  <2>1. job \in Jobs /\ job.run = Job.run /\ job.version = Job.version /\ job.op = Job.op
    BY <1>1 DEF Jobs
  <2> HIDE DEF job
  <2> QED
    BY <1>1, <1>2, <1>4, <2>1, GoingKeepsOrder DEF job
<1> QED
  BY <1>3, <1>4 DEF Check

LEMMA LocateKeepsOrder ==
  ASSUME TInv, OInv, Locate
  PROVE  OInv'
<1> DEFINE job == [Job EXCEPT !.pc = "acted"]
<1>1. queue # <<>> /\ Job \in Jobs /\ Job.op # "rerun" /\ WorkerOnly
  BY QueueFacts DEF TInv, Locate, At, HeadOK
<1>2. rt'.identity.version = Job.version
  BY DEF Locate, TInv, RtOK
<1>3. Post(Transient("intake_causal")) \/ Goto(job)
  BY DEF Locate
<1>4. job \in Jobs /\ job.run = Job.run /\ job.version = Job.version /\ job.op = Job.op
  BY <1>1 DEF Jobs
<1> HIDE DEF job
<1> QED
  BY <1>1, <1>2, <1>3, <1>4, EndingKeepsOrder, GoingKeepsOrder

LEMMA StartReplanKeepsOrder ==
  ASSUME TInv, OInv, StartReplan
  PROVE  OInv'
<1>1. queue # <<>> /\ Job.op # "rerun" /\ WorkerOnly
  BY DEF StartReplan, At
<1>2. rt'.identity.version = rt.identity.version \/ rt'.identity.version = Job.version
  <2>1. \/ rt' = rt
        \/ \E t : rt' = [rt EXCEPT !.identity = [version |-> Job.version, data |-> Job.data],
                                   !.seen = Job.seen, !.handle = t, !.record = NoRecord]
    BY DEF StartReplan
  <2>2. CASE rt' = rt
    BY <2>2
  <2>3. ASSUME NEW t, rt' = [rt EXCEPT !.identity = [version |-> Job.version, data |-> Job.data],
                                       !.seen = Job.seen, !.handle = t, !.record = NoRecord]
        PROVE  rt'.identity.version = Job.version
    <3>1. rt'.identity = [version |-> Job.version, data |-> Job.data]
      BY <2>3 DEF TInv, RtOK
    <3> QED
      BY <3>1
  <2> QED
    BY <2>1, <2>2, <2>3
<1>3. \E state \in {"intake_causal", "corruption"} : Post(Transient(state))
  BY DEF StartReplan
<1> QED
  BY <1>1, <1>2, <1>3, EndingKeepsOrder

LEMMA CommitInitialKeepsOrder ==
  ASSUME TInv, OInv, CommitInitial
  PROVE  OInv'
<1>1. queue # <<>> /\ Job.op # "rerun" /\ WorkerOnly /\ At("checked")
  BY DEF CommitInitial, At
<1>2. \/ \E t, kind, n : Done(t, kind, n)
      \/ Post(Transient("failure")) /\ \E t : rt' = [rt EXCEPT !.handle = t]
  BY DEF CommitInitial
<1>3. CASE \E t, kind, n : Done(t, kind, n)
  BY <1>1, <1>3, DoingKeepsOrder
<1>4. CASE Post(Transient("failure")) /\ \E t : rt' = [rt EXCEPT !.handle = t]
  <2>1. rt'.identity = rt.identity
    BY <1>4 DEF TInv, RtOK
  <2> QED
    BY <1>1, <1>4, <2>1, EndingKeepsOrder
<1> QED
  BY <1>2, <1>3, <1>4

LEMMA PublishKeepsOrder ==
  ASSUME TInv, OInv, Publish
  PROVE  OInv'
<1> DEFINE shown == RecordView(rt.record, rt.identity, rt.seen, rt.identity.version)
           v == IF Job.op = "prepare" /\ shown.state = "candidate_ready"
                  THEN [shown EXCEPT !.state = "prepare_review"] ELSE shown
<1>1. /\ queue # <<>> /\ Job.pc = "acted" /\ Job.op # "rerun" /\ WorkerOnly
      /\ Post(v) /\ rt' = rt /\ rt.record # NoRecord
  BY DEF Publish, At, TInv, HeadOK
<1>2. rt.identity.version \in 1..MaxVersion \cup {0}
  BY ResearchFlowAssumption DEF TInv, RtOK, Identities
<1>3. shown \in Views
  BY <1>1, <1>2, RecordViewTyped DEF TInv
<1>4. /\ shown.state \in Durable \union {"replan_required"}
      /\ shown.state \in Durable => shown.version = rt.identity.version
  BY <1>1, DecidedStates DEF TInv
<1> HIDE DEF shown
<1>5. v \in Views /\ v.version = shown.version
  BY <1>3 DEF Views, States, Reviews
<1>6. v.state \in Bound \union {"replan_required"}
      /\ (v.state \in Bound => v.version = rt.identity.version)
      /\ v.state # "confirmed"
  BY <1>3, <1>4, <1>5 DEF Bound, Durable, Reviews, Views
<1>7. Job.version = version => rt.identity.version = version
  <2>1. CASE Job.op = "retract"
    BY <1>1, <2>1, QueueFacts DEF TInv, OInv, AlignedOK, Aligned
  <2>2. CASE Job.op # "retract"
    BY <1>1, <2>2 DEF TInv, HeadOK
  <2> QED
    BY <2>1, <2>2
<1> HIDE DEF v
<1> QED
  BY <1>1, <1>5, <1>6, <1>7, PostingKeepsOrder, ShownIsBound

LEMMA ReviewMeaningsKeepsOrder ==
  ASSUME TInv, OInv, ReviewMeanings
  PROVE  OInv'
<1> DEFINE v == [state |-> "variable_meaning_review", of |-> NoDecision,
                 version |-> Job.version]
<1>1. /\ queue # <<>> /\ Job \in Jobs /\ Job.op # "rerun" /\ WorkerOnly /\ Post(v)
      /\ rt' = rt
  BY QueueFacts DEF TInv, ReviewMeanings, At
<1>2. v \in Views /\ v.version = Job.version
  BY <1>1, ResearchFlowAssumption DEF Views, States, Reviews, NoDecision, Jobs
<1>3. v.state \notin Shown /\ v.state # "confirmed"
  BY DEF Shown, Durable
<1> HIDE DEF v
<1> QED
  BY <1>1, <1>2, <1>3, PostingKeepsOrder

LEMMA PrepareCandidateKeepsOrder ==
  ASSUME TInv, OInv, PrepareCandidate
  PROVE  OInv'
<1> DEFINE job == [Job EXCEPT !.pc = "acted"]
<1>1. queue # <<>> /\ Job \in Jobs /\ WorkerOnly /\ Goto(job) /\ rt' = rt
  BY QueueFacts DEF TInv, PrepareCandidate, At
<1>2. job \in Jobs /\ job.run = Job.run /\ job.version = Job.version /\ job.op = Job.op
  BY <1>1 DEF Jobs
<1> HIDE DEF job
<1> QED
  BY <1>1, <1>2, GoingKeepsOrder

LEMMA FailJobKeepsOrder ==
  ASSUME TInv, OInv, FailJob
  PROVE  OInv'
<1>1. PICK state \in Failures : Post(Transient(state))
  BY DEF FailJob
<1>2. queue # <<>> /\ Job.op # "rerun" /\ WorkerOnly
  BY DEF FailJob
<1>3. rt'.identity = rt.identity
  BY DEF FailJob, FailsAfterWriting, TInv, RtOK
<1> QED
  BY <1>1, <1>2, <1>3, EndingKeepsOrder DEF Failures

\* A rerun leaves the queue: it was of no run.
LEMMA RecomputeKeepsOrder ==
  ASSUME TInv, OInv, Recompute
  PROVE  OInv'
<1>1. /\ queue # <<>> /\ queue' = Tail(queue) /\ Job.op = "rerun"
      /\ UNCHANGED <<posted, rt, view, previous, busy, run, review, version>>
  BY DEF Recompute, controller
<1>2. /\ Len(queue') = Len(queue) - 1 /\ Len(queue) \in Nat /\ Len(queue) > 0
      /\ Job = queue[1]
      /\ \A i \in 1..Len(queue') : queue'[i] = queue[i + 1]
  BY <1>1, HeadTailProperties, QueueFacts DEF TInv, QueueOK
<1>3. \A i \in 1..Len(queue') : i + 1 \in 1..Len(queue)
  BY <1>2
<1>4. queue[1].run = 0
  BY <1>1, <1>2 DEF OInv, RunsOK
<1>5. ASSUME NEW i \in 1..Len(queue), queue[i].run = run, queue[i].version = version, run # 0
      PROVE  Live'
  <2>1. i # 1
    BY <1>4, <1>5
  <2>2. i - 1 \in 1..Len(queue') /\ queue'[i - 1] = queue[i]
    BY <1>2, <2>1
  <2> QED
    BY <1>1, <1>5, <2>2 DEF Live
<1>6. Live' <=> Live
  <2>1. Live => Live'
    BY <1>1, <1>5 DEF Live
  <2>2. Live' => Live
    BY <1>1, <1>2, <1>3 DEF Live
  <2> QED
    BY <2>1, <2>2
<1>7. Aligned => Aligned'
  BY <1>1, <1>2, <1>3 DEF Aligned
<1>8. RunsOK'
  BY <1>1, <1>2, <1>3, <1>6 DEF OInv, RunsOK
<1>9. OrderedOK'
  <2>1. ASSUME NEW i \in 1..Len(queue'), NEW j \in 1..Len(queue'), i < j
        PROVE  queue'[i].version <= queue'[j].version
    <3>1. i + 1 \in 1..Len(queue) /\ j + 1 \in 1..Len(queue) /\ i + 1 < j + 1
      BY <1>3, <2>1
    <3> QED
      BY <1>2, <3>1 DEF OInv, OrderedOK
  <2>2. \A i \in 1..Len(queue') : queue'[i].version <= version
    BY <1>2, <1>3 DEF OInv, OrderedOK
  <2> QED
    BY <1>1, <2>1, <2>2 DEF OInv, OrderedOK
<1>10. AlignedOK'
  BY <1>1, <1>2, <1>3, <1>6, <1>7 DEF OInv, AlignedOK
<1>11. VersionsOK' /\ ConfirmedOK'
  BY <1>1, <1>6 DEF OInv, VersionsOK, ConfirmedOK
<1> QED
  BY <1>8, <1>9, <1>10, <1>11 DEF OInv

LEMMA WorkerKeepsOrder ==
  ASSUME TInv, OInv, Worker
  PROVE  OInv'
<1>1. CASE CommitAnswer \/ ResumePending \/ RetractCurrent
  <2>1. At("checked") /\ WorkerOnly /\ \E t, kind, n : Done(t, kind, n)
    BY <1>1 DEF CommitAnswer, ResumePending, RetractCurrent
  <2> QED
    BY <2>1, DoingKeepsOrder
<1>2. CASE Conflict
  <2>1. queue # <<>> /\ Job.op # "rerun" /\ WorkerOnly /\ rt' = rt
        /\ Post(Transient("failure"))
    BY <1>2 DEF Conflict, At
  <2> QED
    BY <2>1, EndingKeepsOrder
<1> QED
  BY <1>1, <1>2, CaptureKeepsOrder, CheckKeepsOrder, LocateKeepsOrder, StartReplanKeepsOrder,
     CommitInitialKeepsOrder, PublishKeepsOrder, ReviewMeaningsKeepsOrder,
     PrepareCandidateKeepsOrder, FailJobKeepsOrder, RecomputeKeepsOrder DEF Worker

------------------------------------------------------------------------------
(* The order of versions, on the main thread.                               *)

\* A step that submits nothing and leaves the version: it may show only what it could
\* have shown already.
LEMMA LookingKeepsOrder ==
  ASSUME TInv, OInv, UNCHANGED <<queue, posted, run, version, previous>>,
         rt'.identity = rt.identity,
         busy' => busy,
         view'.state \in Shown => Aligned,
         view'.state \in Bound => view'.version = version,
         review' /\ view'.state = "prepare_review" => review /\ view.state = "prepare_review",
         view'.state = "confirmed" => view.state = "confirmed"
  PROVE  OInv'
<1>1. Live' <=> Live
  BY DEF Live
<1>2. Aligned => Aligned'
  BY DEF Aligned
<1>3. RunsOK'
  BY <1>1 DEF OInv, RunsOK
<1>4. OrderedOK'
  BY DEF OInv, OrderedOK
<1>5. AlignedOK'
  BY <1>1, <1>2 DEF OInv, AlignedOK
<1>6. VersionsOK'
  BY <1>1 DEF OInv, VersionsOK
<1>7. ConfirmedOK'
  BY <1>1 DEF OInv, ConfirmedOK
<1> QED
  BY <1>3, <1>4, <1>5, <1>6, <1>7 DEF OInv

\* A job joins the queue, of the current version.
LEMMA JoiningKeepsOrder ==
  ASSUME TInv, OInv, NEW job \in Jobs, queue' = Append(queue, job), job.version = version,
         UNCHANGED <<posted, version, rt>>
  PROVE  /\ OrderedOK' /\ (Aligned => Aligned')
         /\ Len(queue) \in Nat /\ Len(queue') = Len(queue) + 1
         /\ \A i \in 1..Len(queue) : queue'[i] = queue[i]
         /\ queue'[Len(queue) + 1] = job
<1>1. /\ Len(queue) \in Nat /\ Len(queue') = Len(queue) + 1
      /\ \A i \in 1..Len(queue) : queue'[i] = queue[i]
      /\ queue'[Len(queue) + 1] = job
  BY AppendProperties, LenProperties DEF TInv, QueueOK
<1>2. \A i \in 1..Len(queue') : i \in 1..Len(queue) \/ i = Len(queue) + 1
  BY <1>1
<1>3. version \in Nat /\ version <= version
  BY ResearchFlowAssumption DEF TInv, PipelineOK
<1>4. \A i \in 1..Len(queue') : queue'[i].version <= version
  BY <1>1, <1>2, <1>3 DEF OInv, OrderedOK
<1>5. ASSUME NEW i \in 1..Len(queue'), NEW j \in 1..Len(queue'), i < j
      PROVE  queue'[i].version <= queue'[j].version
  <2>1. CASE j = Len(queue) + 1
    BY <1>1, <1>4, <2>1
  <2>2. CASE j # Len(queue) + 1
    <3>1. i \in 1..Len(queue) /\ j \in 1..Len(queue)
      BY <1>1, <1>2, <1>5, <2>2
    <3> QED
      BY <1>1, <1>5, <3>1 DEF OInv, OrderedOK
  <2> QED
    BY <2>1, <2>2
<1>6. OrderedOK'
  BY <1>4, <1>5 DEF OInv, OrderedOK
<1>7. Aligned => Aligned'
  BY <1>1, <1>2 DEF Aligned
<1> QED
  BY <1>1, <1>6, <1>7

\* A command: what it may put back is of the current version, and so is its job.
LEMMA SubmitKeepsOrder ==
  ASSUME TInv, OInv, NEW op \in Ops, NEW from \in Views, Submit(op, from),
         from.state \in Durable => Aligned /\ from.version = version,
         op = "retract" => Aligned
  PROVE  OInv'
<1> DEFINE job == [run |-> run', version |-> version, op |-> op, of |-> from.of,
                   pc |-> "queued", data |-> NoData, seen |-> NoData]
<1>1. /\ run' = run + 1 /\ run \in Nat /\ version \in 1..MaxVersion /\ run' # 0
      /\ UNCHANGED <<posted, version, rt>> /\ previous' = from
      /\ view' = Transient(BusyState(op))
  BY DEF Submit, pipeline, TInv, ControllerOK, PipelineOK
<1>2. /\ job \in Jobs /\ job.version = version /\ job.run = run' /\ job.op = op
      /\ op # "rerun"
  BY <1>1 DEF Jobs, Ops, Views
<1>3. queue' = Append(queue, job)
  BY DEF Submit
<1> HIDE DEF job
<1>4. /\ OrderedOK' /\ (Aligned => Aligned')
      /\ Len(queue) \in Nat /\ Len(queue') = Len(queue) + 1
      /\ \A i \in 1..Len(queue) : queue'[i] = queue[i]
      /\ queue'[Len(queue) + 1] = job
  BY <1>1, <1>2, <1>3, JoiningKeepsOrder
<1>5. \A i \in 1..Len(queue') : i \in 1..Len(queue) \/ i = Len(queue) + 1
  BY <1>4
<1>6. Live'
  <2>1. Len(queue) + 1 \in 1..Len(queue')
    BY <1>4
  <2> QED
    BY <1>1, <1>2, <1>4, <2>1 DEF Live
<1>7. view'.state \notin Shown \union Bound \union {"confirmed"}
  BY <1>1, BusyStates, WaitingStates, TransientStates
<1>8. RunsOK'
  BY <1>1, <1>2, <1>4, <1>5, <1>6 DEF OInv, RunsOK
<1>9. AlignedOK'
  BY <1>1, <1>2, <1>4, <1>5, <1>7 DEF OInv, AlignedOK
<1>10. VersionsOK' /\ ConfirmedOK'
  BY <1>1, <1>7 DEF OInv, VersionsOK, ConfirmedOK, Bound, Reviews
<1> QED
  BY <1>4, <1>8, <1>9, <1>10 DEF OInv

LEMMA CommandsKeepOrder ==
  ASSUME TInv, OInv,
         \/ Start \/ Resume \/ RecordCausalBoundary \/ Answer \/ Replan \/ Prepare
         \/ ConfirmVariableMeanings \/ SubmitRoles
  PROVE  OInv'
<1>1. PICK op \in Ops \ {"retract"} : Submit(op, view)
  BY DEF Ops, Command, Start, Resume, RecordCausalBoundary, Answer, Replan, Prepare,
         ConfirmVariableMeanings, SubmitRoles
<1>2. view \in Views
  BY DEF TInv, ControllerOK
<1>3. view.state \in Durable => Aligned /\ view.version = version
  BY ShownIsBound DEF OInv, AlignedOK, VersionsOK
<1> QED
  BY <1>1, <1>2, <1>3, SubmitKeepsOrder

\* What takes the place of a review that is given up.
LEMMA DiscardedKeepsOrder ==
  ASSUME TInv, OInv
  PROVE  /\ Discarded \in Views
         /\ Discarded.state \in Shown => Aligned
         /\ Discarded.state \in Bound => Discarded.version = version
         /\ Discarded.state = "confirmed" => view.state = "confirmed"
         /\ ~(Kept /\ Discarded.state = "prepare_review")
<1>1. Discarded \in Views
  BY DiscardedTyped DEF TInv
<1>2. CASE review /\ view.state = "prepare_review" /\ previous.state = "candidate_ready"
  <2>1. Discarded = previous /\ previous.state \in Durable /\ view.state \in Shown
    BY <1>2 DEF Discarded, Durable, Shown
  <2>2. Aligned /\ previous.version = version
    BY <1>2, <2>1 DEF OInv, AlignedOK, VersionsOK
  <2> QED
    BY <1>1, <1>2, <2>1, <2>2
<1>3. CASE ~(review /\ view.state = "prepare_review" /\ previous.state = "candidate_ready")
  <2>1. Discarded = view
    BY <1>3 DEF Discarded
  <2>2. (view.state \in Shown => Aligned) /\ (view.state \in Bound => view.version = version)
    BY DEF OInv, AlignedOK, VersionsOK
  <2>3. ~(Kept /\ view.state = "prepare_review")
    BY DEF Kept
  <2> QED
    BY <1>1, <2>1, <2>2, <2>3
<1> QED
  BY <1>2, <1>3

LEMMA RetractKeepsOrder ==
  ASSUME TInv, OInv, Retract
  PROVE  OInv'
<1>1. Submit("retract", Discarded) /\ Discarded.state \in Durable /\ "retract" \in Ops
  BY DEF Retract, Durable, Ops
<1>2. Discarded \in Views /\ Aligned /\ Discarded.version = version
  BY <1>1, DiscardedKeepsOrder, ShownIsBound
<1> QED
  BY <1>1, <1>2, SubmitKeepsOrder

LEMMA IntakeStepKeepsOrder ==
  ASSUME TInv, OInv, IntakeStep
  PROVE  OInv'
<1>1. PICK to \in States \ (Bound \union {"confirmed"}) :
        /\ view' = Transient(to)
        /\ UNCHANGED <<queue, posted, run, version, previous, rt, busy, review>>
  BY WaitingStates DEF IntakeStep, Turn, pipeline, Static
<1>2. view'.state \notin Shown \union Bound \union {"confirmed", "prepare_review"}
  BY <1>1, TransientStates DEF Bound, Reviews
<1> QED
  BY <1>1, <1>2, LookingKeepsOrder

LEMMA CancelKeepsOrder ==
  ASSUME TInv, OInv, Cancel
  PROVE  OInv'
<1>1. /\ busy /\ ~busy'
      /\ UNCHANGED <<queue, posted, run, version, previous, rt, review>>
      /\ view' = IF previous.state \in Durable THEN previous ELSE Transient("cancelled")
  BY DEF Cancel, pipeline
<1>2. Live
  BY <1>1 DEF OInv, RunsOK
<1>3. CASE previous.state \in Durable
  <2>1. view' = previous /\ Aligned /\ previous.version = version
    BY <1>1, <1>2, <1>3 DEF OInv, AlignedOK, VersionsOK
  <2>2. view'.state # "prepare_review" /\ view'.state # "confirmed"
    BY <1>3, <2>1 DEF Durable
  <2> QED
    BY <1>1, <2>1, <2>2, LookingKeepsOrder
<1>4. CASE previous.state \notin Durable
  <2>1. view'.state \notin Shown \union Bound \union {"confirmed", "prepare_review"}
    BY <1>1, <1>4, WaitingStates, TransientStates DEF Bound, Reviews
  <2> QED
    BY <1>1, <2>1, LookingKeepsOrder
<1> QED
  BY <1>3, <1>4

LEMMA AdoptModeKeepsOrder ==
  ASSUME TInv, OInv, AdoptMode
  PROVE  OInv'
<1>1. /\ view' = Discarded /\ UNCHANGED <<queue, posted, run, version, previous, rt>>
      /\ busy' = busy /\ review' = Kept
  BY DEF AdoptMode, pipeline
<1> QED
  BY <1>1, DiscardedKeepsOrder, LookingKeepsOrder

LEMMA AdoptLanguageKeepsOrder ==
  ASSUME TInv, OInv, AdoptLanguage
  PROVE  OInv'
<1>1. /\ UNCHANGED <<queue, posted, run, version, previous, rt>> /\ busy' = busy
      /\ view.state \in Durable /\ rt.record # NoRecord
      /\ view' = RecordView(rt.record, rt.identity, rt.seen, version)
  BY DEF AdoptLanguage, pipeline
<1>2. /\ view'.state \in Durable \union {"replan_required"}
      /\ view'.state \in Durable => view'.version = version
  BY <1>1, DecidedStates DEF TInv
<1>3. Aligned
  BY <1>1, ShownIsBound DEF OInv, AlignedOK
<1>4. /\ view'.state \in Bound => view'.state \in Durable
      /\ view'.state # "prepare_review" /\ view'.state # "confirmed"
  BY <1>2 DEF Durable, Bound, Reviews
<1> QED
  BY <1>1, <1>2, <1>3, <1>4, LookingKeepsOrder

\* Edits of the data, and what leaves all but the data alone.
LEMMA QuietKeepsOrder ==
  ASSUME TInv, OInv, UNCHANGED <<view, previous, busy, run, review, queue, posted, rt, version>>
  PROVE  OInv'
<1>1. /\ view.state \in Shown => Aligned
      /\ view.state \in Bound => view.version = version
  BY DEF OInv, AlignedOK, VersionsOK
<1> QED
  BY <1>1, LookingKeepsOrder

\* The version advances: nothing under way is of the new one, and nothing is shown of it.
LEMMA AdvancingKeepsOrder ==
  ASSUME TInv, OInv, UNCHANGED <<queue, posted>>, version' = version + 1, ~busy',
         view'.state \notin Bound
  PROVE  OInv'
<1>1. version \in Nat /\ version' \in Nat /\ version < version'
  BY ResearchFlowAssumption DEF TInv, PipelineOK
<1>2. /\ \A i \in 1..Len(queue) : queue[i].version \in Nat /\ queue[i].version <= version
      /\ \A i \in 1..Len(posted) : posted[i].version \in Nat /\ posted[i].version <= version
  <2>1. /\ \A i \in 1..Len(queue) : queue[i] \in Jobs
        /\ \A i \in 1..Len(posted) : posted[i] \in Results
    BY ElementOfSeq DEF TInv, QueueOK, PostedOK
  <2>2. 1..MaxVersion \subseteq Nat
    OBVIOUS
  <2>3. \A i \in 1..Len(queue) : queue[i].version \in 1..MaxVersion
    BY <2>1 DEF Jobs
  <2>4. \A i \in 1..Len(posted) : posted[i].version \in 1..MaxVersion
    BY <2>1 DEF Results
  <2> QED
    BY <2>2, <2>3, <2>4 DEF OInv, OrderedOK
<1>3. /\ \A i \in 1..Len(queue) : queue[i].version # version' /\ queue[i].version <= version'
      /\ \A i \in 1..Len(posted) : posted[i].version # version' /\ posted[i].version <= version'
  BY <1>1, <1>2
<1>4. ~Live'
  BY <1>3 DEF Live
<1>5. view'.state \notin Shown /\ view'.state # "prepare_review"
  BY ShownIsBound DEF Shown, Bound, Reviews
<1>6. RunsOK'
  BY DEF OInv, RunsOK
<1>7. OrderedOK'
  BY <1>3 DEF OInv, OrderedOK
<1>8. AlignedOK'
  BY <1>3, <1>4, <1>5 DEF OInv, AlignedOK
<1>9. VersionsOK'
  BY <1>3, <1>4, <1>5 DEF OInv, VersionsOK
<1>10. ConfirmedOK'
  BY <1>4 DEF OInv, ConfirmedOK
<1> QED
  BY <1>6, <1>7, <1>8, <1>9, <1>10 DEF OInv

LEMMA CommitEditKeepsOrder ==
  ASSUME TInv, OInv, CommitEdit
  PROVE  OInv'
<1>1. /\ UNCHANGED <<queue, posted>> /\ version' = version + 1 /\ ~busy'
      /\ view' = Overtaken
  BY DEF CommitEdit, Sync
<1>2. view'.state \in {"idle", "replan_required"}
  BY <1>1 DEF Overtaken, Transient
<1>3. view'.state \notin Bound
  BY <1>2, WaitingStates
<1> QED
  BY <1>1, <1>3, AdvancingKeepsOrder

LEMMA ConfirmKeepsOrder ==
  ASSUME TInv, OInv, Confirm
  PROVE  OInv'
<1>1. /\ ~busy /\ ~busy' /\ UNCHANGED <<queue, posted, run, previous>>
      /\ view.state = "prepare_review"
  BY DEF Confirm
<1>2. CASE /\ version' = version + 1
           /\ view' = [view EXCEPT !.state = "confirmed", !.version = version']
  <2>1. view'.state = "confirmed" /\ "confirmed" \notin Bound
    BY <1>2 DEF TInv, ControllerOK, Views, Bound, Durable, Reviews
  <2> QED
    BY <1>1, <1>2, <2>1, AdvancingKeepsOrder
<1>3. CASE /\ view' \in {Transient("replan_required"), Transient("failure")}
           /\ UNCHANGED <<version, rt>>
  <2>1. view'.state \notin Shown \union Bound \union {"confirmed", "prepare_review"}
    BY <1>3, WaitingStates, TransientStates DEF Failures, Bound, Reviews
  <2> QED
    BY <1>1, <1>3, <2>1, LookingKeepsOrder
<1> QED
  BY <1>2, <1>3 DEF Confirm

LEMMA RerunKeepsOrder ==
  ASSUME TInv, OInv, Rerun
  PROVE  OInv'
<1> DEFINE job == [run |-> 0, version |-> version, op |-> "rerun", of |-> NoDecision,
                   pc |-> "queued", data |-> NoData, seen |-> NoData]
<1>1. job \in Jobs /\ job.version = version /\ job.run = 0 /\ job.op = "rerun"
  BY ResearchFlowAssumption DEF Jobs, NoDecision, TInv, PipelineOK
<1>2. /\ queue' = Append(queue, job)
      /\ UNCHANGED <<posted, version, rt, view, previous, busy, run, review>>
  BY DEF Rerun, controller, pipeline
<1> HIDE DEF job
<1>3. /\ OrderedOK' /\ (Aligned => Aligned')
      /\ Len(queue) \in Nat /\ Len(queue') = Len(queue) + 1
      /\ \A i \in 1..Len(queue) : queue'[i] = queue[i]
      /\ queue'[Len(queue) + 1] = job
  BY <1>1, <1>2, JoiningKeepsOrder
<1>4. /\ \A i \in 1..Len(queue') : i \in 1..Len(queue) \/ i = Len(queue) + 1
      /\ 1..Len(queue) \subseteq 1..Len(queue')
  BY <1>3
<1>5. Live' <=> Live
  <2>1. Live => Live'
    BY <1>2, <1>3, <1>4 DEF Live
  <2>2. Live' => Live
    BY <1>1, <1>2, <1>3, <1>4 DEF Live
  <2> QED
    BY <2>1, <2>2
<1>6. RunsOK'
  BY <1>1, <1>2, <1>3, <1>4, <1>5 DEF OInv, RunsOK
<1>7. AlignedOK'
  BY <1>1, <1>2, <1>3, <1>4, <1>5 DEF OInv, AlignedOK
<1>8. VersionsOK' /\ ConfirmedOK'
  BY <1>2, <1>5 DEF OInv, VersionsOK, ConfirmedOK
<1> QED
  BY <1>3, <1>6, <1>7, <1>8 DEF OInv

\* A result that is accepted is of a live run; one that is not leaves what waits for it.
LEMMA DeliverKeepsOrder ==
  ASSUME TInv, OInv, Deliver
  PROVE  OInv'
<1> DEFINE r     == Head(posted)
           stale == r.view.state = "prepare_review"
                      /\ tasks[r.view.of[1]].data # rt.identity.data
           shown == IF stale THEN Transient("failure") ELSE r.view
<1>1. /\ UNCHANGED <<queue, run, version, previous, rt>> /\ posted' = Tail(posted)
      /\ posted # <<>>
  BY DEF Deliver, pipeline
<1>2. /\ Len(posted') = Len(posted) - 1 /\ Len(posted) \in Nat /\ Len(posted) > 0
      /\ r = posted[1]
      /\ \A i \in 1..Len(posted') : posted'[i] = posted[i + 1]
  BY <1>1, HeadTailProperties, LenProperties, EmptySeq DEF TInv, PostedOK
<1>3. \A i \in 1..Len(posted') : i + 1 \in 1..Len(posted)
  BY <1>2
<1>4. 1 \in 1..Len(posted)
  BY <1>2
<1>5. Aligned => Aligned'
  BY <1>1 DEF Aligned
<1>6. Live' => Live
  BY <1>1, <1>2, <1>3 DEF Live
<1>7. OrderedOK'
  BY <1>1, <1>2, <1>3 DEF OInv, OrderedOK
<1>8. CASE ~Accepts(r)
  <2>1. view' = view /\ (busy' <=> busy) /\ (review' <=> review)
    BY <1>8 DEF Deliver
  <2>2. ASSUME NEW i \in 1..Len(posted), posted[i].run = run, posted[i].version = version,
               run # 0
        PROVE  Live'
    <3>1. i # 1
      BY <1>2, <1>8, <2>2 DEF Accepts
    <3>2. i - 1 \in 1..Len(posted') /\ posted'[i - 1] = posted[i]
      BY <1>2, <3>1
    <3> QED
      BY <1>1, <2>2, <3>2 DEF Live
  <2>3. Live => Live'
    BY <1>1, <2>2 DEF Live
  <2>4. RunsOK'
    BY <1>1, <1>2, <1>3, <2>1, <2>3 DEF OInv, RunsOK
  <2>5. AlignedOK'
    BY <1>1, <1>2, <1>3, <1>5, <1>6, <2>1 DEF OInv, AlignedOK
  <2>6. VersionsOK' /\ ConfirmedOK'
    BY <1>1, <1>2, <1>3, <1>6, <2>1 DEF OInv, VersionsOK, ConfirmedOK
  <2> QED
    BY <1>7, <2>4, <2>5, <2>6 DEF OInv
<1>9. CASE Accepts(r)
  <2>1. view' = shown /\ ~busy'
    BY <1>9 DEF Deliver
  <2>2. r.run = run /\ r.version = version /\ run # 0 /\ Live
    BY <1>1, <1>2, <1>4, <1>9 DEF Accepts, OInv, RunsOK, Live
  <2>3. /\ shown.state \in Shown => Aligned
        /\ shown.state \in Bound => shown.version = version
        /\ shown.state # "confirmed"
    <3>1. CASE stale
      <4>1. shown = Transient("failure")
        BY <3>1
      <4> QED
        BY <4>1, WaitingStates, TransientStates DEF Failures
    <3>2. CASE ~stale
      <4>1. shown = posted[1].view /\ posted[1].version = version
        BY <1>2, <2>2, <3>2
      <4> QED
        BY <1>4, <4>1 DEF OInv, AlignedOK, VersionsOK, ConfirmedOK
    <3> QED
      BY <3>1, <3>2
  <2> HIDE DEF shown
  <2>4. RunsOK'
    BY <1>1, <1>2, <1>3, <2>1 DEF OInv, RunsOK
  <2>5. AlignedOK'
    BY <1>1, <1>2, <1>3, <1>5, <1>6, <2>1, <2>3 DEF OInv, AlignedOK
  <2>6. VersionsOK' /\ ConfirmedOK'
    BY <1>1, <1>2, <1>3, <1>6, <2>1, <2>2, <2>3 DEF OInv, VersionsOK, ConfirmedOK
  <2> QED
    BY <1>7, <2>4, <2>5, <2>6 DEF OInv
<1> QED
  BY <1>8, <1>9

LEMMA NextOInv ==
  TInv /\ OInv /\ [Next]_vars => OInv'
<1> SUFFICES ASSUME TInv, OInv, [Next]_vars PROVE OInv'
  OBVIOUS
<1>1. CASE Worker
  BY <1>1, WorkerKeepsOrder
<1>2. CASE Deliver \/ CommitEdit
  BY <1>2, DeliverKeepsOrder, CommitEditKeepsOrder
<1>3. CASE RollBackEdit \/ Edit
  <2>1. UNCHANGED <<controller, queue, posted, rt, version>>
    BY <1>3 DEF RollBackEdit, Edit
  <2>2. UNCHANGED <<view, previous, busy, run, review>>
    BY <2>1 DEF controller
  <2> QED
    BY <2>1, <2>2, QuietKeepsOrder
<1>4. CASE User /\ ~Edit
  BY <1>4, CommandsKeepOrder, IntakeStepKeepsOrder, CancelKeepsOrder, RetractKeepsOrder,
     AdoptModeKeepsOrder, AdoptLanguageKeepsOrder, ConfirmKeepsOrder, RerunKeepsOrder DEF User
<1>5. CASE UNCHANGED vars
  BY <1>5, QuietKeepsOrder DEF vars, controller, pipeline
<1> QED
  BY <1>1, <1>2, <1>3, <1>4, <1>5 DEF Next, User

LEMMA InitOInv ==
  Init => OInv
<1> SUFFICES ASSUME Init PROVE OInv
  OBVIOUS
<1>1. /\ Len(queue) = 0 /\ Len(posted) = 0 /\ run = 0 /\ ~busy
      /\ view = Transient("idle") /\ previous = view
  BY EmptySeq DEF Init
<1>2. view.state \notin Shown \union Bound \union {"confirmed"}
  BY <1>1, WaitingStates, TransientStates
<1>3. previous.state \notin Durable
  BY <1>1, <1>2, ShownIsBound
<1>4. RunsOK /\ OrderedOK
  BY <1>1 DEF RunsOK, OrderedOK
<1>5. AlignedOK /\ VersionsOK /\ ConfirmedOK
  BY <1>1, <1>2, <1>3 DEF AlignedOK, VersionsOK, ConfirmedOK
<1> QED
  BY <1>4, <1>5 DEF OInv

LEMMA InductiveOrder ==
  Spec => [](TInv /\ OInv)
<1> QED
  BY InitTInv, NextTInv, InitOInv, NextOInv, PTL DEF Spec

\* The command bar never waits in vain: whatever was cancelled, edited or dropped, a busy
\* controller has a job or a result of its own run and of the current version before it.
THEOREM BusyHasAnswer == Spec => []BusyIsAnswered
<1>1. TInv /\ OInv => BusyIsAnswered
  <2> SUFFICES ASSUME TInv, OInv, busy
               PROVE  \E r \in ToSet(queue) \union ToSet(posted) :
                        r.run = run /\ r.version = version
    BY DEF BusyIsAnswered
  <2>1. Live
    BY DEF OInv, RunsOK
  <2>2. DOMAIN queue = 1..Len(queue) /\ DOMAIN posted = 1..Len(posted)
    BY LenProperties DEF TInv, QueueOK, PostedOK
  <2> QED
    BY <2>1, <2>2 DEF Live, ToSet
<1> QED
  BY <1>1, InductiveOrder, PTL

\* Whatever an edit overtakes, a cancellation puts back or a language makes anew: no
\* decision, meaning or preparation of another version is ever on screen.
THEOREM NothingStaleIsShown == Spec => []DriftIsShown
<1>1. OInv => DriftIsShown
  BY DEF OInv, VersionsOK, DriftIsShown, Bound
<1> QED
  BY <1>1, InductiveOrder, PTL

\* A confirmed preparation cannot be turned back into something that can be confirmed:
\* nothing accepts a late result, and no switch of mode or cancellation puts it back.
THEOREM ConfirmationIsFinal == Spec => ConfirmedStays
<1> DEFINE Stays == view.state = "confirmed" => view'.state \in {"confirmed", "replan_required"}
<1>1. TInv /\ OInv /\ [Next]_vars => [Stays]_vars
  <2> SUFFICES ASSUME TInv, OInv, Next, view.state = "confirmed"
               PROVE  view'.state \in {"confirmed", "replan_required"}
    OBVIOUS
  <2>1. ~Live /\ ~busy
    BY DEF OInv, RunsOK, ConfirmedOK
  <2>2. Discarded = view
    BY DEF Discarded
  <2>3. CASE Worker
    BY <2>3 DEF Worker, WorkerOnly, controller, Capture, Check, Locate, StartReplan,
                CommitInitial, CommitAnswer, ResumePending, RetractCurrent, Conflict,
                ReviewMeanings, PrepareCandidate, Publish, FailJob, Recompute
  <2>4. CASE Deliver
    <3>1. Len(posted) \in Nat /\ Len(posted) > 0 /\ Head(posted) = posted[1]
      BY <2>4, HeadTailProperties, LenProperties, EmptySeq DEF Deliver, TInv, PostedOK
    <3>2. 1 \in 1..Len(posted)
      BY <3>1
    <3>3. ~Accepts(Head(posted))
      BY <2>1, <3>1, <3>2 DEF Accepts, Live, OInv, RunsOK
    <3> QED
      BY <2>4, <3>3 DEF Deliver
  <2>5. CASE CommitEdit
    BY <2>5 DEF CommitEdit, Sync, Overtaken, Transient
  <2>6. CASE RollBackEdit \/ Edit \/ Rerun
    BY <2>6 DEF RollBackEdit, Edit, Rerun, controller
  <2>7. CASE AdoptMode
    BY <2>2, <2>7 DEF AdoptMode
  <2>8. ~(Start \/ Resume \/ RecordCausalBoundary \/ Answer \/ Replan \/ Prepare
          \/ SubmitRoles \/ ConfirmVariableMeanings)
    BY DEF Command, Start, Resume, RecordCausalBoundary, Answer, Replan, Prepare,
           SubmitRoles, ConfirmVariableMeanings
  <2>9. ~(IntakeStep \/ Cancel \/ Retract \/ AdoptLanguage \/ Confirm)
    BY <2>1, <2>2 DEF IntakeStep, Turn, Cancel, Retract, AdoptLanguage, Durable, Confirm
  <2> QED
    BY <2>3, <2>4, <2>5, <2>6, <2>7, <2>8, <2>9 DEF Next, User
<1> QED
  BY <1>1, InductiveOrder, PTL DEF Spec, ConfirmedStays

==============================================================================
