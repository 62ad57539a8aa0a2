-------------------------- MODULE RunProtocol_proofs --------------------------
(***************************************************************************)
(* Proofs about RunProtocol, for every bound: its types, and that results  *)
(* on screen that are not marked stale are those of the current pipeline.  *)
(***************************************************************************)
EXTENDS RunProtocol, TLAPS

------------------------------------------------------------------------------
(* The inductive invariant.  A version number stands for one file at one   *)
(* commit: whatever carries the current version was read there.            *)

CurrentContent(c) == c.file = file /\ c.commit = commit

JobInv(j) ==
  /\ j.version <= version
  /\ j.version = version => /\ j.file = file
                            /\ \A c \in j.seen : CurrentContent(c)

ResultInv(r) ==
  /\ r.version <= version
  /\ r.version = version => \A c \in r.seen : CurrentContent(c)

JobsInv    == \A i \in 1..Len(jobs) : JobInv(jobs[i])
EventsInv  == \A i \in 1..Len(events) : ResultInv(events[i])
FutureInv  == \A r \in lastFuture : ResultInv(r)

IInv ==
  /\ TypeOK
  /\ JobsInv
  /\ EventsInv
  /\ FutureInv
  /\ FreshResultsAreCurrent
  /\ NoResultsOfAnotherFile

------------------------------------------------------------------------------
\* The initial state satisfies the invariant.
LEMMA InitIInv == Init => IInv
<1> SUFFICES ASSUME Init PROVE IInv OBVIOUS
<1>1. jobs = <<>> /\ events = <<>> /\ lastFuture = {} /\ shown = {} BY DEF Init
<1>2. jobs \in Seq(Jobs) /\ events \in Seq(Results) BY <1>1
<1>3. TypeOK BY <1>2 DEF Init, TypeOK, ManualSelection
<1>4. JobsInv /\ EventsInv /\ FutureInv
  BY <1>1 DEF JobsInv, EventsInv, FutureInv
<1>5. FreshResultsAreCurrent /\ NoResultsOfAnotherFile
  BY <1>1 DEF FreshResultsAreCurrent, NoResultsOfAnotherFile
<1>6. QED BY <1>3, <1>4, <1>5 DEF IInv

\* Applying a result that satisfies its part of the invariant keeps the panel's.
LEMMA ApplyResultKeepsPanel ==
  ASSUME IInv, NEW r \in Results, ResultInv(r), ApplyResult(r), UNCHANGED pipeline
  PROVE  /\ status' \in {"empty", "ready", "running", "error"}
         /\ stale' \in BOOLEAN
         /\ shown' \in SUBSET Contents
         /\ FreshResultsAreCurrent'
         /\ NoResultsOfAnotherFile'
<1>1. r.outcome \in {"ok", "invalid", "failed"} /\ r.seen \in SUBSET Contents
  BY DEF Results
<1>2. CASE ~Accepts(r)
  BY <1>2 DEF ApplyResult, IInv, TypeOK, panel, pipeline, FreshResultsAreCurrent,
              NoResultsOfAnotherFile
<1>3. CASE Accepts(r)
  <2>1. \A c \in r.seen : c.file = file /\ c.commit = commit
    BY <1>3 DEF Accepts, ResultInv, CurrentContent
  <2>2. CASE r.outcome = "failed"
    BY <1>3, <2>2 DEF ApplyResult, IInv, TypeOK, pipeline, FreshResultsAreCurrent,
                      NoResultsOfAnotherFile
  <2>3. CASE r.outcome = "invalid"
    BY <1>3, <2>3 DEF ApplyResult, IInv, TypeOK, pipeline, FreshResultsAreCurrent,
                      NoResultsOfAnotherFile
  <2>4. CASE r.outcome = "ok"
    BY <1>1, <1>3, <2>1, <2>4 DEF ApplyResult, pipeline, FreshResultsAreCurrent,
                      NoResultsOfAnotherFile
  <2>5. QED BY <1>1, <2>2, <2>3, <2>4
<1>4. QED BY <1>2, <1>3

\* What a running job observes of the live pipeline keeps the queue well typed
\* and, where the job carries the current version, current.
LEMMA ObserveKeepsJobs ==
  ASSUME IInv, NEW content \in Contents, content.file = file,
         jobs' = Observe(file, content)
  PROVE  /\ jobs' \in Seq(Jobs)
         /\ Len(jobs') = Len(jobs)
         /\ \A i \in 1..Len(jobs) :
              /\ jobs'[i].version = jobs[i].version
              /\ jobs'[i].file = jobs[i].file
              /\ jobs'[i].seen \subseteq jobs[i].seen \union {content}
<1>1. jobs \in Seq(Jobs) BY DEF IInv, TypeOK
<1>2. CASE jobs # <<>> /\ Head(jobs).seen # {} /\ Head(jobs).file = file
  <2> DEFINE J == [jobs[1] EXCEPT !.seen = @ \union {content}]
  <2>1. Len(jobs) >= 1 /\ jobs[1] \in Jobs BY <1>1, <1>2
  <2>2. J \in Jobs BY <2>1 DEF Jobs
  <2>3. jobs' = [jobs EXCEPT ![1] = J] BY <1>2 DEF Observe
  <2>4. jobs' \in Seq(Jobs) /\ Len(jobs') = Len(jobs) BY <1>1, <2>1, <2>2, <2>3
  <2>5. \A i \in 1..Len(jobs) : jobs'[i] = IF i = 1 THEN J ELSE jobs[i]
    BY <1>1, <2>1, <2>3
  <2>6. /\ J.version = jobs[1].version /\ J.file = jobs[1].file
        /\ J.seen = jobs[1].seen \union {content}
    BY <2>1 DEF Jobs
  <2>7. QED BY <2>4, <2>5, <2>6
<1>3. CASE ~(jobs # <<>> /\ Head(jobs).seen # {} /\ Head(jobs).file = file)
  BY <1>1, <1>3 DEF Observe
<1>4. QED BY <1>2, <1>3

\* A committed edit or an opened file starts a new version: nothing that is under
\* way carries it.
LEMMA OlderVersionsStayOlder ==
  ASSUME IInv, version' = version + 1,
         \A i \in 1..Len(jobs) : jobs'[i].version = jobs[i].version,
         Len(jobs') = Len(jobs), UNCHANGED <<events, lastFuture>>
  PROVE  JobsInv' /\ EventsInv' /\ FutureInv'
<1> USE DEF IInv, TypeOK
<1>1. \A i \in 1..Len(jobs) : jobs[i] \in Jobs OBVIOUS
<1>2. \A i \in 1..Len(events) : events[i] \in Results OBVIOUS
<1>3. JobsInv' BY <1>1 DEF JobsInv, JobInv, Jobs
<1>4. EventsInv' BY <1>2 DEF EventsInv, ResultInv, Results
<1>5. FutureInv' BY DEF FutureInv, ResultInv, Results
<1>6. QED BY <1>3, <1>4, <1>5

\* What a committed edit does to the pipeline and to the queue.
LEMMA EditCommittedKeepsQueues ==
  ASSUME IInv, EditCommitted, UNCHANGED <<file, lastFuture, events>>
  PROVE  /\ jobs' \in Seq(Jobs)
         /\ JobsInv' /\ EventsInv' /\ FutureInv'
         /\ version' \in Nat /\ status' = "ready" /\ stale' = TRUE
         /\ ui' = "idle" /\ commit' \in Nat /\ tentative' = FALSE
<1> DEFINE content == [file |-> file, commit |-> commit', tentative |-> FALSE]
<1>1. version' = version + 1 /\ status' = "ready" /\ stale' = TRUE /\ ui' = "idle"
      /\ commit' = commit + 1 /\ tentative' = FALSE /\ jobs' = Observe(file, content)
  BY DEF EditCommitted, MarkStepChanged
<1>2. commit' \in Nat /\ version' \in Nat /\ file \in Nat BY <1>1 DEF IInv, TypeOK
<1>3. content \in Contents /\ content.file = file BY <1>2 DEF Contents
<1> HIDE DEF content
<1>4. /\ jobs' \in Seq(Jobs) /\ Len(jobs') = Len(jobs)
      /\ \A i \in 1..Len(jobs) : jobs'[i].version = jobs[i].version
  BY <1>1, <1>3, ObserveKeepsJobs
<1>5. QED BY <1>1, <1>2, <1>4, OlderVersionsStayOlder

\* The content of a step inside one version: the queue sees at most one more
\* content, of the current file and commit.
LEMMA ObserveKeepsJobsInv ==
  ASSUME IInv, NEW content \in Contents, CurrentContent(content),
         jobs' = Observe(file, content), UNCHANGED <<version, file, commit>>
  PROVE  jobs' \in Seq(Jobs) /\ JobsInv'
<1>1. content.file = file BY DEF CurrentContent
<1>2. /\ jobs' \in Seq(Jobs)
      /\ Len(jobs') = Len(jobs)
      /\ \A i \in 1..Len(jobs) : /\ jobs'[i].version = jobs[i].version
                                /\ jobs'[i].file = jobs[i].file
                                /\ jobs'[i].seen \subseteq jobs[i].seen \union {content}
  BY <1>1, ObserveKeepsJobs
<1>3. JobsInv' BY <1>2 DEF IInv, JobsInv, JobInv, CurrentContent
<1>4. QED BY <1>2, <1>3

\* The part of the invariant that a step outside the panel and the pipeline keeps.
LEMMA PanelUntouched ==
  ASSUME IInv, UNCHANGED <<stale, shown, file, commit>>
  PROVE  FreshResultsAreCurrent' /\ NoResultsOfAnotherFile'
BY DEF IInv, FreshResultsAreCurrent, NoResultsOfAnotherFile

\* ... and a step that leaves everything under way and the pipeline alone.
LEMMA QueuesUntouched ==
  ASSUME IInv, UNCHANGED <<version, lastFuture, file, commit, jobs, events>>
  PROVE  JobsInv' /\ EventsInv' /\ FutureInv'
BY DEF IInv, JobsInv, JobInv, EventsInv, FutureInv, ResultInv, CurrentContent

------------------------------------------------------------------------------
\* Every step keeps the invariant.
LEMMA NextIInv == IInv /\ [Next]_vars => IInv'
<1> SUFFICES ASSUME IInv, [Next]_vars PROVE IInv' OBVIOUS
<1> USE DEF IInv
<1>1. CASE OpenDataFile
  <2>1. TypeOK' BY <1>1 DEF OpenDataFile, TypeOK, ManualSelection
  <2>2. JobsInv' /\ EventsInv' /\ FutureInv'
    BY <1>1, OlderVersionsStayOlder DEF OpenDataFile
  <2>3. FreshResultsAreCurrent' /\ NoResultsOfAnotherFile'
    BY <1>1 DEF OpenDataFile, FreshResultsAreCurrent, NoResultsOfAnotherFile
  <2>4. QED BY <2>1, <2>2, <2>3
<1>2. CASE CommandError
  <2>1. TypeOK' BY <1>2 DEF CommandError, TypeOK, ReadyUnlessEmpty, pipeline
  <2>2. QED BY <1>2, <2>1, PanelUntouched, QueuesUntouched DEF CommandError, pipeline
<1>3. CASE EditBegin
  <2> DEFINE content == [file |-> file, commit |-> commit, tentative |-> TRUE]
  <2>1. content \in Contents /\ CurrentContent(content)
    BY DEF TypeOK, Contents, CurrentContent
  <2>2. jobs' = Observe(file, content) BY <1>3 DEF EditBegin
  <2> HIDE DEF content
  <2>3. jobs' \in Seq(Jobs) /\ JobsInv'
    BY <1>3, <2>1, <2>2, ObserveKeepsJobsInv DEF EditBegin
  <2>4. TypeOK' BY <1>3, <2>3 DEF EditBegin, TypeOK, panel
  <2>5. EventsInv' /\ FutureInv'
    BY <1>3 DEF EditBegin, EventsInv, FutureInv, ResultInv, CurrentContent
  <2>6. QED BY <1>3, <2>3, <2>4, <2>5, PanelUntouched DEF EditBegin, panel
<1>4. CASE EditFail
  <2> DEFINE content == [file |-> file, commit |-> commit, tentative |-> FALSE]
  <2>1. content \in Contents /\ CurrentContent(content)
    BY DEF TypeOK, Contents, CurrentContent
  <2>2. jobs' = Observe(file, content) BY <1>4 DEF EditFail
  <2> HIDE DEF content
  <2>3. jobs' \in Seq(Jobs) /\ JobsInv'
    BY <1>4, <2>1, <2>2, ObserveKeepsJobsInv DEF EditFail
  <2>4. TypeOK' BY <1>4, <2>3 DEF EditFail, TypeOK, ReadyUnlessEmpty
  <2>5. EventsInv' /\ FutureInv'
    BY <1>4 DEF EditFail, EventsInv, FutureInv, ResultInv, CurrentContent
  <2>6. QED BY <1>4, <2>3, <2>4, <2>5, PanelUntouched DEF EditFail
<1>5. CASE EditData
  <2>1. EditCommitted /\ UNCHANGED <<file, lastFuture, events>> BY <1>5 DEF EditData
  <2>2. TypeOK' BY <1>5, <2>1, EditCommittedKeepsQueues DEF EditData, TypeOK
  <2>3. NoResultsOfAnotherFile' BY <1>5 DEF EditData, NoResultsOfAnotherFile
  <2>4. QED BY <2>1, <2>2, <2>3, EditCommittedKeepsQueues DEF FreshResultsAreCurrent
<1>6. CASE EditAnalysis
  <2>1. EditCommitted /\ UNCHANGED <<file, lastFuture, events>> BY <1>6 DEF EditAnalysis
  <2>2. TypeOK' BY <1>6, <2>1, EditCommittedKeepsQueues DEF EditAnalysis, TypeOK, ManualSelection
  <2>3. NoResultsOfAnotherFile' BY <1>6 DEF EditAnalysis, NoResultsOfAnotherFile
  <2>4. QED BY <2>1, <2>2, <2>3, EditCommittedKeepsQueues DEF FreshResultsAreCurrent
<1>7. CASE EditReport
  <2>1. EditCommitted /\ UNCHANGED <<file, lastFuture, events>> BY <1>7 DEF EditReport
  <2>2. TypeOK' BY <1>7, <2>1, EditCommittedKeepsQueues DEF EditReport, TypeOK
  <2>3. NoResultsOfAnotherFile' BY <1>7 DEF EditReport, NoResultsOfAnotherFile
  <2>4. QED BY <2>1, <2>2, <2>3, EditCommittedKeepsQueues DEF FreshResultsAreCurrent
<1>8. CASE CommitResearchPreparation
  <2>1. EditCommitted /\ UNCHANGED <<file, lastFuture, events>>
    BY <1>8 DEF CommitResearchPreparation
  <2>2. TypeOK'
    BY <1>8, <2>1, EditCommittedKeepsQueues
    DEF CommitResearchPreparation, TypeOK, AssistedSelection
  <2>3. FreshResultsAreCurrent' /\ NoResultsOfAnotherFile'
    BY <1>8 DEF CommitResearchPreparation, FreshResultsAreCurrent, NoResultsOfAnotherFile
  <2>4. QED BY <2>1, <2>2, <2>3, EditCommittedKeepsQueues
<1>9. CASE MarkCurrentSelection
  <2>1. confirmedAt' \in Nat /\ selection' \in {AssistedSelection, ManualSelection}
    BY <1>9 DEF MarkCurrentSelection, TypeOK
  <2>2. selection' \in [origin : {"manual", "assisted"}, mustConfirm : BOOLEAN]
    <3>1. AssistedSelection \in [origin : {"manual", "assisted"}, mustConfirm : BOOLEAN]
      BY DEF AssistedSelection
    <3>2. ManualSelection \in [origin : {"manual", "assisted"}, mustConfirm : BOOLEAN]
      BY DEF ManualSelection
    <3>3. QED BY <2>1, <3>1, <3>2
  <2>3. TypeOK' BY <1>9, <2>1, <2>2 DEF MarkCurrentSelection, TypeOK, panel, pipeline
  <2>4. QED
    BY <1>9, <2>3, PanelUntouched, QueuesUntouched DEF MarkCurrentSelection, panel, pipeline
<1>10. CASE RerunSubmit
  <2> DEFINE j == [run |-> latestRun', version |-> version, file |-> file,
                   seen |-> {}, callback |-> FALSE]
  <2>1. j \in Jobs /\ latestRun' \in Nat BY <1>10 DEF RerunSubmit, TypeOK, Jobs
  <2>2. jobs' = Append(jobs, j) BY <1>10 DEF RerunSubmit
  <2>3. JobInv(j) BY DEF JobInv, TypeOK
  <2>4. UNCHANGED <<version, file, commit>> BY <1>10 DEF RerunSubmit, pipeline
  <2> HIDE DEF j
  <2>5. jobs' \in Seq(Jobs) /\ Len(jobs') = Len(jobs) + 1
        /\ \A i \in 1..Len(jobs') : jobs'[i] = IF i <= Len(jobs) THEN jobs[i] ELSE j
    BY <2>1, <2>2 DEF TypeOK
  <2>6. \A i \in 1..Len(jobs') : JobInv(jobs'[i])
    BY <2>3, <2>5 DEF JobsInv, TypeOK
  <2>7. JobsInv' BY <2>4, <2>6 DEF JobsInv, JobInv, CurrentContent
  <2>8. TypeOK' BY <1>10, <2>1, <2>5 DEF RerunSubmit, TypeOK, panel, pipeline
  <2>9. EventsInv' /\ FutureInv'
    BY <1>10, <2>4 DEF RerunSubmit, EventsInv, FutureInv, ResultInv, CurrentContent
  <2>10. QED BY <1>10, <2>7, <2>8, <2>9, PanelUntouched DEF RerunSubmit, panel, pipeline
<1>11. CASE RerunAddCallback
  <2>1. UNCHANGED <<version, latestRun, lastFuture, selection, pipeline, dataCommit,
                    confirmedAt, events>> /\ ui' = "registered"
    BY <1>11 DEF RerunAddCallback
  <2>2. CASE lastFuture = {} /\ jobs' = [jobs EXCEPT ![Len(jobs)].callback = TRUE]
             /\ UNCHANGED panel
    <3>1. CASE jobs = <<>>
      <4>1. jobs' = jobs BY <2>2, <3>1
      <4>2. TypeOK' BY <2>1, <2>2, <4>1 DEF TypeOK, panel, pipeline
      <4>3. QED BY <2>1, <2>2, <4>1, <4>2, PanelUntouched, QueuesUntouched DEF panel, pipeline
    <3>2. CASE jobs # <<>>
      <4> DEFINE n == Len(jobs)
                 J == [jobs[n] EXCEPT !.callback = TRUE]
      <4>1. n \in 1..Len(jobs) /\ jobs[n] \in Jobs BY <3>2 DEF TypeOK
      <4>2. J \in Jobs /\ J.version = jobs[n].version /\ J.file = jobs[n].file
            /\ J.seen = jobs[n].seen
        BY <4>1 DEF Jobs
      <4>3. jobs' = [jobs EXCEPT ![n] = J] BY <2>2
      <4> HIDE DEF n, J
      <4>4. jobs' \in Seq(Jobs) /\ Len(jobs') = Len(jobs)
            /\ \A i \in 1..Len(jobs) : jobs'[i] = IF i = n THEN J ELSE jobs[i]
        BY <4>1, <4>2, <4>3 DEF TypeOK
      <4>5. JobsInv'
        BY <2>1, <4>1, <4>2, <4>4 DEF JobsInv, JobInv, CurrentContent, pipeline
      <4>6. TypeOK' BY <2>1, <2>2, <4>4 DEF TypeOK, panel, pipeline
      <4>7. EventsInv' /\ FutureInv'
        BY <2>1 DEF EventsInv, FutureInv, ResultInv, CurrentContent, pipeline
      <4>8. QED BY <2>1, <2>2, <4>5, <4>6, <4>7, PanelUntouched DEF panel, pipeline
    <3>3. QED BY <3>1, <3>2
  <2>3. CASE UNCHANGED jobs /\ \E r \in lastFuture : ApplyResult(r)
    <3>1. PICK r \in lastFuture : ApplyResult(r) BY <2>3
    <3>2. r \in Results /\ ResultInv(r) BY DEF TypeOK, FutureInv
    <3>3. TypeOK' BY <2>1, <2>3, <3>1, <3>2, ApplyResultKeepsPanel DEF TypeOK, pipeline
    <3>4. QED BY <2>1, <2>3, <3>1, <3>2, <3>3, ApplyResultKeepsPanel, QueuesUntouched
              DEF pipeline
  <2>4. QED BY <1>11, <2>2, <2>3 DEF RerunAddCallback
<1>12. CASE RerunMarkRunning
  <2>1. TypeOK' BY <1>12 DEF RerunMarkRunning, TypeOK, pipeline
  <2>2. QED BY <1>12, <2>1, PanelUntouched, QueuesUntouched DEF RerunMarkRunning, pipeline
<1>13. CASE DeliverResult
  <2>1. Head(events) \in Results /\ ResultInv(Head(events)) /\ Len(events) >= 1
    BY <1>13 DEF DeliverResult, TypeOK, EventsInv
  <2>2. events' \in Seq(Results) /\ Len(events') = Len(events) - 1
        /\ \A i \in 1..Len(events') : events'[i] = events[i + 1]
    BY <1>13, <2>1 DEF DeliverResult, TypeOK
  <2>3. ApplyResult(Head(events)) /\ UNCHANGED <<version, latestRun, lastFuture,
          selection, ui, pipeline, dataCommit, confirmedAt, jobs>>
    BY <1>13 DEF DeliverResult
  <2>4. TypeOK' BY <2>1, <2>2, <2>3, ApplyResultKeepsPanel DEF TypeOK, pipeline
  <2>5. EventsInv'
    <3>1. \A i \in 1..Len(events') : i + 1 \in 1..Len(events) BY <2>2 DEF TypeOK
    <3>2. QED BY <2>2, <2>3, <3>1 DEF EventsInv, ResultInv, CurrentContent, pipeline
  <2>6. JobsInv' /\ FutureInv'
    BY <2>3 DEF JobsInv, JobInv, FutureInv, ResultInv, CurrentContent, pipeline
  <2>7. QED BY <2>1, <2>3, <2>4, <2>5, <2>6, ApplyResultKeepsPanel
<1>14. CASE WaitForLastRun
  <2>1. PICK r \in lastFuture : ApplyResult(r) BY <1>14 DEF WaitForLastRun
  <2>2. r \in Results /\ ResultInv(r) BY DEF TypeOK, FutureInv
  <2>3. UNCHANGED <<version, latestRun, lastFuture, selection, ui, pipeline,
                    dataCommit, confirmedAt, jobs, events>>
    BY <1>14 DEF WaitForLastRun
  <2>4. TypeOK' BY <2>1, <2>2, <2>3, ApplyResultKeepsPanel DEF TypeOK, pipeline
  <2>5. QED BY <2>1, <2>2, <2>3, <2>4, ApplyResultKeepsPanel, QueuesUntouched DEF pipeline
<1>15. CASE WorkerStart
  <2> DEFINE content == ContentOf(jobs[1].file)
             J == [jobs[1] EXCEPT !.seen = {content}]
  <2>1. Len(jobs) >= 1 /\ jobs[1] \in Jobs /\ JobInv(jobs[1])
    BY <1>15 DEF WorkerStart, TypeOK, JobsInv
  <2>2. content \in Contents /\ content.file = jobs[1].file
    BY <2>1 DEF ContentOf, Contents, Jobs, TypeOK
  <2>3. jobs[1].file = file => CurrentContent(content)
    BY DEF ContentOf, CurrentContent
  <2>4. jobs' = [jobs EXCEPT ![1] = J]
    <3>1. Head(jobs) = jobs[1] BY <2>1 DEF TypeOK
    <3>2. jobs' = [jobs EXCEPT ![1].seen = {ContentOf(Head(jobs).file)}]
      BY <1>15 DEF WorkerStart
    <3>3. QED BY <3>1, <3>2
  <2> HIDE DEF content
  <2>5. J \in Jobs /\ J.version = jobs[1].version /\ J.file = jobs[1].file
        /\ J.seen = {content}
    BY <2>1, <2>2 DEF Jobs
  <2> HIDE DEF J
  <2>6. jobs' \in Seq(Jobs) /\ Len(jobs') = Len(jobs)
        /\ \A i \in 1..Len(jobs) : jobs'[i] = IF i = 1 THEN J ELSE jobs[i]
    BY <2>1, <2>4, <2>5 DEF TypeOK
  <2>7. UNCHANGED <<version, panel, latestRun, lastFuture, selection, ui, pipeline,
                    dataCommit, confirmedAt, events>>
    BY <1>15 DEF WorkerStart
  <2>8. JobInv(J) BY <2>1, <2>3, <2>5 DEF JobInv
  <2>9. JobsInv'
    BY <2>6, <2>7, <2>8 DEF JobsInv, JobInv, CurrentContent, pipeline
  <2>10. TypeOK' BY <2>6, <2>7 DEF TypeOK, panel, pipeline
  <2>11. EventsInv' /\ FutureInv'
    BY <2>7 DEF EventsInv, FutureInv, ResultInv, CurrentContent, pipeline
  <2>12. QED BY <2>7, <2>9, <2>10, <2>11, PanelUntouched DEF panel, pipeline
<1>16. CASE WorkerFinish
  <2>1. Len(jobs) >= 1 /\ jobs[1] \in Jobs /\ JobInv(jobs[1])
    BY <1>16 DEF WorkerFinish, TypeOK, JobsInv
  <2>2. UNCHANGED <<version, panel, latestRun, selection, ui, pipeline, dataCommit,
                    confirmedAt>> /\ jobs' = Tail(jobs)
    BY <1>16 DEF WorkerFinish
  <2>3. PICK o \in {"ok", "invalid", "failed"} :
          LET r == [run |-> Head(jobs).run, version |-> Head(jobs).version,
                    outcome |-> o, seen |-> Head(jobs).seen]
          IN  /\ lastFuture' = IF r.run = latestRun THEN {r} ELSE lastFuture
              /\ events' = IF Head(jobs).callback THEN Append(events, r) ELSE events
    BY <1>16 DEF WorkerFinish
  <2> DEFINE r == [run |-> Head(jobs).run, version |-> Head(jobs).version,
                   outcome |-> o, seen |-> Head(jobs).seen]
  <2>4. r \in Results /\ ResultInv(r)
    BY <2>1 DEF Results, Jobs, ResultInv, JobInv
  <2>5. lastFuture' \in {{r}, lastFuture} /\ events' \in {Append(events, r), events}
    BY <2>3
  <2> HIDE DEF r
  <2>6. jobs' \in Seq(Jobs) /\ Len(jobs') = Len(jobs) - 1
        /\ \A i \in 1..Len(jobs') : jobs'[i] = jobs[i + 1]
    BY <2>1, <2>2 DEF TypeOK
  <2>7. events' \in Seq(Results)
        /\ \A i \in 1..Len(events') : \/ events'[i] = r
                                      \/ i \in 1..Len(events) /\ events'[i] = events[i]
    BY <2>4, <2>5 DEF TypeOK
  <2>8. TypeOK' BY <2>2, <2>4, <2>5, <2>6, <2>7 DEF TypeOK, panel, pipeline
  <2>9. JobsInv'
    <3>1. \A i \in 1..Len(jobs') : i + 1 \in 1..Len(jobs) BY <2>6 DEF TypeOK
    <3>2. QED BY <2>2, <2>6, <3>1 DEF JobsInv, JobInv, CurrentContent, pipeline
  <2>10. EventsInv'
    BY <2>2, <2>4, <2>7 DEF EventsInv, ResultInv, CurrentContent, pipeline
  <2>11. FutureInv'
    BY <2>2, <2>4, <2>5 DEF FutureInv, ResultInv, CurrentContent, pipeline
  <2>12. QED BY <2>2, <2>8, <2>9, <2>10, <2>11, PanelUntouched DEF panel, pipeline
<1>17. CASE UNCHANGED vars
  <2>1. TypeOK' BY <1>17 DEF vars, TypeOK, panel, pipeline
  <2>2. QED BY <1>17, <2>1, PanelUntouched, QueuesUntouched DEF vars, panel, pipeline
<1>18. QED
  BY <1>1, <1>2, <1>3, <1>4, <1>5, <1>6, <1>7, <1>8, <1>9, <1>10, <1>11, <1>12,
     <1>13, <1>14, <1>15, <1>16, <1>17 DEF Next

------------------------------------------------------------------------------
\* The run protocol keeps its types, whatever the bounds.
THEOREM TypeCorrect == Spec => []TypeOK
<1>1. Spec => []IInv BY InitIInv, NextIInv, PTL DEF Spec
<1>2. IInv => TypeOK BY DEF IInv
<1>3. QED BY <1>1, <1>2, PTL

\* Results on screen that are not marked stale were computed from the open file
\* at its current version, for every number of runs, edits and opened files.
THEOREM FreshResultsCorrect == Spec => []FreshResultsAreCurrent
<1>1. Spec => []IInv BY InitIInv, NextIInv, PTL DEF Spec
<1>2. IInv => FreshResultsAreCurrent BY DEF IInv
<1>3. QED BY <1>1, <1>2, PTL

\* No result computed from one data file is ever on screen under another.
THEOREM FilesNeverMix == Spec => []NoResultsOfAnotherFile
<1>1. Spec => []IInv BY InitIInv, NextIInv, PTL DEF Spec
<1>2. IInv => NoResultsOfAnotherFile BY DEF IInv
<1>3. QED BY <1>1, <1>2, PTL

------------------------------------------------------------------------------
(* What a run is allowed to start from.  The data never changed after the   *)
(* last commit, and an assisted selection that need not be confirmed again  *)
(* was confirmed after the data changed last.                               *)

SelectionInv ==
  /\ dataCommit <= commit
  /\ selection.origin = "manual" \/ selection.mustConfirm \/ confirmedAt >= dataCommit

\* Every step keeps it: the edits that touch data ask for a new confirmation, and
\* a confirmation is given at the commit that is current.
LEMMA NextSelectionInv ==
  IInv /\ SelectionInv /\ [Next]_vars => SelectionInv'
<1> SUFFICES ASSUME IInv, SelectionInv, [Next]_vars PROVE SelectionInv' OBVIOUS
<1>1. /\ dataCommit \in Nat /\ commit \in Nat /\ confirmedAt \in Nat
      /\ selection \in [origin : {"manual", "assisted"}, mustConfirm : BOOLEAN]
  BY DEF IInv, TypeOK
<1> USE DEF SelectionInv
<1>2. CASE OpenDataFile BY <1>2 DEF OpenDataFile
<1>3. CASE EditData
  <2>1. dataCommit' = commit' BY <1>3 DEF EditData
  <2>2. /\ selection'.origin = selection.origin
        /\ selection'.mustConfirm = (selection.mustConfirm \/ selection.origin # "manual")
    BY <1>1, <1>3 DEF EditData
  <2>3. commit' = commit + 1 BY <1>3 DEF EditData, EditCommitted
  <2>4. dataCommit' <= commit' BY <1>1, <2>1, <2>3
  <2>5. selection'.origin = "manual" \/ selection'.mustConfirm BY <2>2, Zenon
  <2>6. QED BY <2>4, <2>5
<1>4. CASE EditAnalysis
  BY <1>1, <1>4 DEF EditAnalysis, EditCommitted, ManualSelection
<1>5. CASE EditReport
  BY <1>1, <1>5 DEF EditReport, EditCommitted
<1>6. CASE CommitResearchPreparation
  BY <1>1, <1>6 DEF CommitResearchPreparation, EditCommitted
<1>7. CASE MarkCurrentSelection
  BY <1>1, <1>7 DEF MarkCurrentSelection, pipeline, ManualSelection
<1>8. CASE UNCHANGED <<selection, commit, dataCommit, confirmedAt>>
  BY <1>8
<1>9. QED
  BY <1>2, <1>3, <1>4, <1>5, <1>6, <1>7, <1>8
  DEF Next, vars, pipeline, CommandError, EditBegin, EditFail, RerunSubmit,
      RerunAddCallback, RerunMarkRunning, DeliverResult, WaitForLastRun,
      WorkerStart, WorkerFinish

\* Only rerun counts a run, and it refuses a selection that must be confirmed.
LEMMA RunsStartInRerun ==
  ASSUME [Next]_vars, latestRun' # latestRun
  PROVE  ~selection.mustConfirm
BY DEF Next, vars, RerunSubmit, OpenDataFile, CommandError, EditBegin, EditFail,
       EditData, EditAnalysis, EditReport, CommitResearchPreparation,
       MarkCurrentSelection, RerunAddCallback, RerunMarkRunning, DeliverResult,
       WaitForLastRun, WorkerStart, WorkerFinish

\* No run is ever computed from a guided selection whose data has changed since
\* the user confirmed it, however edits, reports and confirmations alternate.
THEOREM RunsNeedConfirmation == Spec => RunsUseConfirmedSelections
<1>1. Init => SelectionInv BY DEF Init, SelectionInv, ManualSelection
<1>2. Spec => [](IInv /\ SelectionInv)
  BY <1>1, InitIInv, NextIInv, NextSelectionInv, PTL DEF Spec
<1>3. IInv /\ SelectionInv /\ [Next]_vars
        => [latestRun' # latestRun =>
              selection.origin = "manual" \/ confirmedAt >= dataCommit]_vars
  BY RunsStartInRerun DEF SelectionInv
<1>4. QED BY <1>2, <1>3, PTL DEF Spec, RunsUseConfirmedSelections

==============================================================================
