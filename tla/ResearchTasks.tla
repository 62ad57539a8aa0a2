---------------------------- MODULE ResearchTasks ----------------------------
(***************************************************************************)
(* Research tasks: several windows of the application share one index of   *)
(* tasks (SQLite) and one Decision Ledger per task (SQLite again), and     *)
(* each may crash between any two of its steps.                            *)
(*                                                                         *)
(*   src/src/modori/research_memory/task_index.py    ResearchTaskIndex     *)
(*   src/src/modori/research_memory/passport_state.py PassportHistory      *)
(*   src/src/modori/research_memory/promotion.py                           *)
(*                                         ResearchMemoryCoordinator       *)
(*   src/src/modori/research_flow/task_session.py                          *)
(*                                         ResearchTaskSessionStore        *)
(*   src/src/modori/research_flow/coordinator.py                           *)
(*                                         LiveResearchFlowCoordinator     *)
(*   src/src/modori/ui/research_flow_controller.py                         *)
(*                                         ResearchFlowRuntime           *)
(*                                                                         *)
(* A window's operation is a job of several steps; a step ends where       *)
(* another window can notice it or a crash leaves something behind, that   *)
(* is, with a transaction.  A connection trusts the index as it verified   *)
(* it when it was opened: a commit by another connection makes it stale    *)
(* (PRAGMA data_version), and it then refuses everything.                  *)
(*                                                                         *)
(* Data: a request is the profile it was drafted from and the questions    *)
(* answered since; the planner is the function Plan.  Hashes, signatures   *)
(* and artifacts are not modelled: nothing outside the program writes to   *)
(* the files, so that verification fails only where the program makes it.  *)
(***************************************************************************)
EXTENDS Naturals, Sequences, FiniteSets, FiniteSetsExt

CONSTANTS
  Windows,     \* running instances of the application
  Tasks,       \* task ids that _new_task_identity may draw
  Identities,  \* exact dataset identities
  Drafts,      \* profiles and roles a user may confirm
  Questions,   \* Questions[d]: the clarifications the planner asks about draft d
  MaxRows      \* _MAX_ROWS

NoTask     == "no task"
NoIdentity == "no identity"

ASSUME ResearchTasksAssumption ==
  /\ NoTask \notin Tasks /\ NoIdentity \notin Identities
  /\ Questions \in [Drafts -> Nat]
  /\ MaxRows \in Nat /\ Drafts # {}

VARIABLES
  rows,    \* the index: a row for every task that was allocated
  ledgers, \* a sequence of events for every task that has a ledger
  writer,  \* the window that holds the write lock of the index, if any
  view,    \* view[w]: what a window keeps between two jobs (and shows)
  job      \* job[w]: the step its job is at

vars == <<rows, ledgers, writer, view, job>>

------------------------------------------------------------------------------
(* Ledgers.                                                                *)

\* An event, with the request its resulting snapshot holds and, of an answer or a
\* retraction, the place of the passport it closes.
Event(kind, draft, answers, of) ==
  [kind |-> kind, draft |-> draft, answers |-> answers, of |-> of]

HeadOf(L) == L[Len(L)]
Request(e) == <<e.draft, e.answers>>

\* What the planner says to a request: another question, or a recommendation or an
\* abstention.
Plan(request) == IF request[2] < Questions[request[1]] THEN "clarify" ELSE "final"

\* PassportHistory.inspect: the event that has consumed or retracted passport i.
Closed(L, i) == {j \in DOMAIN L : L[j].kind \in {"answered", "retracted"} /\ L[j].of = i}

\* Mutant: a ledger is resumable only where it was created.
MutRecover(L) ==
  LET passports == {i \in DOMAIN L : L[i].kind = "passport"
                                      /\ Request(L[i]) = Request(HeadOf(L))}
      kind == IF passports = {} THEN IF Len(L) = 1 THEN "pending" ELSE "corrupt"
              ELSE IF HeadOf(L).kind = "retracted" THEN "retracted"
              ELSE Plan(Request(HeadOf(L)))
  IN  [kind |-> IF L = <<>> THEN "empty" ELSE kind, seq |-> Len(L)]

\* _recover_from_store: what a ledger says now, and at which event.
Recover(L) ==
  LET passports   == {i \in DOMAIN L : L[i].kind = "passport"
                                        /\ Request(L[i]) = Request(HeadOf(L))}
      latest      == CHOOSE i \in passports : \A j \in passports : j <= i
      outstanding == {i \in passports : Closed(L, i) = {}}
      closing     == {L[j].kind : j \in Closed(L, latest)}
      kind == IF passports = {}
                THEN IF HeadOf(L).kind \in {"created", "answered"}
                       THEN "pending" ELSE "corrupt"
              ELSE IF "retracted" \in closing
                THEN IF outstanding = {} /\ Closed(L, latest) = {Len(L)}
                       THEN "retracted" ELSE "corrupt"
              ELSE IF outstanding = {latest} /\ latest = Len(L)
                THEN Plan(Request(HeadOf(L))) ELSE "corrupt"
  IN  [kind |-> IF L = <<>> THEN "empty" ELSE kind, seq |-> Len(L)]

\* Mutant: a pending request is shown with the decision that will be made.
MutRecord(t) ==
  LET kind == Recover(ledgers[t]).kind
  IN  [task |-> t, seq |-> Len(ledgers[t]),
       kind |-> IF kind = "pending" THEN Plan(Request(HeadOf(ledgers[t]))) ELSE kind]

\* A record is a task with what its ledger says.
Record(t) == [task |-> t, kind |-> Recover(ledgers[t]).kind, seq |-> Len(ledgers[t])]
NoRecord  == [task |-> NoTask, kind |-> "none", seq |-> 0]
IsDecision(kind) == kind \in {"clarify", "final"}

------------------------------------------------------------------------------
(* The index.                                                              *)
ActiveOf(i) == {t \in DOMAIN rows : rows[t].identity = i /\ rows[t].active}
RowsOf(i)   == {t \in DOMAIN rows : rows[t].identity = i}
Unused      == Tasks \ DOMAIN ledgers

NextOrdinal(i) == Max({0} \union {rows[t].ordinal : t \in RowsOf(i)}) + 1

\* Mutant: the replaced row stays open.
MutAllocated(t, i, replaces) ==
  [u \in DOMAIN rows \union {t} |->
     IF u = t THEN [identity |-> i, ordinal |-> NextOrdinal(i), active |-> TRUE]
     ELSE rows[u]]

\* allocate: the replaced row is closed and the new one opened in one transaction.
Allocated(t, i, replaces) ==
  [u \in DOMAIN rows \union {t} |->
     IF u = t THEN [identity |-> i, ordinal |-> NextOrdinal(i), active |-> TRUE]
     ELSE IF u \in replaces THEN [rows[u] EXCEPT !.active = FALSE] ELSE rows[u]]

------------------------------------------------------------------------------
(* Jobs.                                                                   *)
Idle == [pc |-> "idle", outcome |-> "none"]

\* A job at a step, with the connection to the index just opened and verified.
At(pc, op, i, t, draft) ==
  [pc |-> pc, op |-> op, identity |-> i, task |-> t, draft |-> draft,
   stale |-> FALSE, torn |-> FALSE]

Locked == {"commit", "publish"}
Goto(w, pc, t) == [job EXCEPT ![w].pc = pc, ![w].task = t]

\* A job that ends with an error leaves what the window keeps as it was.
EndsWith(w, outcome) == [job EXCEPT ![w] = [pc |-> "idle", outcome |-> outcome]]

\* A commit to the index by w: every other open connection is stale.
Committed(w, J) ==
  [v \in Windows |-> IF v # w /\ J[v].pc # "idle" THEN [J[v] EXCEPT !.stale = TRUE] ELSE J[v]]

\* An append to the ledger of t by w: who is verifying that ledger may notice.
Appended(w, t, J) ==
  [v \in Windows |->
     IF v # w /\ J[v].pc \in {"look", "check"} /\ J[v].task = t
       THEN [J[v] EXCEPT !.torn = TRUE] ELSE J[v]]

Append1(t, e) == [ledgers EXCEPT ![t] = Append(@, e)]

Init ==
  /\ rows = <<>>
  /\ ledgers = <<>>
  /\ writer = {}
  /\ view = [w \in Windows |-> [identity |-> NoIdentity, handle |-> NoTask, record |-> NoRecord]]
  /\ job = [w \in Windows |-> Idle]

------------------------------------------------------------------------------
(* What a user asks of a window that does nothing: ResearchFlowRuntime.  *)

Ask(w, pc, op, i, d) ==
  /\ job[w].pc = "idle"
  /\ job' = [job EXCEPT ![w] = At(pc, op, i, view[w].handle, d)]
  /\ UNCHANGED <<rows, ledgers, writer, view>>

AnyDraft == CHOOSE d \in Drafts : TRUE

\* start, and resume of what is not pending.
Start(w, i) == Ask(w, "locate", "start", i, AnyDraft)

\* commit_initial and commit_causal_boundary: the dataset is still the one located.
Initial(w, d) ==
  /\ view[w].identity # NoIdentity
  /\ Ask(w, IF view[w].handle = NoTask THEN "locate" ELSE "lease",
         "initial", view[w].identity, d)

OnRecord(w, op, kinds) ==
  /\ view[w].handle # NoTask
  /\ view[w].record.kind \in kinds
  /\ Ask(w, "lease", op, view[w].identity, AnyDraft)

Answer(w)  == OnRecord(w, "answer", {"clarify"})
Resume(w)  == OnRecord(w, "resume", {"pending"})
Retract(w) == OnRecord(w, "retract", {"clarify", "final"})

\* replan, of a window that has a task.
Replan(w, i) ==
  /\ view[w].handle # NoTask
  /\ Ask(w, "look", "replan", i, AnyDraft)

\* replan, of a window that has none: nothing is stored.
ReplanNothing(w, i) ==
  /\ job[w].pc = "idle"
  /\ view[w].handle = NoTask
  /\ view' = [view EXCEPT ![w] = [identity |-> i, handle |-> NoTask, record |-> NoRecord]]
  /\ UNCHANGED <<rows, ledgers, writer, job>>

------------------------------------------------------------------------------
(* Locating and allocating: ResearchTaskSessionStore.                      *)

\* Mutant: the ledger is left for later.
MutCreateLedger(w) ==
  /\ UNCHANGED ledgers
  /\ \E t \in Unused : job' = Goto(w, "allocate", t)

\* _new_task_identity and _create_verified_empty_ledger: nobody else knows of the new
\* ledger.
CreateLedger(w) ==
  \/ \E t \in Unused :
       /\ ledgers' = [u \in DOMAIN ledgers \union {t} |-> IF u = t THEN <<>> ELSE ledgers[u]]
       /\ job' = Goto(w, "allocate", t)
  \/ /\ Unused = {}
     /\ job' = EndsWith(w, "unavailable")
     /\ UNCHANGED ledgers

\* locate_existing, and open_or_allocate up to the located row or the new ledger.
Locate(w) ==
  LET i == job[w].identity
  IN  /\ job[w].pc = "locate"
      /\ UNCHANGED <<rows, writer>>
      /\ \/ /\ job[w].stale
            /\ job' = EndsWith(w, "corruption")
            /\ UNCHANGED <<ledgers, view>>
         \/ /\ ~job[w].stale
            /\ \E t \in ActiveOf(i) : job' = Goto(w, "check", t)
            /\ UNCHANGED <<ledgers, view>>
         \/ /\ ~job[w].stale /\ ActiveOf(i) = {} /\ job[w].op = "initial"
            /\ CreateLedger(w)
            /\ UNCHANGED view
         \/ /\ ~job[w].stale /\ ActiveOf(i) = {} /\ job[w].op = "start"
            /\ job' = EndsWith(w, "shown")
            /\ view' = [view EXCEPT ![w] =
                          [identity |-> i, handle |-> NoTask, record |-> NoRecord]]
            /\ UNCHANGED ledgers

\* start_replan up to the choice of the task that follows the previous one.
Look(w) ==
  LET previous == view[w].handle
      active   == ActiveOf(job[w].identity)
  IN  /\ job[w].pc = "look"
      /\ UNCHANGED <<rows, writer, view>>
      /\ \/ /\ job[w].stale \/ job[w].torn \/ (active = {} /\ ~rows[previous].active)
            /\ job' = EndsWith(w, "corruption")
            /\ UNCHANGED ledgers
         \/ /\ ~job[w].stale
            /\ \E t \in active \ {previous} :
                 job' = Goto(w, IF rows[previous].active THEN "mark" ELSE "check", t)
            /\ UNCHANGED ledgers
         \/ /\ ~job[w].stale /\ active \subseteq {previous} /\ rows[previous].active
            /\ CreateLedger(w)

\* allocate.  (A change of the active task since it was looked up is refused as stale
\* before it can be refused as a conflict.)
Allocate(w) ==
  LET i == job[w].identity
      replaces == IF job[w].op = "replan" THEN {view[w].handle} \intersect RowsOf(i) ELSE {}
  IN  /\ job[w].pc = "allocate"
      /\ writer = {}
      /\ UNCHANGED <<ledgers, writer, view>>
      /\ IF job[w].stale THEN job' = EndsWith(w, "corruption") /\ UNCHANGED rows
         ELSE IF Cardinality(DOMAIN rows) >= MaxRows
           THEN job' = EndsWith(w, "unavailable") /\ UNCHANGED rows
         ELSE IF ActiveOf(i) # replaces
           THEN job' = EndsWith(w, "conflict") /\ UNCHANGED rows
         ELSE /\ rows' = Allocated(job[w].task, i, replaces)
              /\ job' = Committed(w, Goto(w, IF job[w].op = "replan" /\ replaces = {}
                                               THEN "mark" ELSE "check", job[w].task))

\* mark_readonly
MarkPrevious(w) ==
  LET previous == view[w].handle
  IN  /\ job[w].pc = "mark"
      /\ writer = {}
      /\ UNCHANGED <<ledgers, writer, view>>
      /\ IF job[w].stale THEN job' = EndsWith(w, "corruption") /\ UNCHANGED rows
         ELSE IF ~rows[previous].active THEN job' = EndsWith(w, "conflict") /\ UNCHANGED rows
         ELSE /\ rows' = [rows EXCEPT ![previous].active = FALSE]
              /\ job' = Committed(w, Goto(w, "check", job[w].task))

\* BEGIN IMMEDIATE of allocate and mark_readonly waits for the lock and gives up.
IndexBusy(w) ==
  /\ job[w].pc \in {"allocate", "mark"}
  /\ writer # {}
  /\ job' = EndsWith(w, "corruption")
  /\ UNCHANGED <<rows, ledgers, writer, view>>

\* _verified_handle: the ledger is verified without the lease, so that an append of
\* another window may make the verification fail.  A replan ends here.
Check(w) ==
  LET t == job[w].task
      i == job[w].identity
  IN  /\ job[w].pc = "check"
      /\ UNCHANGED <<rows, ledgers, writer>>
      /\ \/ /\ t \notin DOMAIN ledgers \/ job[w].torn
            /\ job' = EndsWith(w, "corruption")
            /\ UNCHANGED view
         \/ /\ t \in DOMAIN ledgers
            /\ view' = [view EXCEPT ![w] =
                 [identity |-> i, handle |-> t,
                  record |-> IF job[w].op = "replan" THEN NoRecord ELSE view[w].record]]
            /\ job' = IF job[w].op = "replan" THEN EndsWith(w, "shown")
                      ELSE [job EXCEPT ![w] = At("lease", job[w].op, i, t, job[w].draft)]

------------------------------------------------------------------------------
(* Under the lease: LiveResearchFlowCoordinator.                           *)

Release(w) == writer' = writer \ {w}

\* Under the lease a job appends an event and goes on, goes on, or is refused.
AppendThen(w, e, pc) ==
  LET t == view[w].handle
  IN  /\ ledgers' = Append1(t, e)
      /\ job' = Appended(w, t, Goto(w, pc, t))
      /\ UNCHANGED <<rows, view>>

GoOn(w, pc) ==
  /\ job' = Goto(w, pc, view[w].handle)
  /\ UNCHANGED <<rows, ledgers, view>>

\* recover_current_or_none, _commit_initial_leased, _commit_answer_leased,
\* _resume_pending_leased and _retract_current_leased up to their own append.  (A new
\* initial request has an event id of its own and equals none in the ledger.)
Work(w) ==
  LET t == view[w].handle
      L == ledgers[t]
      now == Recover(L).kind
      Next1(kind, more, of) ==
        Event(kind, HeadOf(L).draft, HeadOf(L).answers + more, of)
  IN  \/ job[w].op = "start" /\ now # "corrupt" /\ GoOn(w, "publish")
      \/ /\ job[w].op = "initial" /\ now = "empty"
         /\ AppendThen(w, Event("created", job[w].draft, 0, 0), "commit")
      \/ /\ job[w].op = "answer" /\ now = "clarify" /\ view[w].record = Record(t)
         /\ AppendThen(w, Next1("answered", 1, Len(L)), "commit")
      \/ /\ job[w].op = "resume" /\ view[w].record = Record(t)
         /\ GoOn(w, "commit")
      \/ /\ job[w].op = "retract" /\ IsDecision(now)
         /\ AppendThen(w, Next1("retracted", 0, Len(L)), "publish")

\* Everything else is refused.
Refused(w) ==
  LET now == Recover(ledgers[view[w].handle]).kind
  IN  \/ now = "corrupt"
      \/ job[w].op = "initial" /\ now # "empty"
      \/ job[w].op = "answer" /\ now # "clarify"
      \/ job[w].op = "retract" /\ ~IsDecision(now)
      \/ job[w].op \in {"answer", "resume"} /\ view[w].record # Record(view[w].handle)

\* Mutant: the lease is a check of the row without a lock.
MutLease(w) ==
  /\ job[w].pc = "lease"
  /\ ~job[w].stale
  /\ rows[view[w].handle].active
  /\ ~Refused(w)
  /\ writer' = writer \union {w}
  /\ Work(w)

\* _active_writer_lease
Lease(w) ==
  /\ job[w].pc = "lease"
  /\ writer = {}
  /\ ~job[w].stale
  /\ rows[view[w].handle].active
  /\ ~Refused(w)
  /\ writer' = {w}
  /\ Work(w)

\* The lease is stale or busy, its target is closed, or there is nothing to do under it.
LeaseRefused(w) ==
  /\ job[w].pc = "lease"
  /\ job' = EndsWith(w, IF writer = {} /\ (job[w].stale \/ Recover(ledgers[view[w].handle]).kind = "corrupt")
                          THEN "corruption" ELSE "conflict")
  /\ writer # {} \/ job[w].stale \/ ~rows[view[w].handle].active \/ Refused(w)
  /\ UNCHANGED <<rows, ledgers, writer, view>>

\* commit_current_passport: the request of the ledger gets its passport, unless it has
\* an open question.  An open recommendation or abstention has no key and does not count:
\* what keeps a second one away is that Work comes here with a request to decide.
CommitPassport(w) ==
  LET L == ledgers[view[w].handle]
      request == Request(HeadOf(L))
      outstanding == {i \in DOMAIN L : /\ L[i].kind = "passport" /\ Request(L[i]) = request
                                       /\ Plan(request) = "clarify" /\ Closed(L, i) = {}}
  IN  /\ job[w].pc = "commit"
      /\ UNCHANGED writer
      /\ IF outstanding = {}
           THEN AppendThen(w, Event("passport", request[1], request[2], 0), "publish")
           ELSE GoOn(w, "publish")

\* The readback, the release of the lease, and the record the window shows.
Publish(w) ==
  LET t == view[w].handle
  IN  /\ job[w].pc = "publish"
      /\ Release(w)
      /\ UNCHANGED <<rows, ledgers>>
      /\ IF Recover(ledgers[t]).kind = "corrupt"
           THEN job' = EndsWith(w, "corruption") /\ UNCHANGED view
           ELSE /\ job' = EndsWith(w, "shown")
                /\ view' = [view EXCEPT ![w].record =
                              IF ledgers[t] = <<>> THEN NoRecord ELSE Record(t)]

Step(w) ==
  \/ Locate(w) \/ Look(w) \/ Allocate(w) \/ MarkPrevious(w) \/ IndexBusy(w) \/ Check(w)
  \/ Lease(w) \/ LeaseRefused(w) \/ CommitPassport(w) \/ Publish(w)

------------------------------------------------------------------------------
(* What goes wrong.                                                        *)

\* Mutant: the lease outlives a job that raised.
MutFail(w) ==
  /\ job[w].pc # "idle"
  /\ job' = EndsWith(w, "failure")
  /\ UNCHANGED <<rows, ledgers, writer, view>>

\* An error of the disk or of SQLite, anywhere: the transaction is rolled back.
Fail(w) ==
  /\ job[w].pc # "idle"
  /\ job' = EndsWith(w, "failure")
  /\ Release(w)
  /\ UNCHANGED <<rows, ledgers, view>>

\* The window's process dies and is started again.
Crash(w) ==
  /\ view' = [view EXCEPT ![w] =
                [identity |-> NoIdentity, handle |-> NoTask, record |-> NoRecord]]
  /\ job' = [job EXCEPT ![w] = Idle]
  /\ Release(w)
  /\ UNCHANGED <<rows, ledgers>>

Next ==
  \E w \in Windows :
    \/ Step(w) \/ Fail(w) \/ Crash(w)
    \/ Answer(w) \/ Resume(w) \/ Retract(w)
    \/ \E d \in Drafts : Initial(w, d)
    \/ \E i \in Identities : Start(w, i) \/ Replan(w, i) \/ ReplanNothing(w, i)

Spec == Init /\ [][Next]_vars

------------------------------------------------------------------------------
(* Properties.                                                             *)

Ops      == {"start", "initial", "answer", "resume", "retract", "replan"}
Steps    == {"locate", "look", "allocate", "mark", "check", "lease"} \union Locked
Outcomes == {"none", "shown", "conflict", "unavailable", "corruption", "failure"}
Kinds    == {"pending", "clarify", "final", "retracted"}

Rows    == [identity : Identities, ordinal : Nat, active : BOOLEAN]
Events  == [kind : {"created", "passport", "answered", "retracted"},
            draft : Drafts, answers : Nat, of : Nat]
Records == [task : Tasks \union {NoTask}, kind : Kinds \union {"none"}, seq : Nat]
Views   == [identity : Identities \union {NoIdentity}, handle : Tasks \union {NoTask},
            record : Records]
Jobs    == [pc : {"idle"}, outcome : Outcomes]
             \union [pc : Steps, op : Ops, identity : Identities,
                     task : Tasks \union {NoTask}, draft : Drafts,
                     stale : BOOLEAN, torn : BOOLEAN]

\* Types; and the index's write lock is held by exactly the windows whose job is at a
\* step that needs it, so by none once a job has ended, however it ended.
TypeOK ==
  /\ rows \in [DOMAIN rows -> Rows]
  /\ ledgers \in [DOMAIN ledgers -> Seq(Events)]
  /\ DOMAIN rows \subseteq Tasks /\ DOMAIN ledgers \subseteq Tasks
  /\ writer = {w \in Windows : job[w].pc \in Locked}
  /\ view \in [Windows -> Views]
  /\ job \in [Windows -> Jobs]

\* The ledger comes before the locator: an index row always leads to a ledger, and so
\* does every task a window holds, wherever a window stopped.
LocatorsNameLedgers ==
  /\ DOMAIN rows \subseteq DOMAIN ledgers
  /\ \A w \in Windows : view[w].handle # NoTask => view[w].handle \in DOMAIN rows

\* verify() of the index: the ordinals of an identity are 1, 2, ... without a gap, and
\* only the last of its tasks may be the active one.
OrdinalsContiguous ==
  \A i \in Identities :
    /\ {rows[t].ordinal : t \in RowsOf(i)} = 1..Cardinality(RowsOf(i))
    /\ \A t \in ActiveOf(i) : rows[t].ordinal = Cardinality(RowsOf(i))

\* docs/superpowers/specs/2026-07-17-live-multi-round-research-os-ui-design.md:236,
\* "any completed ledger commit remains recoverable as pending, decision, or retraction":
\* whatever has been appended, and whoever stopped where, no ledger reads as corrupt.
LedgersRecoverable ==
  \A t \in DOMAIN ledgers : Recover(ledgers[t]).kind # "corrupt"

\* The same design, line 412: no question or candidate "appears before durability":
\* what a window shows is what the first seq events of its ledger say, and they are
\* still there.
ShownIsDurable ==
  \A w \in Windows :
    LET r == view[w].record
    IN  r # NoRecord =>
          /\ r.task \in DOMAIN ledgers /\ r.seq \in 1..Len(ledgers[r.task])
          /\ Recover(SubSeq(ledgers[r.task], 1, r.seq)).kind = r.kind

LedgerOf(t) == IF t \in DOMAIN ledgers THEN ledgers[t] ELSE <<>>
Authority ==
  INSTANCE DecisionAuthority WITH
    kept <- DOMAIN ledgers,
    open <- [i \in Identities |-> ActiveOf(i)],
    closed <- {t \in DOMAIN rows : ~rows[t].active},
    written <- [t \in Tasks |-> Len(LedgerOf(t))],
    says <- [t \in Tasks |-> Recover(LedgerOf(t)).kind]

\* The windows together behave as one authority: whatever they do and wherever they
\* stop, an identity has one open task, only an open task is decided, one event at a
\* time and in the order request, decision, answer, ..., and a replan replaces or closes.
ImplementsAuthority == Authority!Spec
==============================================================================
