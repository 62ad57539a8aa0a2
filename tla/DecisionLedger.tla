---------------------------- MODULE DecisionLedger ---------------------------
(***************************************************************************)
(* The Decision Ledger of one research task: one SQLite file (WAL) that    *)
(* several connections open, verify, read and append to.                   *)
(*                                                                         *)
(*   src/src/modori/research_memory/ledger_store.py  DecisionLedgerStore   *)
(*   src/src/modori/research_memory/ledger_contracts.py  LedgerCommit      *)
(*   src/src/modori/research_memory/promotion.py                           *)
(*                                         ResearchMemoryCoordinator       *)
(*   src/src/modori/research_memory/evidence_bundle.py   EvidenceBundle    *)
(*                                                                         *)
(* Outside a transaction every SELECT is a snapshot of its own, so that a  *)
(* verification is several steps; BEGIN IMMEDIATE to COMMIT is a lock and  *)
(* one change.  A connection notices what others have committed by PRAGMA  *)
(* data_version, which its own commits do not change.                      *)
(*                                                                         *)
(* Data: a hash is a number that nothing else in the file has; an event    *)
(* stands for its hash, an artifact for its content, a request for its     *)
(* snapshot.  Reads of one request between which the version is checked    *)
(* again are one step: only the last of them can be out of date.           *)
(* Nothing outside the program writes to the file.  The application also   *)
(* takes the task's writer lease before it appends (module ResearchTasks), *)
(* not before it verifies; the store does not rely on it, and neither does *)
(* this module.                                                            *)
(***************************************************************************)
EXTENDS Naturals, Sequences, FiniteSets, SequencesExt

CONSTANTS
  Conns,      \* connections of any window
  Asks,       \* the requests about which resolve_and_plan, the same for equal requests,
              \* has a question; about any other it recommends or abstains
  MaxEvents   \* bound: nothing is appended to a ledger of so many events

ASSUME DecisionLedgerAssumption == MaxEvents \in Nat

VARIABLES
  file,    \* "absent", "blank" (created, without tables) or "ledger"
  db,      \* what is committed: artifacts, events, and the derived rows
  lock,    \* the connection inside BEGIN IMMEDIATE, if any
  conn,    \* conn[c]: the step a connection is at and what it remembers
  bundle   \* the evidence bundle that was exported last

vars == <<file, db, lock, conn, bundle>>

Genesis == [seq |-> 0, hash |-> 0]

------------------------------------------------------------------------------
(* Events and what they say.                                               *)

Event(hash, prev, kind, subjects, snapshot, of) ==
  [hash |-> hash, prev |-> prev, kind |-> kind, subjects |-> subjects,
   snapshot |-> snapshot, of |-> of]

HeadOf(E) == IF E = <<>> THEN Genesis ELSE [seq |-> Len(E), hash |-> Last(E).hash]

\* The rows that can be computed again from the events.
Replay(E) ==
  [head     |-> HeadOf(E),
   snapshot |-> IF E = <<>> THEN 0 ELSE Last(E).snapshot,
   imports  |-> {e.hash : e \in {f \in ToSet(E) : f.kind = "imported"}}]

\* _verify_authoritative without the relationship rows.
Chained(E) ==
  \A i \in DOMAIN E : E[i].prev = IF i = 1 THEN Genesis.hash ELSE E[i - 1].hash
Resolved(E, arts) ==
  \A e \in ToSet(E) : e.subjects \subseteq arts /\ e.snapshot \in e.subjects

\* PASSPORT_COMMITTED, by what the passport says: it asks a question, or it concludes.
Passports == {"asked", "concluded"}
Committed(E, request) ==
  {e \in ToSet(E) : e.kind \in Passports /\ e.snapshot = request}

\* CommittedPassportRecord.outstanding: nothing has answered or retracted the passport.
Unclosed(E, request) == {e \in Committed(E, request) : \A f \in ToSet(E) : f.of # e.hash}

\* Mutant: a passport is known by its own digest instead of its request's.
MutOutstanding(E, request) ==
  {e \in Unclosed(E, request) : e.kind = "asked" /\ e.hash = request}

\* PassportHistory.outstanding_for: a passport without a question has no key, and is not
\* found here however open it is.
Outstanding(E, request) == {e \in Unclosed(E, request) : e.kind = "asked"}

\* What retract_current_passport takes: the last passport of the request, if unclosed.
Retractable(E, request) ==
  {e \in Unclosed(E, request) : \A f \in Committed(E, request) : f.hash <= e.hash}

\* PassportHistory.inspect: every event may follow the ones before it.
Follows(e, before) ==
  /\ (e.kind = "created") = (before = <<>>)
  /\ e.kind \in Passports \union {"retracted"} => e.snapshot = Last(before).snapshot
  /\ e.kind = "asked" => Outstanding(before, e.snapshot) = {}
  /\ e.kind = "answered" =>
       \E d \in Outstanding(before, Last(before).snapshot) : d.hash = e.of
  /\ e.kind = "retracted" =>
       \A f \in ToSet(before) : f.kind = "retracted" => f.of # e.of
Inspected(E) == \A i \in DOMAIN E : Follows(E[i], SubSeq(E, 1, i - 1))

\* The commits that ResearchMemoryCoordinator builds for a request and a passport of
\* it, to follow a head: LedgerCommit checks that they extend it.  Two connections may
\* choose the same numbers; only one of them can append them.
Batch(op, head, request, passport) ==
  LET n == head.seq + 1
      m == n + 1
      First(kind, subjects, snapshot, of) ==
        Event(n, head.hash, kind, subjects, snapshot, of)
      Second(kind, subjects, snapshot) == Event(m, n, kind, subjects, snapshot, 0)
      Says == IF request \in Asks THEN "asked" ELSE "concluded"
  IN CASE op = "initialize" -> <<First("created", {n}, n, 0)>>
       [] op = "import"     -> <<First("created", {n}, n, 0), Second("imported", {n, m}, n)>>
       [] op = "decide"     -> <<First(Says, {request, n}, request, 0)>>
       [] op = "answer"     -> <<First("answered", {passport, n}, n, passport)>>
       [] op = "accept"     -> <<First("answered", {request, passport, n}, request, passport),
                                 Second("accepted", {m}, m)>>
       [] op = "retract"    -> <<First("retracted", {request}, request, passport)>>

Founding == {"initialize", "import"}
Writing  == Founding \union {"decide", "answer", "accept", "retract"}

------------------------------------------------------------------------------
(* Connections.                                                            *)

NoRead == [arts |-> {}, events |-> <<>>, derived |-> Replay(<<>>)]

NoBundle == [head |-> Genesis, arts |-> {}, events |-> <<>>]

Closed(outcome) ==
  [pc |-> "closed", op |-> "none", goal |-> "none", moved |-> FALSE, stale |-> TRUE,
   known |-> {}, read |-> NoRead, request |-> 0, batch |-> <<>>, outcome |-> outcome]

Put(c, k) == conn' = [conn EXCEPT ![c] = k]

Goto(c, pc) == Put(c, [conn[c] EXCEPT !.pc = pc])

\* Every error closes the connection: all callers hold it in a with statement.
Ends(c, outcome) == Put(c, Closed(outcome))

Ready(c, outcome) ==
  [conn[c] EXCEPT !.pc = "ready", !.op = "none", !.goal = "none", !.read = NoRead,
                  !.request = 0, !.batch = <<>>, !.outcome = outcome]

\* A commit by c changes the data version that the other connections see.
Noticed(c, k) ==
  [d \in Conns |-> IF d = c THEN k
                   ELSE IF conn[d].pc = "closed" THEN conn[d]
                   ELSE [conn[d] EXCEPT !.moved = TRUE, !.stale = TRUE]]

Init ==
  /\ file = "absent"
  /\ db = [arts |-> {}, events |-> <<>>, derived |-> Replay(<<>>)]
  /\ lock = {}
  /\ conn = [c \in Conns |-> Closed("none")]
  /\ bundle = NoBundle

\* Verification begins by reading the data version; the database checks and the header
\* that follow read what no transaction of the store changes.
VerifyFor(c, op) ==
  Put(c, [conn[c] EXCEPT !.pc = "v_arts", !.op = op, !.moved = FALSE,
                         !.read = NoRead, !.batch = <<>>])

------------------------------------------------------------------------------
(* create and open.                                                        *)

\* connect and the pragmas write a header; the tables come in a transaction.
Create(c) ==
  /\ conn[c].pc = "closed"
  /\ file = "absent"
  /\ file' = "blank"
  /\ Goto(c, "schema")
  /\ UNCHANGED <<db, lock, bundle>>

CreateSchema(c) ==
  /\ conn[c].pc = "schema"
  /\ file' = "ledger"
  /\ VerifyFor(c, "verify")
  /\ UNCHANGED <<db, lock, bundle>>

\* A file whose creator has died before its transaction is no ledger, now and later.
Open(c) ==
  /\ conn[c].pc = "closed"
  /\ file # "absent"
  /\ IF file = "ledger" THEN VerifyFor(c, "verify") ELSE Ends(c, "no ledger")
  /\ UNCHANGED <<file, db, lock, bundle>>

------------------------------------------------------------------------------
(* verify: _verify_after_database_checks, one step per SELECT that can     *)
(* differ from the one before.                                             *)

ReadArtifacts(c) ==
  /\ conn[c].pc = "v_arts"
  /\ Put(c, [conn[c] EXCEPT !.pc = "v_events", !.read.arts = db.arts])
  /\ UNCHANGED <<file, db, lock, bundle>>

ReadEvents(c) ==
  /\ conn[c].pc = "v_events"
  /\ Put(c, [conn[c] EXCEPT !.pc = "v_links", !.read.events = db.events])
  /\ UNCHANGED <<file, db, lock, bundle>>

\* The rows of event_artifacts, and the verdict on all that was read.
ReadRelationships(c) ==
  LET read     == conn[c].read
      links(E) == [i \in DOMAIN E |-> E[i].subjects]
  IN  /\ conn[c].pc = "v_links"
      /\ IF /\ Chained(read.events) /\ Resolved(read.events, read.arts)
            /\ links(read.events) = links(db.events)
            /\ Inspected(read.events)
           THEN Goto(c, "v_derived")
           ELSE Ends(c, "integrity")
      /\ UNCHANGED <<file, db, lock, bundle>>

\* _read_derived: rows that are not the replay are rewritten.
ReadDerived(c) ==
  /\ conn[c].pc = "v_derived"
  /\ Goto(c, IF db.derived = Replay(conn[c].read.events) THEN "v_accept" ELSE "v_rebuild")
  /\ UNCHANGED <<file, db, lock, bundle>>

\* _rebuild_derived: in a transaction, from what was read before it began.
RebuildDerived(c) ==
  /\ conn[c].pc = "v_rebuild"
  /\ lock = {}
  /\ db' = [db EXCEPT !.derived = Replay(conn[c].read.events)]
  /\ conn' = Noticed(c, [conn[c] EXCEPT !.pc = "v_again"])
  /\ UNCHANGED <<file, lock, bundle>>

ReadDerivedAgain(c) ==
  /\ conn[c].pc = "v_again"
  /\ IF db.derived = Replay(conn[c].read.events) THEN Goto(c, "v_accept")
                                                 ELSE Ends(c, "integrity")
  /\ UNCHANGED <<file, db, lock, bundle>>

\* Mutant: the version that is kept is the one at the end, not compared with the one
\* before the first read.
MutAccept(c) ==
  /\ conn[c].pc = "v_accept"
  /\ Put(c, [Ready(c, "verified") EXCEPT !.stale = FALSE,
                                         !.known = {Len(conn[c].read.events)}])
  /\ UNCHANGED <<file, db, lock, bundle>>

\* _accept_verified_data_version: the report counts for the version it began with.
Accept(c) ==
  LET verified == [Ready(c, "verified") EXCEPT !.stale = FALSE,
                                               !.known = {Len(conn[c].read.events)}]
  IN  /\ conn[c].pc = "v_accept"
      /\ IF conn[c].moved THEN Ends(c, "integrity")
         ELSE Put(c, CASE conn[c].op = "adopt"  ->
                            [verified EXCEPT !.pc = "check", !.op = "adopt",
                                             !.goal = "winner", !.request = conn[c].request]
                       [] conn[c].op = "export" ->
                            [verified EXCEPT !.pc = "check", !.op = "export",
                                             !.goal = "x_arts"]
                       [] OTHER                 -> verified)
      /\ UNCHANGED <<file, db, lock, bundle>>

------------------------------------------------------------------------------
(* What a caller asks of an open connection.                               *)

\* verify, and export_evidence_bundle, which begins with it.
Verify(c) ==
  /\ conn[c].pc = "ready"
  /\ VerifyFor(c, "verify")
  /\ UNCHANGED <<file, db, lock, bundle>>

Export(c) ==
  /\ conn[c].pc = "ready"
  /\ VerifyFor(c, "export")
  /\ UNCHANGED <<file, db, lock, bundle>>

\* initialize, promote_imported_assertions, commit_current_passport,
\* commit_ready_answer, commit_accepted_answer, retract_current_passport.
Promote(c, op) ==
  /\ conn[c].pc = "ready"
  /\ Len(db.events) < MaxEvents
  /\ Put(c, [conn[c] EXCEPT !.pc = "check", !.op = op, !.goal = "head"])
  /\ UNCHANGED <<file, db, lock, bundle>>

Close(c) ==
  /\ conn[c].pc = "ready"
  /\ Ends(c, "none")
  /\ UNCHANGED <<file, db, lock, bundle>>

\* _require_verified_data_version, before each public read.
RequireVerified(c) ==
  /\ conn[c].pc = "check"
  /\ IF conn[c].stale THEN Ends(c, "integrity") ELSE Goto(c, conn[c].goal)
  /\ UNCHANGED <<file, db, lock, bundle>>

\* The read comes after the check, and something may have come between.
Read(c, goal, next) ==
  /\ conn[c].pc = goal
  /\ Put(c, next)
  /\ UNCHANGED <<file, db, lock, bundle>>

Then(goal, read) == [read EXCEPT !.pc = "check", !.goal = goal]

\* store.head
ReadHead(c) ==
  Read(c, "head", Then("request", [conn[c] EXCEPT !.read.derived = db.derived]))

------------------------------------------------------------------------------
(* ResearchMemoryCoordinator.                                              *)

\* _ensure_store_binding and the passport history: the commit to append, or none.  A
\* passport that a caller still holds may no longer be the one to answer or retract.
ReadRequest(c) ==
  LET head    == conn[c].read.derived.head
      op      == conn[c].op
      request == db.derived.snapshot
      Build(passport) ==
        Put(c, [conn[c] EXCEPT !.pc = "begin", !.request = request,
                               !.batch = Batch(op, head, request, passport)])
  IN  /\ conn[c].pc = "request"
      /\ UNCHANGED <<file, db, lock, bundle>>
      /\ \/ /\ op \in Founding
            /\ IF head = Genesis /\ db.events = <<>> /\ db.arts = {}
                 THEN Build(0) ELSE Ends(c, "rejected")
         \/ /\ op \notin Founding /\ head = Genesis
            /\ Ends(c, "rejected")
         \/ /\ op = "decide" /\ head # Genesis
            /\ IF Outstanding(db.events, request) = {}
                 THEN Build(0) ELSE Put(c, Ready(c, "adopted"))
         \/ /\ op \in {"answer", "accept"} /\ head # Genesis
            /\ \E e \in Outstanding(db.events, request) : Build(e.hash)
         \/ /\ op = "retract" /\ head # Genesis
            /\ \E e \in Retractable(db.events, request) : Build(e.hash)
         \/ /\ op \in {"answer", "accept", "retract"} /\ head # Genesis
            /\ Ends(c, "rejected")

\* Mutant: what append compares is read before its transaction begins.
MutBegin(c) ==
  LET tail == HeadOf(db.events)
  IN  /\ conn[c].pc = "begin"
      /\ IF db.derived.head = tail /\ conn[c].read.derived.head = tail /\ ~conn[c].stale
           THEN Goto(c, "write") ELSE Ends(c, "integrity")
      /\ UNCHANGED <<file, db, lock, bundle>>

\* append up to the first INSERT.  A passport that lost a race is looked up after a new
\* verification; any other commit that lost one is refused.
Begin(c) ==
  LET tail     == HeadOf(db.events)
      expected == conn[c].read.derived.head
  IN  /\ conn[c].pc = "begin"
      /\ lock = {}
      /\ UNCHANGED <<file, db, bundle>>
      /\ \/ /\ db.derived.head # tail
            /\ Ends(c, "integrity") /\ UNCHANGED lock
         \/ /\ db.derived.head = tail /\ expected # tail
            /\ IF conn[c].op = "decide" THEN VerifyFor(c, "adopt") ELSE Ends(c, "conflict")
            /\ UNCHANGED lock
         \/ /\ db.derived.head = tail /\ expected = tail
            /\ conn[c].stale \/ ~Inspected(db.events \o conn[c].batch)
            /\ Ends(c, "integrity") /\ UNCHANGED lock
         \/ /\ db.derived.head = tail /\ expected = tail
            /\ ~conn[c].stale /\ Inspected(db.events \o conn[c].batch)
            /\ Goto(c, "write")
            /\ lock' = {c}

\* Mutant: the derived rows are left to the next verification.
MutCommit(c) ==
  LET events == db.events \o conn[c].batch
  IN  /\ conn[c].pc = "write"
      /\ db' = [db EXCEPT !.events = events, !.arts = @ \union
                  UNION {e.subjects : e \in ToSet(conn[c].batch)}]
      /\ lock' = {}
      /\ conn' = Noticed(c, [Ready(c, "committed") EXCEPT !.known = {Len(events)}])
      /\ UNCHANGED <<file, bundle>>

\* append from the first INSERT to COMMIT.
Commit(c) ==
  LET events == db.events \o conn[c].batch
  IN  /\ conn[c].pc = "write"
      /\ db' = [arts |-> db.arts \union UNION {e.subjects : e \in ToSet(conn[c].batch)},
                events |-> events,
                derived |-> [Replay(events) EXCEPT !.imports =
                               db.derived.imports \union Replay(conn[c].batch).imports]]
      /\ lock' = {}
      /\ conn' = Noticed(c, [Ready(c, "committed") EXCEPT !.known = {Len(events)}])
      /\ UNCHANGED <<file, bundle>>

\* commit_current_passport after a conflict: another connection has committed the same
\* question, or the ledger has moved on.  The same conclusion is not found, and refused.
Adopt(c) ==
  /\ conn[c].pc = "winner"
  /\ IF \/ db.derived.snapshot # conn[c].request
        \/ Outstanding(db.events, conn[c].request) = {}
       THEN Ends(c, "rejected")
       ELSE Put(c, Ready(c, "adopted"))
  /\ UNCHANGED <<file, db, lock, bundle>>

------------------------------------------------------------------------------
(* export_evidence_bundle after its verification.                          *)

ExportArtifacts(c) ==
  Read(c, "x_arts", Then("x_events", [conn[c] EXCEPT !.read.arts = db.arts]))

ExportEvents(c) ==
  Read(c, "x_events", Then("x_head", [conn[c] EXCEPT !.read.events = db.events]))

\* Mutant: the declared head is not compared with the events.
MutExportHead(c) ==
  LET read == conn[c].read
  IN  /\ conn[c].pc = "x_head"
      /\ bundle' = [head |-> db.derived.head, arts |-> read.arts, events |-> read.events]
      /\ Put(c, Ready(c, "exported"))
      /\ UNCHANGED <<file, db, lock>>

\* store.head, and EvidenceBundle.create with all it verifies.
ExportHead(c) ==
  LET read == conn[c].read
      head == db.derived.head
      referenced == UNION {e.subjects : e \in ToSet(read.events)}
  IN  /\ conn[c].pc = "x_head"
      /\ IF /\ head # Genesis /\ read.events # <<>>
            /\ Chained(read.events) /\ Resolved(read.events, read.arts)
            /\ head = HeadOf(read.events) /\ Inspected(read.events)
            /\ read.arts = referenced
           THEN /\ bundle' = [head |-> head, arts |-> read.arts, events |-> read.events]
                /\ Put(c, Ready(c, "exported"))
           ELSE /\ Ends(c, IF read.events = <<>> THEN "rejected" ELSE "integrity")
                /\ UNCHANGED bundle
      /\ UNCHANGED <<file, db, lock>>

------------------------------------------------------------------------------
\* Mutant: the lock of a transaction that is rolled back is kept.
MutFail(c) ==
  /\ conn[c].pc # "closed"
  /\ Ends(c, "failure")
  /\ UNCHANGED <<file, db, lock, bundle>>

\* An error of the disk, the lock not obtained in time, or the death of the process:
\* the open transaction is rolled back and the connection is gone.
Fail(c) ==
  /\ conn[c].pc # "closed"
  /\ Ends(c, "failure")
  /\ lock' = lock \ {c}
  /\ UNCHANGED <<file, db, bundle>>

VerifyStep(c) ==
  \/ ReadArtifacts(c) \/ ReadEvents(c) \/ ReadRelationships(c) \/ ReadDerived(c)
  \/ RebuildDerived(c) \/ ReadDerivedAgain(c) \/ Accept(c)

WriteStep(c) ==
  \/ RequireVerified(c) \/ ReadHead(c) \/ ReadRequest(c) \/ Begin(c) \/ Commit(c) \/ Adopt(c)

ExportStep(c) == ExportArtifacts(c) \/ ExportEvents(c) \/ ExportHead(c)

Next ==
  \E c \in Conns :
    \/ Create(c) \/ CreateSchema(c) \/ Open(c) \/ Verify(c) \/ Export(c) \/ Close(c)
    \/ \E op \in Writing : Promote(c, op)
    \/ VerifyStep(c) \/ WriteStep(c) \/ ExportStep(c) \/ Fail(c)

Spec == Init /\ [][Next]_vars

------------------------------------------------------------------------------
(* Properties.                                                             *)

Steps == {"closed", "schema", "v_arts", "v_events", "v_links", "v_derived", "v_rebuild",
          "v_again", "v_accept", "ready", "check", "head", "request", "begin", "write",
          "winner", "x_arts", "x_events", "x_head"}
Verifying == {"v_arts", "v_events", "v_links", "v_derived", "v_rebuild", "v_again",
              "v_accept"}
Ops      == Writing \union {"none", "verify", "export", "adopt"}
Outcomes == {"none", "no ledger", "integrity", "conflict", "rejected", "failure",
             "verified", "committed", "adopted", "exported"}
Kinds    == Passports \union {"created", "imported", "answered", "accepted", "retracted"}
Heads    == [seq : Nat, hash : Nat]
Events   == [hash : Nat, prev : Nat, kind : Kinds, subjects : SUBSET Nat,
             snapshot : Nat, of : Nat]
Deriveds == [head : Heads, snapshot : Nat, imports : SUBSET Nat]
Files    == [arts : SUBSET Nat, events : Seq(Events), derived : Deriveds]
Conn     == [pc : Steps, op : Ops, goal : Steps \union {"none"}, moved : BOOLEAN,
             stale : BOOLEAN, known : SUBSET Nat, read : Files, request : Nat,
             batch : Seq(Events), outcome : Outcomes]

\* Types; and the lock of the file is held by exactly the connection that is between
\* BEGIN IMMEDIATE and COMMIT.
TypeOK ==
  /\ file \in {"absent", "blank", "ledger"}
  /\ db \in Files
  /\ conn \in [Conns -> Conn]
  /\ lock = {c \in Conns : conn[c].pc = "write"}
  /\ bundle \in [head : Heads, arts : SUBSET Nat, events : Seq(Events)]

\* docs/superpowers/specs/2026-07-12-decision-ledger-import-quarantine-design.md:293,
\* "records SQLite data_version after a complete verification. Public reads fail closed
\* after another connection changes the file": a connection whose version still counts
\* has verified every event there is, and the derived rows it reads are their replay.
VerifiedMeansCurrent ==
  \A c \in Conns :
    conn[c].stale
      \/ /\ conn[c].known = {Len(db.events)}
         /\ db.derived = Replay(db.events)

\* A connection ends with an integrity error only when another one has committed while
\* it was verifying, or since what it verified: alone it can always verify, append and
\* export, whatever others have left of the derived rows.
IntegrityErrorsAreContention ==
  [][\A c \in Conns :
       /\ conn[c].pc # "closed"
       /\ conn'[c].pc = "closed" /\ conn'[c].outcome = "integrity"
       => IF conn[c].pc \in Verifying THEN conn[c].moved ELSE conn[c].stale]_vars

\* docs/superpowers/specs/2026-07-15-analysis-passport-v2-explicit-migration-design.md:351,
\* "there may be at most one outstanding V2 clarify passport" of a request: two
\* connections that decide the same request at once ask the user one question, whoever is
\* first; between two questions about a request lies what has closed the first.  Nothing
\* like it holds of conclusions: two connections may both append one.
OneOpenQuestion ==
  LET E == db.events
      Asked(i, j) == /\ E[i].kind = "asked" /\ E[j].kind = "asked"
                     /\ E[i].snapshot = E[j].snapshot
  IN  \A i, j \in DOMAIN E :
        i < j /\ Asked(i, j) => \E k \in i + 1 .. j - 1 : E[k].of = E[i].hash

\* docs/superpowers/specs/2026-07-12-decision-ledger-import-quarantine-design.md:346,
\* "collecting a complete canonical bundle": a bundle that is exported is the whole ledger
\* as it was at one moment.
BundleIsWholeLedger ==
  [][bundle' # bundle =>
       LET E == bundle'.events
       IN  /\ IsPrefix(E, db.events)
           /\ bundle'.head = HeadOf(E)
           /\ bundle'.arts = UNION {e.subjects : e \in ToSet(E)}]_vars

Log == INSTANCE VerifiedLog WITH log <- db.events,
                                 known <- [c \in Conns |-> conn[c].known]

\* The file behaves as an append-only log that a connection extends only when it has
\* verified or written all of it.
ImplementsLog == Log!Spec

==============================================================================
