------------------------ MODULE ResearchTasks_proofs ------------------------
(***************************************************************************)
(* Proofs about ResearchTasks, for any windows, tasks, identities and      *)
(* drafts: types, locators that name ledgers, ledgers that can always be   *)
(* resumed, records that are durable, and the step simulation of           *)
(* DecisionAuthority.                                                      *)
(***************************************************************************)
EXTENDS ResearchTasks, FiniteSetTheorems, SequenceTheorems, TLAPS

------------------------------------------------------------------------------
(* What is written into a ledger, and what it therefore says.               *)

\* Event e may be the next one of ledger L.
May(L, e) ==
  LET n == Len(L)
  IN  \/ e.kind = "created" /\ L = <<>>
      \/ /\ e.kind = "passport" /\ L # <<>> /\ L[n].kind \in {"created", "answered"}
         /\ Request(e) = Request(L[n])
      \/ /\ e.kind = "answered" /\ L # <<>> /\ L[n].kind = "passport"
         /\ Plan(Request(L[n])) = "clarify"
         /\ e.of = n /\ e.answers = L[n].answers + 1
      \/ /\ e.kind = "retracted" /\ L # <<>> /\ L[n].kind = "passport"
         /\ e.of = n /\ Request(e) = Request(L[n])

\* The ledgers that windows leave: each event closes the passport before it or decides the
\* request before it, nothing follows a retraction, and passports have ever more answers.
Shape(L) ==
  /\ \A i \in DOMAIN L :
       \/ L[i].kind = "created" /\ i = 1
       \/ /\ L[i].kind = "passport" /\ i > 1 /\ L[i - 1].kind \in {"created", "answered"}
          /\ Request(L[i]) = Request(L[i - 1])
       \/ L[i].kind = "answered" /\ i > 1 /\ L[i - 1].kind = "passport" /\ L[i].of = i - 1
       \/ /\ L[i].kind = "retracted" /\ i > 1 /\ L[i - 1].kind = "passport" /\ L[i].of = i - 1
          /\ Request(L[i]) = Request(L[i - 1]) /\ i = Len(L)
  /\ \A i, j \in DOMAIN L :
       i < j /\ L[i].kind = "passport" /\ L[j].kind \in {"passport", "answered"}
         => L[i].answers < L[j].answers

LEMMA SeqFacts ==
  ASSUME NEW L \in Seq(Events)
  PROVE  /\ Len(L) \in Nat /\ DOMAIN L = 1..Len(L)
         /\ \A i \in 1..Len(L) : L[i] \in Events
         /\ L # <<>> <=> Len(L) > 0
  BY EmptySeq, ElementOfSeq

\* What may be appended keeps the shape.
LEMMA ShapeAppend ==
  ASSUME NEW L \in Seq(Events), Shape(L), NEW e \in Events, May(L, e)
  PROVE  Append(L, e) \in Seq(Events) /\ Shape(Append(L, e))
<1> DEFINE M == Append(L, e)
           n == Len(L)
<1>1. /\ n \in Nat /\ DOMAIN L = 1..n /\ (L # <<>> <=> n > 0)
      /\ \A i \in 1..n : L[i] \in Events
  BY SeqFacts
<1>2. /\ M \in Seq(Events) /\ Len(M) = n + 1 /\ DOMAIN M = 1..(n + 1)
      /\ \A i \in 1..n : M[i] = L[i]
      /\ M[n + 1] = e
  BY <1>1, AppendProperties
<1>3. L # <<>> => L[n].kind # "retracted"
  BY DEF May
<1>4. \A i \in 1..n : L[i].kind # "retracted"
  BY <1>1, <1>3 DEF Shape
<1> HIDE DEF M, n
<1>5. ASSUME NEW i \in DOMAIN M
      PROVE  \/ M[i].kind = "created" /\ i = 1
             \/ /\ M[i].kind = "passport" /\ i > 1 /\ M[i - 1].kind \in {"created", "answered"}
                /\ Request(M[i]) = Request(M[i - 1])
             \/ M[i].kind = "answered" /\ i > 1 /\ M[i - 1].kind = "passport"
                /\ M[i].of = i - 1
             \/ /\ M[i].kind = "retracted" /\ i > 1 /\ M[i - 1].kind = "passport"
                /\ M[i].of = i - 1
                /\ Request(M[i]) = Request(M[i - 1]) /\ i = Len(M)
  <2>1. CASE i \in 1..n
    <3>1. M[i] = L[i] /\ (i > 1 => M[i - 1] = L[i - 1]) /\ L[i].kind # "retracted"
      BY <1>1, <1>2, <1>4, <2>1
    <3> QED
      BY <1>1, <2>1, <3>1 DEF Shape
  <2>2. CASE i = n + 1
    <3>1. M[i] = e /\ (n > 0 => M[i - 1] = L[n])
      BY <1>1, <1>2, <2>2
    <3> QED
      BY <1>1, <1>2, <2>2, <3>1 DEF May, n
  <2> QED
    BY <1>1, <1>2, <2>1, <2>2
<1>6. ASSUME NEW i \in DOMAIN M, NEW j \in DOMAIN M, i < j, M[i].kind = "passport",
             M[j].kind \in {"passport", "answered"}
      PROVE  M[i].answers < M[j].answers
  <2>1. CASE j \in 1..n
    BY <1>1, <1>2, <1>6, <2>1 DEF Shape
  <2>2. CASE j = n + 1
    <3>1. i \in 1..n /\ M[i] = L[i] /\ M[j] = e /\ L # <<>>
      BY <1>1, <1>2, <1>6, <2>2
    <3>2. i = n \/ (i < n /\ n \in 1..n)
      BY <1>1, <3>1
    <3>3. L[n] \in Events /\ L[i] \in Events
      BY <1>1, <3>1
    <3>4. CASE e.kind = "answered"
      <4>1. L[n].kind = "passport" /\ e.answers = L[n].answers + 1
        BY <3>4 DEF May, n
      <4>2. i < n => L[i].answers < L[n].answers
        BY <1>1, <1>6, <3>1, <3>2, <4>1 DEF Shape
      <4>3. L[i].answers \in Nat /\ L[n].answers \in Nat /\ L[i].answers <= L[n].answers
        BY <3>2, <3>3, <4>2 DEF Events
      <4>4. L[i].answers < e.answers
        BY <4>1, <4>3
      <4> QED
        BY <3>1, <4>4
    <3>5. CASE e.kind = "passport"
      <4>1. L[n].kind \in {"created", "answered"} /\ e.answers = L[n].answers
        BY <3>5 DEF May, Request, n
      <4>2. i # n /\ n > 1
        BY <1>1, <1>6, <3>1, <3>2, <4>1
      <4>3. L[n].kind = "answered"
        BY <1>1, <3>1, <4>1, <4>2 DEF Shape
      <4> QED
        BY <1>1, <1>6, <3>1, <3>2, <4>1, <4>2, <4>3 DEF Shape
    <3> QED
      BY <1>6, <3>1, <3>4, <3>5
  <2> QED
    BY <1>1, <1>2, <2>1, <2>2
<1> QED
  BY <1>2, <1>5, <1>6 DEF Shape, M

\* What a ledger of this shape says, by its last event.
Says(L) ==
  IF L = <<>> THEN "empty"
  ELSE CASE L[Len(L)].kind \in {"created", "answered"} -> "pending"
         [] L[Len(L)].kind = "retracted" -> "retracted"
         [] L[Len(L)].kind = "passport" -> Plan(Request(L[Len(L)]))

LEMMA PlanType == \A r : Plan(r) \in {"clarify", "final"}
  BY DEF Plan

\* The passport of a request has one successor at most, the next event.
LEMMA ClosedIsNext ==
  ASSUME NEW L \in Seq(Events), Shape(L), NEW i \in DOMAIN L
  PROVE  Closed(L, i) = {j \in DOMAIN L : j = i + 1 /\ L[j].kind \in {"answered", "retracted"}}
<1>1. DOMAIN L = 1..Len(L) /\ Len(L) \in Nat
  BY SeqFacts
<1>2. \A j \in DOMAIN L : L[j].kind \in {"answered", "retracted"} => L[j].of = j - 1
  BY DEF Shape
<1> QED
  BY <1>1, <1>2 DEF Closed

LEMMA RecoverSays ==
  ASSUME NEW L \in Seq(Events), Shape(L)
  PROVE  Recover(L) = [kind |-> Says(L), seq |-> Len(L)]
<1> DEFINE n           == Len(L)
           passports   == {i \in DOMAIN L : L[i].kind = "passport"
                                              /\ Request(L[i]) = Request(HeadOf(L))}
           latest      == CHOOSE i \in passports : \A j \in passports : j <= i
           outstanding == {i \in passports : Closed(L, i) = {}}
           closing     == {L[j].kind : j \in Closed(L, latest)}
           kind == IF passports = {}
                     THEN IF HeadOf(L).kind \in {"created", "answered"}
                            THEN "pending" ELSE "corrupt"
                   ELSE IF "retracted" \in closing
                     THEN IF outstanding = {} /\ Closed(L, latest) = {Len(L)}
                            THEN "retracted" ELSE "corrupt"
                   ELSE IF outstanding = {latest} /\ latest = Len(L)
                     THEN Plan(Request(HeadOf(L))) ELSE "corrupt"
<1>0. Recover(L) = [kind |-> IF L = <<>> THEN "empty" ELSE kind, seq |-> Len(L)]
  BY DEF Recover
<1> SUFFICES ASSUME L # <<>> PROVE kind = Says(L)
  BY <1>0 DEF Says
<1>1. n \in Nat /\ n > 0 /\ DOMAIN L = 1..n /\ \A i \in 1..n : L[i] \in Events
  BY SeqFacts
<1>2. HeadOf(L) = L[n] /\ n \in DOMAIN L
  BY <1>1 DEF HeadOf
\* Of the passports before a given event, none has its number of answers.
<1>3. ASSUME NEW i \in DOMAIN L, NEW j \in DOMAIN L, i < j, L[i].kind = "passport",
             L[j].kind \in {"passport", "answered"}
      PROVE  Request(L[i]) # Request(L[j])
  <2>1. L[i].answers < L[j].answers
    BY <1>3 DEF Shape
  <2> QED
    BY <1>1, <2>1 DEF Request, Events
<1>4. CASE L[n].kind \in {"created", "answered"}
  <2>1. passports = {}
    <3>1. SUFFICES ASSUME NEW i \in passports PROVE FALSE
      OBVIOUS
    <3>2. i < n
      BY <1>1, <1>4, <3>1
    <3>3. L[n].kind = "answered"
      BY <1>1, <1>2, <1>4, <3>2 DEF Shape
    <3> QED
      BY <1>2, <1>3, <3>1, <3>2, <3>3
  <2> QED
    BY <1>2, <1>4, <2>1 DEF Says
<1>5. CASE L[n].kind = "passport"
  <2>1. passports = {n}
    BY <1>1, <1>2, <1>3, <1>5
  <2>2. latest = n
    BY <1>1, <2>1
  <2>3. Closed(L, n) = {}
    BY <1>1, <1>2, ClosedIsNext
  <2>4. outstanding = {n} /\ closing = {}
    BY <2>1, <2>2, <2>3
  <2> HIDE DEF passports, latest, outstanding, closing
  <2> QED
    BY <1>2, <1>5, <2>1, <2>2, <2>4 DEF Says
<1>6. CASE L[n].kind = "retracted"
  <2>1. n > 1 /\ L[n - 1].kind = "passport" /\ Request(L[n]) = Request(L[n - 1])
        /\ n - 1 \in DOMAIN L
    BY <1>1, <1>2, <1>6 DEF Shape
  <2>2. passports = {n - 1}
    <3>1. \A i \in passports : i = n - 1
      <4>1. SUFFICES ASSUME NEW i \in passports, i # n - 1 PROVE FALSE
        OBVIOUS
      <4>2. i < n - 1 /\ i \in DOMAIN L /\ L[i].kind = "passport"
        BY <1>1, <1>6, <2>1, <4>1
      <4> QED
        BY <1>2, <1>3, <2>1, <4>1, <4>2
    <3> QED
      BY <1>2, <2>1, <3>1
  <2>3. latest = n - 1
    BY <1>1, <2>2
  <2>4. Closed(L, n - 1) = {n}
    BY <1>1, <1>2, <1>6, <2>1, ClosedIsNext
  <2>5. outstanding = {} /\ closing = {"retracted"}
    BY <1>6, <2>2, <2>3, <2>4
  <2> HIDE DEF passports, latest, outstanding, closing
  <2> QED
    BY <1>6, <2>2, <2>3, <2>4, <2>5 DEF Says
<1> QED
  BY <1>1, <1>2, <1>4, <1>5, <1>6 DEF Shape

LEMMA SaysType ==
  ASSUME NEW L \in Seq(Events), Shape(L)
  PROVE  /\ Says(L) \in Kinds \union {"empty"}
         /\ Says(L) = "empty" <=> L = <<>>
<1>1. L # <<>> => Len(L) \in DOMAIN L
  BY SeqFacts
<1> QED
  BY <1>1, PlanType DEF Says, Shape, Kinds

\* What it says afterwards.
LEMMA SaysAfter ==
  ASSUME NEW L \in Seq(Events), Shape(L), NEW e \in Events, May(L, e)
  PROVE  /\ e.kind \in {"created", "answered"} => Says(Append(L, e)) = "pending"
         /\ e.kind = "retracted" => Says(Append(L, e)) = "retracted"
         /\ e.kind = "passport" => Says(Append(L, e)) \in {"clarify", "final"}
<1>1. /\ Append(L, e) # <<>> /\ Len(Append(L, e)) = Len(L) + 1
      /\ Append(L, e)[Len(L) + 1] = e
  BY AppendProperties
<1> QED
  BY <1>1, PlanType DEF Says

------------------------------------------------------------------------------
(* The invariant.                                                           *)

\* A window's task is in the index, and it knows the task's dataset.
Held(V, R) == V.handle # NoTask => V.handle \in DOMAIN R /\ V.identity \in Identities

\* A record is what the first events of its ledger say.
Durable(r, L) ==
  r # NoRecord => /\ r.task \in DOMAIN L /\ r.seq \in 1..Len(L[r.task])
                  /\ Recover(SubSeq(L[r.task], 1, r.seq)).kind = r.kind

\* What a job at a step relies on.
Relies(J, V, R, L) ==
  /\ J.pc \in {"locate", "look", "allocate", "mark", "check"}
       => J.op \in {"start", "initial", "replan"}
  /\ J.pc = "locate" => J.op # "replan"
  /\ J.pc = "look" => V.handle # NoTask
  /\ J.pc = "allocate" => /\ J.task \in DOMAIN L \ DOMAIN R
                          /\ J.op = "replan" => V.handle # NoTask
  /\ J.pc = "mark" => V.handle # NoTask /\ J.task \in DOMAIN R
  /\ J.pc = "check" => J.task \in DOMAIN R
  /\ J.pc \in {"lease"} \union Locked => V.handle # NoTask
  /\ J.pc = "lease" /\ J.op = "resume" => V.record.kind = "pending"
  /\ J.pc \in Locked => R[V.handle].active
  /\ J.pc = "commit" => Recover(L[V.handle]).kind = "pending"

OneWriter == \A v, w \in writer : v = w

\* A ledger that is new is known to its creator only.
Apart ==
  \A v, w \in Windows :
    v # w /\ job[v].pc = "allocate" /\ job[w].pc = "allocate" => job[v].task # job[w].task

OneOpen ==
  \A t, u \in DOMAIN rows :
    rows[t].active /\ rows[u].active /\ rows[t].identity = rows[u].identity => t = u

RowsInv == OneOpen /\ IsFiniteSet(DOMAIN rows) /\ OrdinalsContiguous

WindowInv(w) ==
  Held(view[w], rows) /\ Durable(view[w].record, ledgers)
    /\ Relies(job[w], view[w], rows, ledgers)

IInv ==
  /\ TypeOK /\ OneWriter /\ Apart /\ RowsInv
  /\ DOMAIN rows \subseteq DOMAIN ledgers
  /\ \A t \in DOMAIN ledgers : Shape(ledgers[t])
  /\ \A w \in Windows : WindowInv(w)

LEMMA SameRows == ASSUME RowsInv, UNCHANGED rows PROVE RowsInv'
  BY DEF RowsInv, OneOpen, OrdinalsContiguous, RowsOf, ActiveOf

LEMMA AtType ==
  ASSUME NEW pc \in Steps, NEW op \in Ops, NEW i \in Identities,
         NEW t \in Tasks \union {NoTask}, NEW d \in Drafts
  PROVE  /\ At(pc, op, i, t, d) \in Jobs
         /\ At(pc, op, i, t, d).pc = pc /\ At(pc, op, i, t, d).op = op
         /\ At(pc, op, i, t, d).task = t
  BY DEF At, Jobs

\* A step of a window that holds no lock and changes only what the window keeps.
LEMMA LocalKeeps ==
  ASSUME IInv, NEW w \in Windows, NEW J \in Jobs, NEW V \in Views,
         UNCHANGED <<rows, ledgers, writer>>,
         job' = [job EXCEPT ![w] = J], view' = [view EXCEPT ![w] = V],
         job[w].pc \notin Locked, J.pc \notin Locked \union {"allocate"},
         Held(V, rows), Durable(V.record, ledgers), Relies(J, V, rows, ledgers)
  PROVE  IInv'
<1>1. TypeOK'
  <2>1. {v \in Windows : job'[v].pc \in Locked} = {v \in Windows : job[v].pc \in Locked}
    BY DEF IInv, TypeOK
  <2> QED
    BY <2>1 DEF IInv, TypeOK
<1>2. OneWriter' /\ RowsInv' /\ DOMAIN rows' \subseteq DOMAIN ledgers'
      /\ \A t \in DOMAIN ledgers' : Shape(ledgers'[t])
  BY SameRows DEF IInv, OneWriter
<1>3. Apart'
  BY DEF IInv, TypeOK, Apart
<1>4. \A v \in Windows : WindowInv(v)'
  <2>1. ASSUME NEW v \in Windows PROVE WindowInv(v)'
    <3>1. CASE v = w
      BY <3>1 DEF IInv, TypeOK, WindowInv
    <3>2. CASE v # w
      BY <3>2 DEF IInv, TypeOK, WindowInv
    <3> QED
      BY <3>1, <3>2
  <2> QED
    BY <2>1
<1> QED
  BY <1>1, <1>2, <1>3, <1>4 DEF IInv

\* An ended job relies on nothing.
LEMMA EndsRelies ==
  ASSUME NEW outcome \in Outcomes, NEW V, NEW R, NEW L
  PROVE  /\ [pc |-> "idle", outcome |-> outcome] \in Jobs
         /\ Relies([pc |-> "idle", outcome |-> outcome], V, R, L)
  BY DEF Jobs, Relies, Locked

LEMMA EndsKeeps ==
  ASSUME IInv, NEW w \in Windows, NEW outcome \in Outcomes,
         UNCHANGED <<rows, ledgers, writer, view>>,
         job' = EndsWith(w, outcome), job[w].pc \notin Locked
  PROVE  IInv'
<1>1. view[w] \in Views /\ view' = [view EXCEPT ![w] = view[w]]
  BY DEF IInv, TypeOK
<1>2. Held(view[w], rows) /\ Durable(view[w].record, ledgers)
  BY DEF IInv, WindowInv
<1> QED
  BY <1>1, <1>2, EndsRelies, LocalKeeps DEF EndsWith, Locked

LEMMA IdleKeeps ==
  ASSUME IInv, NEW w \in Windows, NEW V \in Views, NEW outcome \in Outcomes,
         UNCHANGED <<rows, ledgers, writer>>,
         job' = EndsWith(w, outcome), view' = [view EXCEPT ![w] = V],
         job[w].pc \notin Locked, Held(V, rows), Durable(V.record, ledgers)
  PROVE  IInv'
  BY EndsRelies, LocalKeeps DEF EndsWith, Locked

------------------------------------------------------------------------------
(* Requests.                                                                *)

LEMMA AskKeeps ==
  ASSUME IInv, NEW w \in Windows, NEW pc \in {"locate", "look", "lease"}, NEW op \in Ops,
         NEW i \in Identities, NEW d \in Drafts, Ask(w, pc, op, i, d),
         pc = "locate" => op \in {"start", "initial"},
         pc = "look" => op = "replan" /\ view[w].handle # NoTask,
         pc = "lease" => view[w].handle # NoTask,
         op = "resume" => view[w].record.kind = "pending"
  PROVE  IInv'
<1> DEFINE J == At(pc, op, i, view[w].handle, d)
<1>1. view[w] \in Views /\ view[w].handle \in Tasks \union {NoTask}
  BY DEF IInv, TypeOK, Views
<1>2. J \in Jobs /\ J.pc = pc /\ J.op = op
  BY <1>1, AtType DEF Steps
<1>3. view' = [view EXCEPT ![w] = view[w]] /\ job' = [job EXCEPT ![w] = J]
      /\ job[w].pc = "idle" /\ UNCHANGED <<rows, ledgers, writer>>
  BY DEF IInv, TypeOK, Ask
<1>4. Held(view[w], rows) /\ Durable(view[w].record, ledgers)
  BY DEF IInv, WindowInv
<1>5. Relies(J, view[w], rows, ledgers)
  BY <1>2 DEF Relies, Locked
<1> HIDE DEF J
<1> QED
  BY <1>1, <1>2, <1>3, <1>4, <1>5, LocalKeeps DEF Locked

LEMMA RequestsKeep ==
  ASSUME IInv, NEW w \in Windows,
         \/ Answer(w) \/ Resume(w) \/ Retract(w)
         \/ \E d \in Drafts : Initial(w, d)
         \/ \E i \in Identities : Start(w, i) \/ Replan(w, i) \/ ReplanNothing(w, i)
  PROVE  IInv'
<1>1. AnyDraft \in Drafts
  BY ResearchTasksAssumption DEF AnyDraft
<1>2. view[w] \in Views /\ (view[w].handle # NoTask => view[w].identity \in Identities)
      /\ (view[w].identity # NoIdentity => view[w].identity \in Identities)
  BY DEF IInv, TypeOK, WindowInv, Held, Views
<1>3. CASE Answer(w) \/ Resume(w) \/ Retract(w)
  BY <1>1, <1>2, <1>3, AskKeeps DEF Answer, Resume, Retract, OnRecord, Ops
<1>4. CASE \E d \in Drafts : Initial(w, d)
  BY <1>1, <1>2, <1>4, AskKeeps DEF Initial, Ops
<1>5. CASE \E i \in Identities : Start(w, i)
  BY <1>1, <1>2, <1>5, AskKeeps DEF Start, Ops
<1>6. CASE \E i \in Identities : Replan(w, i)
  BY <1>1, <1>2, <1>6, AskKeeps DEF Replan, Ops
<1>7. ASSUME NEW i \in Identities, ReplanNothing(w, i) PROVE IInv'
  <2> DEFINE V == [identity |-> i, handle |-> NoTask, record |-> NoRecord]
  <2>1. V \in Views /\ Held(V, rows) /\ Durable(V.record, ledgers)
    BY DEF Views, Held, Durable, Records, NoRecord
  <2>2. view' = [view EXCEPT ![w] = V]
    BY <1>7 DEF ReplanNothing
  <2>3. /\ job[w] \in Jobs /\ job' = [job EXCEPT ![w] = job[w]] /\ job[w].pc = "idle"
        /\ UNCHANGED <<rows, ledgers, writer>>
    BY <1>7 DEF ReplanNothing, IInv, TypeOK
  <2>4. Relies(job[w], V, rows, ledgers)
    BY <2>3 DEF Relies, Locked
  <2> HIDE DEF V
  <2> QED
    BY <2>1, <2>2, <2>3, <2>4, LocalKeeps DEF Locked
<1> QED
  BY <1>3, <1>4, <1>5, <1>6, <1>7

------------------------------------------------------------------------------
(* Steps.                                                                   *)

LEMMA GotoIs ==
  ASSUME TypeOK, NEW w \in Windows, job[w].pc # "idle", NEW pc \in Steps,
         NEW t \in Tasks \union {NoTask}
  PROVE  \E J \in Jobs : /\ Goto(w, pc, t) = [job EXCEPT ![w] = J]
                         /\ J.pc = pc /\ J.task = t /\ J.op = job[w].op
                         /\ J.identity = job[w].identity /\ J.draft = job[w].draft
<1> DEFINE J == Goto(w, pc, t)[w]
<1>1. job \in [Windows -> Jobs]
      /\ job[w] \in [pc : Steps, op : Ops, identity : Identities,
                     task : Tasks \union {NoTask}, draft : Drafts,
                     stale : BOOLEAN, torn : BOOLEAN]
  BY DEF TypeOK, Jobs
<1>2. J \in Jobs /\ J.pc = pc /\ J.task = t /\ J.op = job[w].op
      /\ J.identity = job[w].identity /\ J.draft = job[w].draft
  BY <1>1 DEF Goto, Jobs
<1>3. Goto(w, pc, t) = [job EXCEPT ![w] = J]
  BY <1>1 DEF Goto
<1> QED
  BY <1>2, <1>3

\* A step to another that needs no lock, with a task that is there.
LEMMA GotoKeeps ==
  ASSUME IInv, NEW w \in Windows, NEW pc \in {"check", "mark"}, NEW t \in DOMAIN rows,
         UNCHANGED <<rows, ledgers, writer, view>>, job' = Goto(w, pc, t),
         job[w].pc \in {"locate", "look"}, pc = "mark" => view[w].handle # NoTask
  PROVE  IInv'
<1>1. t \in Tasks \union {NoTask} /\ pc \in Steps
  BY DEF IInv, TypeOK, Steps
<1>2. PICK J \in Jobs : /\ job' = [job EXCEPT ![w] = J]
                        /\ J.pc = pc /\ J.task = t /\ J.op = job[w].op
  BY <1>1, GotoIs DEF IInv
<1>3. view[w] \in Views /\ view' = [view EXCEPT ![w] = view[w]]
  BY DEF IInv, TypeOK
<1>4. Held(view[w], rows) /\ Durable(view[w].record, ledgers)
      /\ Relies(job[w], view[w], rows, ledgers)
  BY DEF IInv, WindowInv
<1>5. Relies(J, view[w], rows, ledgers)
  BY <1>2, <1>4 DEF Relies, Locked
<1> QED
  BY <1>2, <1>3, <1>4, <1>5, LocalKeeps DEF Locked

\* A new ledger.
LEMMA CreateKeeps ==
  ASSUME IInv, NEW w \in Windows, NEW t \in Unused,
         UNCHANGED <<rows, writer, view>>, job' = Goto(w, "allocate", t),
         ledgers' = [u \in DOMAIN ledgers \union {t} |-> IF u = t THEN <<>> ELSE ledgers[u]],
         job[w].pc \in {"locate", "look"}
  PROVE  IInv'
<1>1. t \in Tasks /\ t \notin DOMAIN ledgers /\ t \notin DOMAIN rows
  BY DEF Unused, IInv
<1>2. PICK J \in Jobs : /\ job' = [job EXCEPT ![w] = J]
                        /\ J.pc = "allocate" /\ J.task = t /\ J.op = job[w].op
  BY <1>1, GotoIs DEF IInv, Steps
<1>3. job \in [Windows -> Jobs] /\ job'[w] = J /\ \A v \in Windows : v # w => job'[v] = job[v]
  BY <1>2 DEF IInv, TypeOK
<1>4. /\ DOMAIN ledgers' = DOMAIN ledgers \union {t} /\ ledgers'[t] = <<>>
      /\ \A u \in DOMAIN ledgers : ledgers'[u] = ledgers[u]
  BY <1>1
<1>5. TypeOK'
  <2>1. {v \in Windows : job'[v].pc \in Locked} = {v \in Windows : job[v].pc \in Locked}
    BY <1>2, <1>3 DEF Locked
  <2>2. ledgers' \in [DOMAIN ledgers' -> Seq(Events)]
    BY <1>4 DEF IInv, TypeOK
  <2>3. job' \in [Windows -> Jobs]
    BY <1>2 DEF IInv, TypeOK
  <2> QED
    BY <1>1, <1>4, <2>1, <2>2, <2>3 DEF IInv, TypeOK
<1>6. OneWriter' /\ RowsInv' /\ DOMAIN rows' \subseteq DOMAIN ledgers'
  BY <1>4, SameRows DEF IInv, OneWriter
<1>7. \A u \in DOMAIN ledgers' : Shape(ledgers'[u])
  <2>1. Shape(<<>>)
    BY DEF Shape
  <2> QED
    BY <1>4, <2>1 DEF IInv
<1>8. Apart'
  <2>1. \A v \in Windows : v # w /\ job[v].pc = "allocate" => job[v].task # t
    BY <1>1 DEF IInv, WindowInv, Relies
  <2> QED
    BY <1>2, <1>3, <2>1 DEF IInv, Apart
<1>9. ASSUME NEW v \in Windows PROVE WindowInv(v)'
  <2>1. Held(view[v], rows) /\ Durable(view[v].record, ledgers)
        /\ Relies(job[v], view[v], rows, ledgers)
    BY DEF IInv, WindowInv
  <2>2. Held(view'[v], rows') /\ Durable(view'[v].record, ledgers')
    BY <1>4, <2>1 DEF Held, Durable
  <2>3. CASE v # w
    <3>1. job[v].pc \in Locked => view[v].handle \in DOMAIN ledgers
      BY <2>1 DEF IInv, Relies, Held
    <3>2. Relies(job[v], view[v], rows, ledgers')
      BY <1>4, <2>1, <3>1 DEF Relies, Locked
    <3> QED
      BY <1>3, <2>2, <2>3, <3>2 DEF WindowInv
  <2>4. CASE v = w
    <3>1. Relies(J, view[w], rows, ledgers')
      BY <1>1, <1>2, <1>4, <2>1, <2>4 DEF Relies, Locked
    <3> QED
      BY <1>3, <2>2, <2>4, <3>1 DEF WindowInv
  <2> QED
    BY <2>3, <2>4
<1> QED
  BY <1>5, <1>6, <1>7, <1>8, <1>9 DEF IInv

LEMMA LocateKeeps == ASSUME IInv, NEW w \in Windows, Locate(w) PROVE IInv'
<1> DEFINE i == job[w].identity
<1>1. job[w].pc = "locate" /\ UNCHANGED <<rows, writer>>
  BY DEF Locate
<1>2. view[w] \in Views /\ i \in Identities /\ view' \in {view'}
  BY <1>1 DEF IInv, TypeOK, Jobs
<1>3. CASE job' = EndsWith(w, "corruption") /\ UNCHANGED <<ledgers, view>>
  BY <1>1, <1>3, EndsKeeps DEF Outcomes, Locked
<1>4. CASE (\E t \in ActiveOf(i) : job' = Goto(w, "check", t)) /\ UNCHANGED <<ledgers, view>>
  BY <1>1, <1>4, GotoKeeps DEF ActiveOf
<1>5. CASE CreateLedger(w) /\ UNCHANGED view
  <2>1. CASE Unused = {} /\ job' = EndsWith(w, "unavailable") /\ UNCHANGED ledgers
    BY <1>1, <1>5, <2>1, EndsKeeps DEF Outcomes, Locked
  <2> QED
    BY <1>1, <1>5, <2>1, CreateKeeps DEF CreateLedger
<1>6. CASE /\ job' = EndsWith(w, "shown") /\ UNCHANGED ledgers
           /\ view' = [view EXCEPT ![w] =
                         [identity |-> i, handle |-> NoTask, record |-> NoRecord]]
  <2> DEFINE V == [identity |-> i, handle |-> NoTask, record |-> NoRecord]
  <2>1. V \in Views /\ Held(V, rows) /\ Durable(V.record, ledgers)
    BY <1>2 DEF Views, Held, Durable, Records, NoRecord
  <2> HIDE DEF V
  <2>2. view' = [view EXCEPT ![w] = V]
    BY <1>6 DEF V
  <2> QED
    BY <1>1, <1>6, <2>1, <2>2, IdleKeeps DEF Outcomes, Locked
<1> QED
  BY <1>3, <1>4, <1>5, <1>6 DEF Locate

LEMMA LookKeeps == ASSUME IInv, NEW w \in Windows, Look(w) PROVE IInv'
<1>1. job[w].pc = "look" /\ UNCHANGED <<rows, writer, view>>
  BY DEF Look
<1>2. view[w].handle # NoTask
  BY <1>1 DEF IInv, WindowInv, Relies
<1>3. CASE job' = EndsWith(w, "corruption") /\ UNCHANGED ledgers
  BY <1>1, <1>3, EndsKeeps DEF Outcomes, Locked
<1>4. CASE UNCHANGED ledgers /\ \E t \in ActiveOf(job[w].identity) :
             \E pc \in {"mark", "check"} : job' = Goto(w, pc, t)
  BY <1>1, <1>2, <1>4, GotoKeeps DEF ActiveOf
<1>5. CASE CreateLedger(w)
  <2>1. CASE Unused = {} /\ job' = EndsWith(w, "unavailable") /\ UNCHANGED ledgers
    BY <1>1, <1>5, <2>1, EndsKeeps DEF Outcomes, Locked
  <2> QED
    BY <1>1, <1>5, <2>1, CreateKeeps DEF CreateLedger
<1> QED
  BY <1>3, <1>4, <1>5 DEF Look

\* A job ends, and gives back the lock if it has it.
LEMMA ReleaseKeeps ==
  ASSUME IInv, NEW w \in Windows, NEW V \in Views, NEW outcome \in Outcomes,
         UNCHANGED <<rows, ledgers>>, writer' = writer \ {w},
         job' = EndsWith(w, outcome), view' = [view EXCEPT ![w] = V],
         Held(V, rows), Durable(V.record, ledgers)
  PROVE  IInv'
<1> DEFINE J == [pc |-> "idle", outcome |-> outcome]
<1>1. J \in Jobs /\ Relies(J, V, rows, ledgers) /\ J.pc = "idle"
  BY EndsRelies
<1> HIDE DEF J
<1>2. job' = [job EXCEPT ![w] = J] /\ job \in [Windows -> Jobs] /\ view \in [Windows -> Views]
  BY DEF EndsWith, J, IInv, TypeOK
<1>3. TypeOK'
  <2>1. {v \in Windows : job'[v].pc \in Locked} = {v \in Windows : job[v].pc \in Locked} \ {w}
    BY <1>1, <1>2 DEF Locked
  <2> QED
    BY <1>1, <1>2, <2>1 DEF IInv, TypeOK
<1>4. OneWriter' /\ RowsInv' /\ DOMAIN rows' \subseteq DOMAIN ledgers'
      /\ \A t \in DOMAIN ledgers' : Shape(ledgers'[t])
  BY SameRows DEF IInv, OneWriter
<1>5. Apart'
  BY <1>1, <1>2 DEF IInv, Apart
<1>6. ASSUME NEW v \in Windows PROVE WindowInv(v)'
  <2>1. CASE v = w
    BY <1>1, <1>2, <2>1 DEF WindowInv
  <2>2. CASE v # w
    BY <1>2, <2>2 DEF IInv, WindowInv
  <2> QED
    BY <2>1, <2>2
<1> QED
  BY <1>3, <1>4, <1>5, <1>6 DEF IInv

------------------------------------------------------------------------------
(* Rows.                                                                    *)

LEMMA OrdinalIs ==
  ASSUME RowsInv, NEW i \in Identities
  PROVE  /\ IsFiniteSet(RowsOf(i)) /\ Cardinality(RowsOf(i)) \in Nat
         /\ NextOrdinal(i) = Cardinality(RowsOf(i)) + 1
<1> DEFINE n == Cardinality(RowsOf(i))
           S == {0} \union {rows[t].ordinal : t \in RowsOf(i)}
<1>1. IsFiniteSet(RowsOf(i)) /\ n \in Nat
  <2>1. RowsOf(i) \subseteq DOMAIN rows
    BY DEF RowsOf
  <2> QED
    BY <2>1, FS_Subset, FS_CardinalityType DEF RowsInv
<1>2. S = {0} \union (1..n)
  BY DEF RowsInv, OrdinalsContiguous
<1> HIDE DEF n, S
<1>3. n \in S /\ \A m \in S : n >= m
  BY <1>1, <1>2
<1>4. \A m \in S : (\A k \in S : m >= k) => m = n
  BY <1>1, <1>2, <1>3
<1>5. Max(S) = n
  BY <1>3, <1>4 DEF Max
<1> QED
  BY <1>1, <1>5 DEF NextOrdinal, n, S

LEMMA AllocatedRows ==
  ASSUME TypeOK, RowsInv, NEW i \in Identities, NEW t, t \notin DOMAIN rows,
         rows' = Allocated(t, i, ActiveOf(i))
  PROVE  /\ rows' \in [DOMAIN rows' -> Rows] /\ DOMAIN rows' = DOMAIN rows \union {t}
         /\ RowsInv'
<1> DEFINE n == Cardinality(RowsOf(i))
<1>1. IsFiniteSet(RowsOf(i)) /\ n \in Nat /\ NextOrdinal(i) = n + 1
  BY OrdinalIs
<1>2. /\ DOMAIN rows' = DOMAIN rows \union {t}
      /\ rows'[t] = [identity |-> i, ordinal |-> n + 1, active |-> TRUE]
      /\ \A u \in DOMAIN rows :
           /\ rows'[u] \in Rows /\ rows[u] \in Rows
           /\ rows'[u].identity = rows[u].identity /\ rows'[u].ordinal = rows[u].ordinal
           /\ rows'[u].active <=> rows[u].active /\ rows[u].identity # i
  <2>1. /\ DOMAIN rows' = DOMAIN rows \union {t}
        /\ rows'[t] = [identity |-> i, ordinal |-> n + 1, active |-> TRUE]
    BY <1>1 DEF Allocated
  <2>2. ASSUME NEW u \in DOMAIN rows
        PROVE  /\ rows'[u] \in Rows /\ rows[u] \in Rows
               /\ rows'[u].identity = rows[u].identity /\ rows'[u].ordinal = rows[u].ordinal
               /\ rows'[u].active <=> rows[u].active /\ rows[u].identity # i
    <3>1. rows[u] \in Rows
      BY DEF TypeOK
    <3>2. rows'[u] = IF u \in ActiveOf(i) THEN [rows[u] EXCEPT !.active = FALSE] ELSE rows[u]
      BY DEF Allocated
    <3> QED
      BY <3>1, <3>2 DEF Rows, ActiveOf
  <2> QED
    BY <2>1, <2>2
<1>3. rows' \in [DOMAIN rows' -> Rows]
  <2>1. rows' = [u \in DOMAIN rows' |-> rows'[u]]
    BY DEF Allocated
  <2>2. rows'[t] \in Rows
    BY <1>1, <1>2 DEF Rows
  <2> QED
    BY <1>2, <2>1, <2>2
<1>4. OneOpen'
  BY <1>2 DEF RowsInv, OneOpen
<1>5. IsFiniteSet(DOMAIN rows')
  BY <1>2, FS_AddElement DEF RowsInv
<1>6. ASSUME NEW k \in Identities
      PROVE  /\ {rows'[u].ordinal : u \in RowsOf(k)'} = 1..Cardinality(RowsOf(k)')
             /\ \A u \in ActiveOf(k)' : rows'[u].ordinal = Cardinality(RowsOf(k)')
  <2>1. /\ {rows[u].ordinal : u \in RowsOf(k)} = 1..Cardinality(RowsOf(k))
        /\ \A u \in ActiveOf(k) : rows[u].ordinal = Cardinality(RowsOf(k))
    BY DEF RowsInv, OrdinalsContiguous
  <2>4. ASSUME NEW u \in DOMAIN rows
        PROVE  /\ u \in RowsOf(k)' <=> u \in RowsOf(k)
               /\ u \in ActiveOf(k)' <=> u \in ActiveOf(k) /\ k # i
    <3>1. u \in DOMAIN rows'
      BY <1>2
    <3>2. u \in RowsOf(k)' <=> rows'[u].identity = k
      BY <3>1 DEF RowsOf
    <3>3. u \in ActiveOf(k)' <=> rows'[u].identity = k /\ rows'[u].active
      BY <3>1 DEF ActiveOf
    <3>4. u \in RowsOf(k) <=> rows[u].identity = k
      BY DEF RowsOf
    <3>5. u \in ActiveOf(k) <=> rows[u].identity = k /\ rows[u].active
      BY DEF ActiveOf
    <3>6. /\ rows'[u].identity = rows[u].identity
          /\ rows'[u].active <=> rows[u].active /\ rows[u].identity # i
      BY <1>2
    <3> QED
      BY <3>2, <3>3, <3>4, <3>5, <3>6, Zenon
  <2>5. /\ t \in RowsOf(k)' <=> k = i
        /\ t \in ActiveOf(k)' <=> k = i
        /\ t \notin RowsOf(k) /\ t \notin ActiveOf(k)
    BY <1>2 DEF RowsOf, ActiveOf
  <2>6. RowsOf(k)' \subseteq DOMAIN rows \union {t} /\ ActiveOf(k)' \subseteq DOMAIN rows \union {t}
        /\ RowsOf(k) \subseteq DOMAIN rows /\ ActiveOf(k) \subseteq DOMAIN rows
    BY <1>2 DEF RowsOf, ActiveOf
  <2>2. CASE k # i
    <3>1. RowsOf(k)' = RowsOf(k) /\ ActiveOf(k)' = ActiveOf(k)
      BY <2>2, <2>4, <2>5, <2>6
    <3>3. {rows'[u].ordinal : u \in RowsOf(k)} = {rows[u].ordinal : u \in RowsOf(k)}
      BY <1>2, <2>6
    <3> QED
      BY <1>2, <2>1, <2>6, <3>1, <3>3
  <2>3. CASE k = i
    <3>1. RowsOf(k)' = RowsOf(i) \union {t} /\ t \notin RowsOf(i) /\ ActiveOf(k)' = {t}
      BY <2>3, <2>4, <2>5, <2>6
    <3>3. Cardinality(RowsOf(k)') = n + 1
      BY <1>1, <3>1, FS_AddElement
    <3>4. {rows'[u].ordinal : u \in RowsOf(i) \union {t}}
            = {rows[u].ordinal : u \in RowsOf(i)} \union {n + 1}
      BY <1>2, <2>3, <2>6
    <3>5. (1..n) \union {n + 1} = 1..(n + 1)
      BY <1>1
    <3> QED
      BY <1>2, <2>1, <2>3, <3>1, <3>3, <3>4, <3>5
  <2> QED
    BY <2>2, <2>3
<1>7. OrdinalsContiguous'
  BY <1>6 DEF OrdinalsContiguous
<1> QED
  BY <1>2, <1>3, <1>4, <1>5, <1>7 DEF RowsInv

LEMMA ClosedRows ==
  ASSUME TypeOK, RowsInv, NEW t \in DOMAIN rows, rows' = [rows EXCEPT ![t].active = FALSE]
  PROVE  rows' \in [DOMAIN rows' -> Rows] /\ DOMAIN rows' = DOMAIN rows /\ RowsInv'
<1>1. rows \in [DOMAIN rows -> Rows]
  BY DEF TypeOK
<1>2. DOMAIN rows' = DOMAIN rows /\ rows' \in [DOMAIN rows -> Rows]
  BY <1>1 DEF Rows
<1>3. \A u \in DOMAIN rows :
        /\ rows'[u].identity = rows[u].identity /\ rows'[u].ordinal = rows[u].ordinal
        /\ rows'[u].active => rows[u].active
  BY <1>1 DEF Rows
<1>4. ASSUME NEW k \in Identities
      PROVE  /\ {rows'[u].ordinal : u \in RowsOf(k)'} = 1..Cardinality(RowsOf(k)')
             /\ \A u \in ActiveOf(k)' : rows'[u].ordinal = Cardinality(RowsOf(k)')
  <2>1. /\ {rows[u].ordinal : u \in RowsOf(k)} = 1..Cardinality(RowsOf(k))
        /\ \A u \in ActiveOf(k) : rows[u].ordinal = Cardinality(RowsOf(k))
    BY DEF RowsInv, OrdinalsContiguous
  <2>2. RowsOf(k)' = RowsOf(k) /\ ActiveOf(k)' \subseteq ActiveOf(k)
    BY <1>2, <1>3 DEF RowsOf, ActiveOf
  <2>3. RowsOf(k) \subseteq DOMAIN rows /\ ActiveOf(k) \subseteq DOMAIN rows
    BY DEF RowsOf, ActiveOf
  <2>4. {rows'[u].ordinal : u \in RowsOf(k)} = {rows[u].ordinal : u \in RowsOf(k)}
    BY <1>3, <2>3
  <2> QED
    BY <1>3, <2>1, <2>2, <2>3, <2>4
<1>5. OneOpen'
  BY <1>2, <1>3 DEF RowsInv, OneOpen
<1>6. OrdinalsContiguous'
  BY <1>4 DEF OrdinalsContiguous
<1> QED
  BY <1>2, <1>5, <1>6 DEF RowsInv

\* A commit makes the other jobs stale, and a job that ended stays ended.
LEMMA CommittedIs ==
  ASSUME NEW w \in Windows, NEW F \in [Windows -> Jobs]
  PROVE  /\ Committed(w, F) \in [Windows -> Jobs]
         /\ Committed(w, F)[w] = F[w]
         /\ \A v \in Windows :
              /\ Committed(w, F)[v].pc = F[v].pc
              /\ F[v].pc # "idle" => /\ Committed(w, F)[v].op = F[v].op
                                     /\ Committed(w, F)[v].task = F[v].task
<1>1. ASSUME NEW v \in Windows
      PROVE  LET J == IF v # w /\ F[v].pc # "idle" THEN [F[v] EXCEPT !.stale = TRUE] ELSE F[v]
             IN  /\ Committed(w, F)[v] = J /\ J \in Jobs /\ J.pc = F[v].pc
                 /\ F[v].pc # "idle" => J.op = F[v].op /\ J.task = F[v].task
  <2>1. F[v] \in Jobs
    OBVIOUS
  <2>2. Committed(w, F)[v] =
          IF v # w /\ F[v].pc # "idle" THEN [F[v] EXCEPT !.stale = TRUE] ELSE F[v]
    BY DEF Committed
  <2> QED
    BY <2>1, <2>2 DEF Jobs
<1>2. Committed(w, F)[w] = F[w]
  BY DEF Committed
<1>3. Committed(w, F) = [v \in Windows |-> Committed(w, F)[v]]
  BY DEF Committed
<1> HIDE DEF Committed
<1> QED
  BY <1>1, <1>2, <1>3

\* A commit to the index.
LEMMA RowsKeep ==
  ASSUME IInv, NEW w \in Windows, NEW t, NEW pc \in {"mark", "check"}, writer = {},
         UNCHANGED <<ledgers, writer, view>>, job[w].pc \in {"allocate", "mark"},
         job[w].task = t, job' = Committed(w, Goto(w, pc, t)),
         rows' \in [DOMAIN rows' -> Rows], DOMAIN rows' = DOMAIN rows \union {t}, RowsInv',
         pc = "mark" => view[w].handle # NoTask
  PROVE  IInv'
<1>1. job \in [Windows -> Jobs] /\ \A v \in Windows : job[v].pc \notin Locked
  BY DEF IInv, TypeOK
<1>2. t \in DOMAIN ledgers /\ t \in Tasks
  BY DEF IInv, TypeOK, WindowInv, Relies
<1>3. PICK J \in Jobs : /\ Goto(w, pc, t) = [job EXCEPT ![w] = J]
                        /\ J.pc = pc /\ J.task = t /\ J.op = job[w].op
  <2>1. job[w].pc # "idle" /\ pc \in Steps /\ t \in Tasks \union {NoTask} /\ TypeOK
    BY <1>2 DEF IInv, Steps
  <2> QED
    BY <2>1, GotoIs
<1> DEFINE F == [job EXCEPT ![w] = J]
<1>0. F \in [Windows -> Jobs] /\ job' = Committed(w, F) /\ F[w] = J
      /\ \A v \in Windows : v # w => F[v] = job[v]
  BY <1>1, <1>3
<1> HIDE DEF F
<1>4. job' \in [Windows -> Jobs] /\ job'[w] = J
  BY <1>0, CommittedIs
<1>5. ASSUME NEW v \in Windows, v # w
      PROVE  /\ job'[v].pc = job[v].pc
             /\ job[v].pc # "idle" => job'[v].op = job[v].op /\ job'[v].task = job[v].task
  BY <1>0, <1>5, CommittedIs
<1>6. TypeOK'
  <2>1. {v \in Windows : job'[v].pc \in Locked} = {}
    BY <1>1, <1>3, <1>4, <1>5 DEF Locked
  <2> QED
    BY <1>2, <1>4, <2>1 DEF IInv, TypeOK
<1>7. OneWriter' /\ DOMAIN rows' \subseteq DOMAIN ledgers'
      /\ \A u \in DOMAIN ledgers' : Shape(ledgers'[u])
  BY <1>2 DEF IInv, OneWriter
<1>8. Apart'
  <2>1. job'[w].pc # "allocate"
    BY <1>3, <1>4
  <2>2. \A v \in Windows : job'[v].pc = "allocate"
          => v # w /\ job[v].pc = "allocate" /\ job'[v].task = job[v].task
    BY <1>5, <2>1
  <2>3. Apart
    BY DEF IInv
  <2> QED
    BY <2>2, <2>3 DEF Apart
<1>9. ASSUME NEW v \in Windows PROVE WindowInv(v)'
  <2>1. Held(view[v], rows) /\ Durable(view[v].record, ledgers)
        /\ Relies(job[v], view[v], rows, ledgers)
    BY DEF IInv, WindowInv
  <2>2. Held(view'[v], rows') /\ Durable(view'[v].record, ledgers')
    BY <2>1 DEF Held
  <2>3. CASE v # w
    <3>1. job[v].pc = "allocate" => job[v].task \notin DOMAIN rows'
      <4>1. job[w].pc = "mark" => t \in DOMAIN rows
        BY DEF IInv, WindowInv, Relies
      <4>2. job[w].pc = "allocate" /\ job[v].pc = "allocate" => job[v].task # t
        BY <2>3 DEF IInv, Apart
      <4> QED
        BY <2>1, <4>1, <4>2 DEF Relies
    <3>2. Relies(job'[v], view'[v], rows', ledgers')
      BY <1>1, <1>5, <2>1, <2>3, <3>1 DEF Relies, Locked
    <3> QED
      BY <2>2, <3>2 DEF WindowInv
  <2>4. CASE v = w
    <3>1. Relies(J, view'[w], rows', ledgers')
      BY <1>3, <2>1, <2>4 DEF Relies, Locked
    <3> QED
      BY <1>4, <2>2, <2>4, <3>1 DEF WindowInv
  <2> QED
    BY <2>3, <2>4
<1> QED
  BY <1>6, <1>7, <1>8, <1>9 DEF IInv

LEMMA AllocateKeeps == ASSUME IInv, NEW w \in Windows, Allocate(w) PROVE IInv'
<1> DEFINE i == job[w].identity
           t == job[w].task
           replaces == IF job[w].op = "replan" THEN {view[w].handle} \intersect RowsOf(i) ELSE {}
           pc == IF job[w].op = "replan" /\ replaces = {} THEN "mark" ELSE "check"
<1>1. job[w].pc = "allocate" /\ writer = {} /\ UNCHANGED <<ledgers, writer, view>>
  BY DEF Allocate
<1>2. \/ UNCHANGED rows /\ \E outcome \in Outcomes : job' = EndsWith(w, outcome)
      \/ /\ rows' = Allocated(t, i, replaces) /\ ActiveOf(i) = replaces
         /\ job' = Committed(w, Goto(w, pc, t))
  BY DEF Allocate, Outcomes
<1>3. CASE UNCHANGED rows /\ \E outcome \in Outcomes : job' = EndsWith(w, outcome)
  BY <1>1, <1>3, EndsKeeps DEF Locked
<1>4. CASE /\ rows' = Allocated(t, i, replaces) /\ ActiveOf(i) = replaces
           /\ job' = Committed(w, Goto(w, pc, t))
  <2>1. i \in Identities /\ TypeOK /\ RowsInv
    BY <1>1 DEF IInv, TypeOK, Jobs
  <2>2. t \notin DOMAIN rows /\ (job[w].op = "replan" => view[w].handle # NoTask)
    BY <1>1 DEF IInv, WindowInv, Relies
  <2>3. pc \in {"mark", "check"} /\ (pc = "mark" => view[w].handle # NoTask)
    BY <2>2
  <2> HIDE DEF i, t, replaces, pc
  <2>4. /\ rows' \in [DOMAIN rows' -> Rows] /\ DOMAIN rows' = DOMAIN rows \union {t}
        /\ RowsInv'
    BY <1>4, <2>1, <2>2, AllocatedRows
  <2>5. job[w].task = t
    BY DEF t
  <2> QED
    BY <1>1, <1>4, <2>3, <2>4, <2>5, RowsKeep
<1> QED
  BY <1>2, <1>3, <1>4

LEMMA MarkPreviousKeeps == ASSUME IInv, NEW w \in Windows, MarkPrevious(w) PROVE IInv'
<1> DEFINE t == job[w].task
<1>1. job[w].pc = "mark" /\ writer = {} /\ UNCHANGED <<ledgers, writer, view>>
  BY DEF MarkPrevious
<1>2. \/ UNCHANGED rows /\ \E outcome \in Outcomes : job' = EndsWith(w, outcome)
      \/ /\ rows' = [rows EXCEPT ![view[w].handle].active = FALSE]
         /\ job' = Committed(w, Goto(w, "check", t))
  BY DEF MarkPrevious, Outcomes
<1>3. CASE UNCHANGED rows /\ \E outcome \in Outcomes : job' = EndsWith(w, outcome)
  BY <1>1, <1>3, EndsKeeps DEF Locked
<1>4. CASE /\ rows' = [rows EXCEPT ![view[w].handle].active = FALSE]
           /\ job' = Committed(w, Goto(w, "check", t))
  <2>1. view[w].handle \in DOMAIN rows /\ t \in DOMAIN rows /\ TypeOK /\ RowsInv
    BY <1>1 DEF IInv, WindowInv, Relies, Held
  <2> HIDE DEF t
  <2>2. /\ rows' \in [DOMAIN rows' -> Rows] /\ DOMAIN rows' = DOMAIN rows \union {t}
        /\ RowsInv'
    BY <1>4, <2>1, ClosedRows
  <2>3. job[w].task = t
    BY DEF t
  <2> QED
    BY <1>1, <1>4, <2>2, <2>3, RowsKeep
<1> QED
  BY <1>2, <1>3, <1>4

LEMMA CheckKeeps == ASSUME IInv, NEW w \in Windows, Check(w) PROVE IInv'
<1> DEFINE t == job[w].task
           i == job[w].identity
           r == IF job[w].op = "replan" THEN NoRecord ELSE view[w].record
           V == [identity |-> i, handle |-> t, record |-> r]
<1>1. job[w].pc = "check" /\ UNCHANGED <<rows, ledgers, writer>> /\ job[w].pc \notin Locked
  BY DEF Check, Locked
<1>2. \/ UNCHANGED view /\ job' = EndsWith(w, "corruption")
      \/ /\ view' = [view EXCEPT ![w] = V]
         /\ job' = IF job[w].op = "replan" THEN EndsWith(w, "shown")
                   ELSE [job EXCEPT ![w] = At("lease", job[w].op, i, t, job[w].draft)]
  BY DEF Check
<1>3. CASE UNCHANGED view /\ job' = EndsWith(w, "corruption")
  BY <1>1, <1>3, EndsKeeps DEF Outcomes
<1>4. CASE /\ view' = [view EXCEPT ![w] = V]
           /\ job' = IF job[w].op = "replan" THEN EndsWith(w, "shown")
                     ELSE [job EXCEPT ![w] = At("lease", job[w].op, i, t, job[w].draft)]
  <2>1. /\ t \in DOMAIN rows /\ t \in Tasks /\ t # NoTask /\ i \in Identities
        /\ job[w].op \in {"start", "initial", "replan"} /\ job[w].draft \in Drafts
        /\ view[w].record \in Records /\ Durable(view[w].record, ledgers)
    BY <1>1, ResearchTasksAssumption DEF IInv, TypeOK, Jobs, Views, WindowInv, Relies
  <2>2. r \in Records /\ Durable(r, ledgers)
    BY <2>1 DEF Records, NoRecord, Durable
  <2>3. V \in Views /\ Held(V, rows) /\ Durable(V.record, ledgers)
    BY <2>1, <2>2 DEF Views, Held
  <2>4. CASE job[w].op = "replan"
    BY <1>1, <1>4, <2>3, <2>4, IdleKeeps DEF Outcomes
  <2>5. CASE job[w].op # "replan"
    <3> DEFINE J == At("lease", job[w].op, i, t, job[w].draft)
    <3>1. J \in Jobs /\ J.pc = "lease" /\ J.op = job[w].op
      <4>1. "lease" \in Steps /\ job[w].op \in Ops /\ t \in Tasks \union {NoTask}
        BY <2>1 DEF Steps, Ops
      <4> QED
        BY <2>1, <4>1, AtType
    <3>2. V.handle # NoTask
      BY <2>1
    <3> HIDE DEF J, V
    <3>3. Relies(J, V, rows, ledgers) /\ J.pc \notin Locked \union {"allocate"}
      BY <2>1, <3>1, <3>2 DEF Relies, Locked
    <3>4. job' = [job EXCEPT ![w] = J]
      BY <1>4, <2>5 DEF J
    <3> QED
      BY <1>1, <1>4, <2>3, <3>1, <3>3, <3>4, LocalKeeps
  <2> QED
    BY <2>4, <2>5
<1> QED
  BY <1>2, <1>3, <1>4

\* An append makes who verifies that ledger notice, and changes no job otherwise.
LEMMA AppendedIs ==
  ASSUME NEW w \in Windows, NEW t, NEW F \in [Windows -> Jobs]
  PROVE  /\ Appended(w, t, F) \in [Windows -> Jobs]
         /\ Appended(w, t, F)[w] = F[w]
         /\ \A v \in Windows :
              /\ Appended(w, t, F)[v].pc = F[v].pc
              /\ F[v].pc # "idle" => /\ Appended(w, t, F)[v].op = F[v].op
                                     /\ Appended(w, t, F)[v].task = F[v].task
<1>1. ASSUME NEW v \in Windows
      PROVE  LET torn == v # w /\ F[v].pc \in {"look", "check"} /\ F[v].task = t
                 J == IF torn THEN [F[v] EXCEPT !.torn = TRUE] ELSE F[v]
             IN  /\ Appended(w, t, F)[v] = J /\ J \in Jobs /\ J.pc = F[v].pc
                 /\ F[v].pc # "idle" => J.op = F[v].op /\ J.task = F[v].task
  <2> DEFINE torn == v # w /\ F[v].pc \in {"look", "check"} /\ F[v].task = t
  <2>1. F[v] \in Jobs
    OBVIOUS
  <2>2. Appended(w, t, F)[v] = IF torn THEN [F[v] EXCEPT !.torn = TRUE] ELSE F[v]
    BY DEF Appended
  <2>3. CASE torn
    BY <2>1, <2>2, <2>3 DEF Jobs
  <2>4. CASE ~torn
    BY <2>1, <2>2, <2>4
  <2> QED
    BY <2>3, <2>4
<1>2. Appended(w, t, F)[w] = F[w]
  BY DEF Appended
<1>3. Appended(w, t, F) = [v \in Windows |-> Appended(w, t, F)[v]]
  BY DEF Appended
<1> HIDE DEF Appended
<1> QED
  BY <1>1, <1>2, <1>3

LEMMA PrefixOfAppend ==
  ASSUME NEW L \in Seq(Events), NEW e \in Events, NEW n \in 1..Len(L)
  PROVE  n \in 1..Len(Append(L, e)) /\ SubSeq(Append(L, e), 1, n) = SubSeq(L, 1, n)
<1>1. Len(L) \in Nat /\ \A i \in 1..Len(L) : L[i] \in Events
  BY SeqFacts
<1>2. /\ Append(L, e) \in Seq(Events) /\ Len(Append(L, e)) = Len(L) + 1
      /\ \A i \in 1..Len(L) : Append(L, e)[i] = L[i]
  BY AppendProperties
<1>3. SubSeq(Append(L, e), 1, n) = [i \in 1..n |-> Append(L, e)[i]]
  BY <1>1, <1>2
<1>4. SubSeq(L, 1, n) = [i \in 1..n |-> L[i]]
  BY <1>1
<1> QED
  BY <1>1, <1>2, <1>3, <1>4

\* An append under the lease.
LEMMA AppendKeeps ==
  ASSUME IInv, NEW w \in Windows, NEW t, t = view[w].handle, t # NoTask,
         NEW e \in Events, May(ledgers[t], e), NEW pc \in Locked, AppendThen(w, e, pc),
         writer \subseteq {w}, writer' = {w}, job[w].pc # "idle", rows[t].active,
         pc = "commit" => e.kind \in {"created", "answered"}
  PROVE  IInv'
<1>1. /\ t \in DOMAIN rows /\ t \in DOMAIN ledgers /\ t \in Tasks /\ TypeOK
      /\ job \in [Windows -> Jobs]
  BY DEF IInv, WindowInv, Held, TypeOK
<1>2. ledgers[t] \in Seq(Events) /\ Shape(ledgers[t])
  BY <1>1 DEF IInv, TypeOK
<1>3. UNCHANGED <<rows, view>>
  BY DEF AppendThen
<1>4. /\ DOMAIN ledgers' = DOMAIN ledgers /\ ledgers'[t] = Append(ledgers[t], e)
      /\ \A u \in DOMAIN ledgers : u # t => ledgers'[u] = ledgers[u]
      /\ ledgers' \in [DOMAIN ledgers -> Seq(Events)]
      /\ \A u \in DOMAIN ledgers : Shape(ledgers'[u])
  <2>1. ledgers' = [ledgers EXCEPT ![t] = Append(ledgers[t], e)]
    BY DEF AppendThen, Append1
  <2>2. Append(ledgers[t], e) \in Seq(Events) /\ Shape(Append(ledgers[t], e))
    BY <1>2, ShapeAppend
  <2>3. ledgers \in [DOMAIN ledgers -> Seq(Events)]
    BY DEF IInv, TypeOK
  <2>4. \A u \in DOMAIN ledgers : Shape(ledgers[u])
    BY DEF IInv
  <2> QED
    BY <1>1, <2>1, <2>2, <2>3, <2>4
<1>5. PICK J \in Jobs : /\ Goto(w, pc, t) = [job EXCEPT ![w] = J]
                        /\ J.pc = pc /\ J.task = t /\ J.op = job[w].op
  <2>1. job[w].pc # "idle" /\ pc \in Steps /\ t \in Tasks \union {NoTask} /\ TypeOK
    BY <1>1 DEF Steps
  <2>2. \A u \in Tasks \union {NoTask} :
          \E J \in Jobs : /\ Goto(w, pc, u) = [job EXCEPT ![w] = J]
                         /\ J.pc = pc /\ J.task = u /\ J.op = job[w].op
    BY <2>1, GotoIs
  <2> QED
    BY <2>1, <2>2
<1> DEFINE F == [job EXCEPT ![w] = J]
<1>6. F \in [Windows -> Jobs] /\ F[w] = J /\ \A v \in Windows : v # w => F[v] = job[v]
  BY <1>1
<1>7. job' = Appended(w, t, F)
  BY <1>5 DEF AppendThen
<1> HIDE DEF F
<1>8. /\ job' \in [Windows -> Jobs] /\ job'[w] = J
      /\ \A v \in Windows : v # w =>
           /\ job'[v].pc = job[v].pc
           /\ job[v].pc # "idle" => job'[v].op = job[v].op /\ job'[v].task = job[v].task
  BY <1>6, <1>7, AppendedIs
<1>9. \A v \in Windows : v # w => job[v].pc \notin Locked
  BY <1>1 DEF TypeOK
<1>10. TypeOK'
  <2>1. {v \in Windows : job'[v].pc \in Locked} = {w}
    BY <1>5, <1>8, <1>9
  <2> QED
    BY <1>1, <1>3, <1>4, <1>8, <2>1 DEF TypeOK
<1>11. OneWriter' /\ RowsInv' /\ DOMAIN rows' \subseteq DOMAIN ledgers'
       /\ \A u \in DOMAIN ledgers' : Shape(ledgers'[u])
  BY <1>3, <1>4, SameRows DEF IInv, OneWriter
<1>12. Apart'
  <2>1. job'[w].pc # "allocate"
    BY <1>5, <1>8 DEF Locked
  <2>2. \A v \in Windows : job'[v].pc = "allocate"
          => v # w /\ job[v].pc = "allocate" /\ job'[v].task = job[v].task
    BY <1>8, <2>1
  <2>3. Apart
    BY DEF IInv
  <2> QED
    BY <2>2, <2>3 DEF Apart
<1>13. ASSUME NEW v \in Windows PROVE WindowInv(v)'
  <2>1. Held(view[v], rows) /\ Durable(view[v].record, ledgers)
        /\ Relies(job[v], view[v], rows, ledgers)
    BY DEF IInv, WindowInv
  <2>2. Held(view'[v], rows')
    BY <1>3, <2>1
  <2>3. Durable(view'[v].record, ledgers')
    <3> DEFINE r == view[v].record
    <3>1. CASE r # NoRecord /\ r.task = t
      <4>1. r.seq \in 1..Len(ledgers[t]) /\ Recover(SubSeq(ledgers[t], 1, r.seq)).kind = r.kind
        BY <2>1, <3>1 DEF Durable
      <4>2. r.seq \in 1..Len(ledgers'[t])
            /\ SubSeq(ledgers'[t], 1, r.seq) = SubSeq(ledgers[t], 1, r.seq)
        BY <1>2, <1>4, <4>1, PrefixOfAppend
      <4> QED
        BY <1>1, <1>3, <1>4, <3>1, <4>1, <4>2 DEF Durable
    <3>2. CASE r = NoRecord \/ r.task # t
      BY <1>3, <1>4, <2>1, <3>2 DEF Durable
    <3> QED
      BY <3>1, <3>2
  <2>4. CASE v # w
    <3>1. Relies(job'[v], view'[v], rows', ledgers')
      BY <1>3, <1>4, <1>8, <1>9, <2>1, <2>4 DEF Relies, Locked
    <3> QED
      BY <2>2, <2>3, <3>1 DEF WindowInv
  <2>5. CASE v = w
    <3>1. pc = "commit" => Recover(ledgers'[t]).kind = "pending"
      <4>1. Recover(ledgers'[t]) = [kind |-> Says(ledgers'[t]), seq |-> Len(ledgers'[t])]
        BY <1>1, <1>4, RecoverSays
      <4>2. pc = "commit" => Says(ledgers'[t]) = "pending"
        BY <1>2, <1>4, SaysAfter
      <4> QED
        BY <4>1, <4>2
    <3>2. Relies(J, view'[w], rows', ledgers')
      BY <1>3, <1>5, <3>1 DEF Relies, Locked
    <3> QED
      BY <1>8, <2>2, <2>3, <2>5, <3>2 DEF WindowInv
  <2> QED
    BY <2>4, <2>5
<1> QED
  BY <1>10, <1>11, <1>12, <1>13 DEF IInv

\* A step under the lease that appends nothing.
LEMMA GoOnKeeps ==
  ASSUME IInv, NEW w \in Windows, NEW pc \in Locked, GoOn(w, pc),
         view[w].handle # NoTask, rows[view[w].handle].active,
         writer \subseteq {w}, writer' = {w}, job[w].pc # "idle",
         pc = "commit" => Recover(ledgers[view[w].handle]).kind = "pending"
  PROVE  IInv'
<1>1. UNCHANGED <<rows, ledgers, view>> /\ TypeOK /\ job \in [Windows -> Jobs]
  BY DEF GoOn, IInv, TypeOK
<1>2. PICK J \in Jobs : job' = [job EXCEPT ![w] = J] /\ J.pc = pc /\ J.op = job[w].op
  <2> DEFINE t == view[w].handle
  <2>1. pc \in Steps /\ t \in Tasks \union {NoTask}
    BY <1>1 DEF Steps, TypeOK, Views
  <2>2. job' = Goto(w, pc, t)
    BY DEF GoOn
  <2> HIDE DEF t
  <2>3. \E J \in Jobs : /\ Goto(w, pc, t) = [job EXCEPT ![w] = J]
                       /\ J.pc = pc /\ J.op = job[w].op
    BY <1>1, <2>1, GotoIs
  <2> QED
    BY <2>2, <2>3
<1>3. job' \in [Windows -> Jobs] /\ job'[w] = J /\ \A v \in Windows : v # w => job'[v] = job[v]
  BY <1>1, <1>2
<1>4. TypeOK'
  <2>1. {v \in Windows : job'[v].pc \in Locked} = {w}
    BY <1>1, <1>2, <1>3 DEF TypeOK
  <2> QED
    BY <1>1, <1>3, <2>1 DEF TypeOK
<1>5. OneWriter' /\ RowsInv' /\ DOMAIN rows' \subseteq DOMAIN ledgers'
      /\ \A u \in DOMAIN ledgers' : Shape(ledgers'[u])
  BY <1>1, SameRows DEF IInv, OneWriter
<1>6. Apart'
  BY <1>2, <1>3 DEF IInv, Apart, Locked
<1>7. ASSUME NEW v \in Windows PROVE WindowInv(v)'
  <2>1. Held(view[v], rows) /\ Durable(view[v].record, ledgers)
        /\ Relies(job[v], view[v], rows, ledgers)
    BY DEF IInv, WindowInv
  <2>2. CASE v # w
    BY <1>1, <1>3, <2>1, <2>2 DEF WindowInv
  <2>3. CASE v = w
    <3>1. Relies(J, view[w], rows, ledgers)
      BY <1>2 DEF Relies, Locked
    <3> QED
      BY <1>1, <1>3, <2>1, <2>3, <3>1 DEF WindowInv
  <2> QED
    BY <2>2, <2>3
<1> QED
  BY <1>4, <1>5, <1>6, <1>7 DEF IInv

\* What a step under the lease does: it appends what may be appended, or nothing.
UnderLease(w) ==
  LET t == view[w].handle
  IN  /\ t # NoTask /\ t \in DOMAIN rows /\ rows[t].active
      /\ writer \subseteq {w} /\ writer' = {w} /\ job[w].pc # "idle"
      /\ \/ \E pc \in Locked :
              GoOn(w, pc) /\ (pc = "commit" => Recover(ledgers[t]).kind = "pending")
         \/ \E e \in Events, pc \in Locked :
              /\ AppendThen(w, e, pc) /\ May(ledgers[t], e)
              /\ pc = "commit" => e.kind \in {"created", "answered"}

LEMMA LeaseIs == ASSUME IInv, NEW w \in Windows, Lease(w) PROVE UnderLease(w)
<1> DEFINE t == view[w].handle
           L == ledgers[t]
           now == Recover(L).kind
<1>1. /\ job[w].pc = "lease" /\ writer = {} /\ writer' = {w} /\ rows[t].active /\ Work(w)
      /\ ~Refused(w)
  BY DEF Lease
<1>2. /\ t # NoTask /\ t \in DOMAIN rows /\ t \in DOMAIN ledgers /\ t \in Tasks
      /\ L \in Seq(Events) /\ Shape(L)
      /\ job[w].op \in Ops /\ job[w].draft \in Drafts
      /\ job[w].op = "resume" => view[w].record.kind = "pending"
  BY <1>1 DEF IInv, WindowInv, Relies, Held, TypeOK, Jobs
<1>3. now = Says(L) /\ Len(L) \in Nat /\ (L # <<>> => HeadOf(L) \in Events)
      /\ (L # <<>> => HeadOf(L) = L[Len(L)])
  BY <1>2, RecoverSays, SeqFacts DEF HeadOf
<1>4. now \in {"clarify", "final"} => L # <<>> /\ L[Len(L)].kind = "passport"
  <2>1. L # <<>> => Len(L) \in DOMAIN L
    BY <1>2, SeqFacts
  <2> QED
    BY <1>2, <1>3, <2>1 DEF Says, Shape
<1>5. job[w].pc # "idle" /\ writer \subseteq {w}
  BY <1>1
<1>6. CASE GoOn(w, "publish")
  BY <1>1, <1>2, <1>5, <1>6 DEF UnderLease, Locked
<1>7. CASE job[w].op = "initial" /\ now = "empty"
           /\ AppendThen(w, Event("created", job[w].draft, 0, 0), "commit")
  <2> DEFINE e == Event("created", job[w].draft, 0, 0)
  <2>1. e \in Events /\ e.kind = "created"
    BY <1>2 DEF Event, Events
  <2>2. L = <<>>
    BY <1>2, <1>3, <1>7, SaysType
  <2> HIDE DEF e
  <2>3. May(ledgers[t], e)
    BY <2>1, <2>2 DEF May
  <2>4. AppendThen(w, e, "commit")
    BY <1>7 DEF e
  <2> QED
    BY <1>1, <1>2, <1>5, <2>1, <2>3, <2>4 DEF UnderLease, Locked
<1>8. CASE job[w].op = "answer" /\ now = "clarify"
           /\ AppendThen(w, Event("answered", HeadOf(L).draft, HeadOf(L).answers + 1, Len(L)), "commit")
  <2> DEFINE e == Event("answered", HeadOf(L).draft, HeadOf(L).answers + 1, Len(L))
  <2>1. L # <<>> /\ L[Len(L)].kind = "passport" /\ HeadOf(L) = L[Len(L)] /\ HeadOf(L) \in Events
    BY <1>3, <1>4, <1>8
  <2>2. e \in Events /\ e.kind = "answered" /\ e.of = Len(L) /\ e.answers = L[Len(L)].answers + 1
    BY <1>3, <2>1 DEF Event, Events
  <2> HIDE DEF e
  <2>3. May(ledgers[t], e)
    BY <1>3, <1>8, <2>1, <2>2 DEF May, Says
  <2>4. AppendThen(w, e, "commit")
    BY <1>8 DEF e
  <2> QED
    BY <1>1, <1>2, <1>5, <2>2, <2>3, <2>4 DEF UnderLease, Locked
<1>9. CASE job[w].op = "resume" /\ view[w].record = Record(t) /\ GoOn(w, "commit")
  <2>1. now = "pending"
    BY <1>2, <1>9 DEF Record
  <2> QED
    BY <1>1, <1>2, <1>5, <1>9, <2>1 DEF UnderLease, Locked
<1>10. CASE IsDecision(now)
            /\ AppendThen(w, Event("retracted", HeadOf(L).draft, HeadOf(L).answers + 0, Len(L)), "publish")
  <2> DEFINE e == Event("retracted", HeadOf(L).draft, HeadOf(L).answers + 0, Len(L))
  <2>1. L # <<>> /\ L[Len(L)].kind = "passport" /\ HeadOf(L) = L[Len(L)] /\ HeadOf(L) \in Events
    BY <1>3, <1>4, <1>10 DEF IsDecision
  <2>2. e \in Events /\ e.kind = "retracted" /\ e.of = Len(L) /\ e.draft = L[Len(L)].draft
        /\ e.answers = L[Len(L)].answers
    BY <1>3, <2>1 DEF Event, Events
  <2> HIDE DEF e
  <2>3. May(ledgers[t], e)
    BY <2>1, <2>2 DEF May, Request
  <2>4. AppendThen(w, e, "publish")
    BY <1>10 DEF e
  <2> QED
    BY <1>1, <1>2, <1>5, <2>2, <2>3, <2>4 DEF UnderLease, Locked
<1> QED
  BY <1>1, <1>6, <1>7, <1>8, <1>9, <1>10 DEF Work

LEMMA CommitPassportIs ==
  ASSUME IInv, NEW w \in Windows, CommitPassport(w) PROVE UnderLease(w)
<1> DEFINE t == view[w].handle
           L == ledgers[t]
           request == Request(HeadOf(L))
           e == Event("passport", request[1], request[2], 0)
<1>1. /\ job[w].pc = "commit" /\ job[w].pc # "idle" /\ UNCHANGED writer
      /\ GoOn(w, "publish") \/ AppendThen(w, e, "publish")
  BY DEF CommitPassport
<1>2. /\ t # NoTask /\ t \in DOMAIN rows /\ t \in DOMAIN ledgers /\ rows[t].active
      /\ L \in Seq(Events) /\ Shape(L) /\ Recover(L).kind = "pending"
  BY <1>1 DEF IInv, WindowInv, Relies, Held, TypeOK, Locked
<1>3. writer \subseteq {w} /\ writer' = {w}
  BY <1>1 DEF IInv, TypeOK, OneWriter, Locked
<1>4. L # <<>> /\ L[Len(L)].kind \in {"created", "answered"} /\ HeadOf(L) = L[Len(L)]
      /\ L[Len(L)] \in Events
  <2>1. Says(L) = "pending"
    BY <1>2, RecoverSays
  <2>2. L # <<>> /\ Len(L) \in DOMAIN L /\ L[Len(L)] \in Events
    BY <1>2, <2>1, SeqFacts DEF Says
  <2> QED
    BY <1>2, <2>1, <2>2, PlanType DEF Says, Shape, HeadOf
<1>5. CASE GoOn(w, "publish")
  BY <1>1, <1>2, <1>3, <1>5 DEF UnderLease, Locked
<1>6. CASE AppendThen(w, e, "publish")
  <2>1. e \in Events /\ e.kind = "passport" /\ Request(e) = Request(L[Len(L)])
    BY <1>4 DEF Event, Events, Request
  <2>2. May(ledgers[t], e)
    BY <1>4, <2>1 DEF May
  <2> HIDE DEF e
  <2> QED
    BY <1>1, <1>2, <1>3, <1>6, <2>1, <2>2 DEF UnderLease, Locked
<1> QED
  BY <1>1, <1>5, <1>6

LEMMA UnderLeaseKeeps == ASSUME IInv, NEW w \in Windows, UnderLease(w) PROVE IInv'
<1>1. CASE \E pc \in Locked :
             GoOn(w, pc) /\ (pc = "commit" => Recover(ledgers[view[w].handle]).kind = "pending")
  BY <1>1, GoOnKeeps DEF UnderLease
<1>2. CASE \E e \in Events, pc \in Locked :
             /\ AppendThen(w, e, pc) /\ May(ledgers[view[w].handle], e)
             /\ pc = "commit" => e.kind \in {"created", "answered"}
  BY <1>2, AppendKeeps DEF UnderLease
<1> QED
  BY <1>1, <1>2 DEF UnderLease

LEMMA PublishKeeps == ASSUME IInv, NEW w \in Windows, Publish(w) PROVE IInv'
<1> DEFINE t == view[w].handle
           L == ledgers[t]
           r == IF L = <<>> THEN NoRecord ELSE Record(t)
           V == [view[w] EXCEPT !.record = r]
<1>1. /\ job[w].pc = "publish" /\ writer' = writer \ {w} /\ UNCHANGED <<rows, ledgers>>
      /\ \/ job' = EndsWith(w, "corruption") /\ view' = view
         \/ job' = EndsWith(w, "shown") /\ view' = [view EXCEPT ![w].record = r]
  BY DEF Publish, Release
<1>2. view[w] \in Views /\ view \in [Windows -> Views]
      /\ Held(view[w], rows) /\ Durable(view[w].record, ledgers)
  BY DEF IInv, TypeOK, WindowInv
<1>3. t \in DOMAIN ledgers /\ t \in Tasks /\ L \in Seq(Events) /\ Shape(L)
  BY <1>1 DEF IInv, WindowInv, Relies, Held, TypeOK, Locked
<1>4. CASE job' = EndsWith(w, "corruption") /\ view' = view
  <2>1. view' = [view EXCEPT ![w] = view[w]]
    BY <1>2, <1>4
  <2> QED
    BY <1>1, <1>2, <1>4, <2>1, ReleaseKeeps DEF Outcomes
<1>5. CASE job' = EndsWith(w, "shown") /\ view' = [view EXCEPT ![w].record = r]
  <2>1. r \in Records /\ Durable(r, ledgers)
    <3>1. CASE L = <<>>
      BY <3>1 DEF Records, NoRecord, Durable
    <3>2. CASE L # <<>>
      <4>1. r = [task |-> t, kind |-> Says(L), seq |-> Len(L)]
        BY <1>3, <3>2, RecoverSays DEF Record
      <4>2. Says(L) \in Kinds /\ Len(L) \in Nat /\ Len(L) > 0
        BY <1>3, <3>2, SaysType, SeqFacts
      <4>3. SubSeq(L, 1, Len(L)) = L
        BY <1>3, SubSeqFull
      <4>4. Recover(L).kind = Says(L)
        BY <1>3, RecoverSays
      <4> HIDE DEF r, t, L
      <4>5. r \in Records
        BY <1>3, <4>1, <4>2 DEF Records
      <4>6. r.task = t /\ r.seq = Len(L) /\ r.kind = Says(L) /\ r.seq \in 1..Len(L)
        BY <4>1, <4>2
      <4>7. L = ledgers[t]
        BY DEF L
      <4> QED
        BY <1>3, <4>3, <4>4, <4>5, <4>6, <4>7 DEF Durable
    <3> QED
      BY <3>1, <3>2
  <2> HIDE DEF r
  <2>2. V \in Views /\ V.record = r /\ Held(V, rows)
    BY <1>2, <2>1 DEF Views, Held
  <2>3. view' = [view EXCEPT ![w] = V]
    BY <1>2, <1>5
  <2> HIDE DEF V
  <2> QED
    BY <1>1, <1>5, <2>1, <2>2, <2>3, ReleaseKeeps DEF Outcomes
<1> QED
  BY <1>1, <1>4, <1>5

LEMMA FailKeeps == ASSUME IInv, NEW w \in Windows, Fail(w) PROVE IInv'
<1>1. /\ view' = [view EXCEPT ![w] = view[w]] /\ view[w] \in Views
      /\ Held(view[w], rows) /\ Durable(view[w].record, ledgers)
  BY DEF Fail, IInv, TypeOK, WindowInv
<1> QED
  BY <1>1, ReleaseKeeps DEF Fail, Release, Outcomes

LEMMA CrashKeeps == ASSUME IInv, NEW w \in Windows, Crash(w) PROVE IInv'
<1> DEFINE V == [identity |-> NoIdentity, handle |-> NoTask, record |-> NoRecord]
<1>1. V \in Views /\ Held(V, rows) /\ Durable(V.record, ledgers)
  BY DEF Views, Records, NoRecord, Held, Durable
<1>2. /\ UNCHANGED <<rows, ledgers>> /\ writer' = writer \ {w}
      /\ view' = [view EXCEPT ![w] = V] /\ job' = EndsWith(w, "none")
  BY DEF Crash, Release, Idle, EndsWith
<1> HIDE DEF V
<1> QED
  BY <1>1, <1>2, ReleaseKeeps DEF Outcomes

LEMMA StepKeeps == ASSUME IInv, NEW w \in Windows, Step(w) PROVE IInv'
<1>1. CASE IndexBusy(w)
  BY <1>1, EndsKeeps DEF IndexBusy, Outcomes, Locked
<1>2. CASE LeaseRefused(w)
  BY <1>2, EndsKeeps DEF LeaseRefused, Outcomes, Locked
<1> QED
  BY <1>1, <1>2, LocateKeeps, LookKeeps, AllocateKeeps, MarkPreviousKeeps, CheckKeeps,
     LeaseIs, CommitPassportIs, UnderLeaseKeeps, PublishKeeps DEF Step

LEMMA Initially == Init => IInv
<1> SUFFICES ASSUME Init PROVE IInv
  OBVIOUS
<1> DEFINE V == [identity |-> NoIdentity, handle |-> NoTask, record |-> NoRecord]
<1>1. /\ DOMAIN rows = {} /\ DOMAIN ledgers = {} /\ writer = {}
      /\ rows \in [DOMAIN rows -> Rows] /\ ledgers \in [DOMAIN ledgers -> Seq(Events)]
      /\ \A w \in Windows : job[w] = Idle /\ view[w] = V
      /\ job \in [Windows -> Jobs] /\ view \in [Windows -> Views]
  BY DEF Init, Idle, Jobs, Outcomes, Views, Records, NoRecord
<1>2. \A w \in Windows : job[w].pc = "idle"
  BY <1>1 DEF Idle
<1>3. TypeOK /\ OneWriter /\ Apart
  BY <1>1, <1>2 DEF TypeOK, OneWriter, Apart, Locked
<1>4. RowsInv
  <2>1. \A i \in Identities : RowsOf(i) = {} /\ ActiveOf(i) = {}
    BY <1>1 DEF RowsOf, ActiveOf
  <2>2. 1..0 = {}
    OBVIOUS
  <2> QED
    BY <1>1, <2>1, <2>2, FS_EmptySet DEF RowsInv, OneOpen, OrdinalsContiguous
<1>5. ASSUME NEW w \in Windows PROVE WindowInv(w)
  BY <1>1, <1>2 DEF WindowInv, Held, Durable, Relies, Locked
<1> QED
  BY <1>1, <1>3, <1>4, <1>5 DEF IInv

LEMMA Inductive == Spec => []IInv
<1>1. IInv /\ [Next]_vars => IInv'
  <2> SUFFICES ASSUME IInv, [Next]_vars PROVE IInv'
    OBVIOUS
  <2>1. CASE UNCHANGED vars
    <3>1. UNCHANGED <<rows, ledgers, writer, view, job>>
      BY <2>1 DEF vars
    <3>2. RowsInv'
      BY <3>1, SameRows DEF IInv
    <3> QED
      BY <3>1, <3>2 DEF IInv, TypeOK, OneWriter, Apart, WindowInv
  <2>2. ASSUME NEW w \in Windows,
               \/ Step(w) \/ Fail(w) \/ Crash(w)
               \/ Answer(w) \/ Resume(w) \/ Retract(w)
               \/ \E d \in Drafts : Initial(w, d)
               \/ \E i \in Identities : Start(w, i) \/ Replan(w, i) \/ ReplanNothing(w, i)
        PROVE  IInv'
    BY <2>2, StepKeeps, FailKeeps, CrashKeeps, RequestsKeep
  <2> QED
    BY <2>1, <2>2 DEF Next
<1> QED
  BY <1>1, Initially, PTL DEF Spec

------------------------------------------------------------------------------
(* Theorems.                                                                *)

\* The types, and the lock of the index is held by exactly the jobs that need it.
THEOREM TypeCorrect == Spec => []TypeOK
  BY Inductive, PTL DEF IInv

\* An index row, and a task a window holds, always lead to a ledger.
THEOREM LocatorsLeadToLedgers == Spec => []LocatorsNameLedgers
<1>1. IInv => LocatorsNameLedgers
  BY DEF IInv, WindowInv, Held, LocatorsNameLedgers
<1> QED
  BY <1>1, Inductive, PTL

\* The ordinals of an identity have no gap and only its last task may be open.
THEOREM OrdinalsHaveNoGap == Spec => []OrdinalsContiguous
<1>1. IInv => OrdinalsContiguous
  BY DEF IInv, RowsInv
<1> QED
  BY <1>1, Inductive, PTL

\* However many windows there are and wherever they stop, every ledger can be resumed.
THEOREM LedgersAreRecoverable == Spec => []LedgersRecoverable
<1>1. IInv => LedgersRecoverable
  <2> SUFFICES ASSUME IInv, NEW t \in DOMAIN ledgers
               PROVE  Recover(ledgers[t]).kind # "corrupt"
    BY DEF LedgersRecoverable
  <2>1. ledgers[t] \in Seq(Events) /\ Shape(ledgers[t])
    BY DEF IInv, TypeOK
  <2>2. Recover(ledgers[t]).kind = Says(ledgers[t]) /\ Says(ledgers[t]) \in Kinds \union {"empty"}
    BY <2>1, RecoverSays, SaysType
  <2> QED
    BY <2>2 DEF Kinds
<1> QED
  BY <1>1, Inductive, PTL

\* What a window shows is what a part of its ledger that is still there says.
THEOREM NothingShownIsLost == Spec => []ShownIsDurable
<1>1. IInv => ShownIsDurable
  BY DEF IInv, WindowInv, Durable, ShownIsDurable
<1> QED
  BY <1>1, Inductive, PTL

------------------------------------------------------------------------------
(* The windows together are one authority.                                  *)

LEMMA SameAuthority == ASSUME UNCHANGED <<rows, ledgers>> PROVE UNCHANGED Authority!tasksVars
  BY DEF Authority!tasksVars, ActiveOf, LedgerOf

\* A ledger that is new says what no ledger says.
LEMMA CreateIsCreate ==
  ASSUME IInv, NEW w \in Windows, CreateLedger(w), UNCHANGED rows
  PROVE  [Authority!Next]_Authority!tasksVars
<1>1. CASE UNCHANGED ledgers
  BY <1>1, SameAuthority
<1>2. ASSUME NEW t \in Unused,
             ledgers' = [u \in DOMAIN ledgers \union {t} |-> IF u = t THEN <<>> ELSE ledgers[u]]
      PROVE  [Authority!Next]_Authority!tasksVars
  <2>1. t \in Tasks /\ t \notin DOMAIN ledgers /\ DOMAIN ledgers' = DOMAIN ledgers \union {t}
    BY <1>2 DEF Unused
  <2>2. \A u \in Tasks : LedgerOf(u)' = LedgerOf(u)
    BY <1>2, <2>1 DEF LedgerOf
  <2>3. \A i \in Identities : ActiveOf(i)' = ActiveOf(i)
    BY DEF ActiveOf
  <2>4. Authority!Create(t)
    BY <2>1, <2>2, <2>3 DEF Authority!Create
  <2> QED
    BY <2>1, <2>4 DEF Authority!Next
<1> QED
  BY <1>1, <1>2 DEF CreateLedger

LEMMA OpenIs ==
  ASSUME TypeOK, NEW t
  PROVE  t \in Authority!Open <=> t \in DOMAIN rows /\ rows[t].active
<1>1. \A u \in DOMAIN rows : rows[u].identity \in Identities
  BY DEF TypeOK, Rows
<1> QED
  BY <1>1 DEF Authority!Open, ActiveOf

LEMMA AllocateIsOpen ==
  ASSUME IInv, NEW w \in Windows, Allocate(w)
  PROVE  [Authority!Next]_Authority!tasksVars
<1>1. job[w].pc = "allocate" /\ UNCHANGED ledgers
      /\ \/ UNCHANGED rows
         \/ rows' = Allocated(job[w].task, job[w].identity, ActiveOf(job[w].identity))
  BY DEF Allocate
<1>2. CASE UNCHANGED rows
  BY <1>1, <1>2, SameAuthority
<1>3. ASSUME NEW t, NEW i, t = job[w].task, i = job[w].identity,
             rows' = Allocated(t, i, ActiveOf(i))
      PROVE  [Authority!Next]_Authority!tasksVars
  <2>1. i \in Identities /\ TypeOK /\ RowsInv
        /\ t \in DOMAIN ledgers /\ t \in Tasks /\ t \notin DOMAIN rows
    BY <1>1, <1>3 DEF IInv, TypeOK, Jobs, WindowInv, Relies
  <2>2. /\ DOMAIN rows' = DOMAIN rows \union {t} /\ rows'[t].identity = i /\ rows'[t].active
        /\ \A u \in DOMAIN rows :
             rows'[u] = IF u \in ActiveOf(i) THEN [rows[u] EXCEPT !.active = FALSE] ELSE rows[u]
    BY <1>3, <2>1 DEF Allocated
  <2>3. ASSUME NEW u \in DOMAIN rows
        PROVE  /\ rows'[u].identity = rows[u].identity
               /\ rows'[u].active <=> rows[u].active /\ rows[u].identity # i
    <3>1. rows[u] \in Rows /\ (u \in ActiveOf(i) <=> rows[u].identity = i /\ rows[u].active)
      BY DEF IInv, TypeOK, ActiveOf
    <3> QED
      BY <2>2, <3>1 DEF Rows
  <2>4. ASSUME NEW k \in Identities
        PROVE  ActiveOf(k)' = IF k = i THEN {t} ELSE ActiveOf(k)
    <3>1. ASSUME NEW u \in DOMAIN rows
          PROVE  u \in ActiveOf(k)' <=> u \in ActiveOf(k) /\ k # i
      <4>1. u \in ActiveOf(k)' <=> rows'[u].identity = k /\ rows'[u].active
        BY <2>2 DEF ActiveOf
      <4>2. u \in ActiveOf(k) <=> rows[u].identity = k /\ rows[u].active
        BY DEF ActiveOf
      <4> QED
        BY <2>3, <4>1, <4>2, Zenon
    <3>2. t \in ActiveOf(k)' <=> k = i
      BY <2>2 DEF ActiveOf
    <3>3. ActiveOf(k)' \subseteq DOMAIN rows \union {t} /\ ActiveOf(k) \subseteq DOMAIN rows
      BY <2>2 DEF ActiveOf
    <3> QED
      BY <2>1, <3>1, <3>2, <3>3
  <2>5. [k \in Identities |-> ActiveOf(k)']
          = [[k \in Identities |-> ActiveOf(k)] EXCEPT ![i] = {t}]
    BY <2>1, <2>4
  <2>6. {u \in DOMAIN rows' : ~rows'[u].active}
          = {u \in DOMAIN rows : ~rows[u].active} \union ActiveOf(i)
    <3>1. ASSUME NEW u \in DOMAIN rows
          PROVE  ~rows'[u].active <=> ~rows[u].active \/ u \in ActiveOf(i)
      <4>1. u \in ActiveOf(i) <=> rows[u].identity = i /\ rows[u].active
        BY DEF ActiveOf
      <4> QED
        BY <2>3, <4>1, Zenon
    <3>2. ActiveOf(i) \subseteq DOMAIN rows
      BY DEF ActiveOf
    <3> QED
      BY <2>2, <3>1, <3>2
  <2>7. \A u \in Tasks : LedgerOf(u)' = LedgerOf(u)
    BY <1>1 DEF LedgerOf
  <2>8. t \notin Authority!Open /\ t \notin {u \in DOMAIN rows : ~rows[u].active}
    BY <2>1, OpenIs
  <2>9. Authority!OpenTask(t, i)
    BY <1>1, <2>1, <2>5, <2>6, <2>7, <2>8 DEF Authority!OpenTask
  <2> QED
    BY <2>1, <2>9 DEF Authority!Next
<1> QED
  BY <1>1, <1>2, <1>3

LEMMA MarkIsClose ==
  ASSUME IInv, NEW w \in Windows, MarkPrevious(w)
  PROVE  [Authority!Next]_Authority!tasksVars
<1>1. job[w].pc = "mark" /\ UNCHANGED ledgers
      /\ \/ UNCHANGED rows
         \/ /\ rows[view[w].handle].active
            /\ rows' = [rows EXCEPT ![view[w].handle].active = FALSE]
  BY DEF MarkPrevious
<1>2. CASE UNCHANGED rows
  BY <1>1, <1>2, SameAuthority
<1>3. ASSUME NEW t, NEW i, t = view[w].handle, i = rows[t].identity,
             rows[t].active, rows' = [rows EXCEPT ![t].active = FALSE]
      PROVE  [Authority!Next]_Authority!tasksVars
  <2>1. t \in DOMAIN rows /\ t \in Tasks /\ TypeOK /\ OneOpen /\ rows \in [DOMAIN rows -> Rows]
    BY <1>1, <1>3 DEF IInv, TypeOK, RowsInv, WindowInv, Relies, Held
  <2>2. i \in Identities
    BY <1>3, <2>1 DEF Rows
  <2>3. /\ DOMAIN rows' = DOMAIN rows
        /\ \A u \in DOMAIN rows : rows'[u].identity = rows[u].identity
        /\ \A u \in DOMAIN rows : u # t => rows'[u] = rows[u]
        /\ rows'[t].active = FALSE
    BY <1>3, <2>1 DEF Rows
  <2>4. ActiveOf(i) = {t}
    BY <1>3, <2>1 DEF ActiveOf, OneOpen
  <2>5. ASSUME NEW k \in Identities PROVE ActiveOf(k)' = IF k = i THEN {} ELSE ActiveOf(k)
    <3>1. ASSUME NEW u \in DOMAIN rows PROVE u \in ActiveOf(k)' <=> u \in ActiveOf(k) /\ u # t
      <4>1. u \in ActiveOf(k)' <=> rows'[u].identity = k /\ rows'[u].active
        BY <2>3 DEF ActiveOf
      <4>2. u \in ActiveOf(k) <=> rows[u].identity = k /\ rows[u].active
        BY DEF ActiveOf
      <4>3. (u # t => rows'[u] = rows[u]) /\ rows'[t].active = FALSE
        BY <2>3
      <4> QED
        BY <4>1, <4>2, <4>3, Zenon
    <3>2. ActiveOf(k)' \subseteq DOMAIN rows /\ ActiveOf(k) \subseteq DOMAIN rows
      BY <2>3 DEF ActiveOf
    <3>3. k # i => t \notin ActiveOf(k)
      BY <1>3 DEF ActiveOf
    <3> QED
      BY <2>4, <3>1, <3>2, <3>3
  <2>6. [k \in Identities |-> ActiveOf(k)']
          = [[k \in Identities |-> ActiveOf(k)] EXCEPT ![i] = {}]
    BY <2>2, <2>5
  <2>7. {u \in DOMAIN rows' : ~rows'[u].active}
          = {u \in DOMAIN rows : ~rows[u].active} \union {t}
    <3>1. ASSUME NEW u \in DOMAIN rows PROVE ~rows'[u].active <=> ~rows[u].active \/ u = t
      <4>1. (u # t => rows'[u] = rows[u]) /\ rows'[t].active = FALSE
        BY <2>3
      <4> QED
        BY <4>1, Zenon
    <3> QED
      BY <2>1, <2>3, <3>1
  <2>8. \A u \in Tasks : LedgerOf(u)' = LedgerOf(u)
    BY <1>1 DEF LedgerOf
  <2>9. Authority!CloseTask(t, i)
    BY <1>1, <2>2, <2>4, <2>6, <2>7, <2>8 DEF Authority!CloseTask
  <2> QED
    BY <2>1, <2>2, <2>9 DEF Authority!Next
<1> QED
  BY <1>1, <1>2, <1>3

\* What may be appended follows what the ledger says.
LEMMA SaysFollows ==
  ASSUME NEW L \in Seq(Events), Shape(L), NEW e \in Events, May(L, e)
  PROVE  Says(Append(L, e)) \in Authority!Follows(Says(L))
<1>1. Says(L) = IF L = <<>> THEN "empty"
                ELSE IF L[Len(L)].kind \in {"created", "answered"} THEN "pending"
                ELSE IF L[Len(L)].kind = "retracted" THEN "retracted"
                ELSE Plan(Request(L[Len(L)]))
  <2>1. L # <<>> => Len(L) \in DOMAIN L
    BY SeqFacts
  <2> QED
    BY <2>1 DEF Says, Shape
<1>2. /\ Authority!Follows("empty") = {"pending"}
      /\ Authority!Follows("pending") = {"clarify", "final"}
      /\ Authority!Follows("clarify") = {"pending", "retracted"}
      /\ Authority!Follows("final") = {"retracted"}
  BY DEF Authority!Follows
<1>3. L # <<>> => Plan(Request(L[Len(L)])) \in {"clarify", "final"}
  BY PlanType
<1> QED
  BY <1>1, <1>2, <1>3, SaysAfter DEF May

LEMMA AppendIsDecide ==
  ASSUME IInv, NEW w \in Windows, UnderLease(w)
  PROVE  [Authority!Next]_Authority!tasksVars
<1>1. CASE \E pc \in Locked : GoOn(w, pc)
  BY <1>1, SameAuthority DEF GoOn
<1>2. ASSUME NEW t, t = view[w].handle, NEW L, L = ledgers[t],
             NEW e \in Events, NEW pc \in Locked, AppendThen(w, e, pc), May(L, e)
      PROVE  [Authority!Next]_Authority!tasksVars
  <2>1. t \in DOMAIN rows /\ rows[t].active /\ t \in DOMAIN ledgers /\ t \in Tasks /\ TypeOK
    BY <1>2 DEF UnderLease, IInv, TypeOK
  <2>2. L \in Seq(Events) /\ Shape(L) /\ May(L, e)
    BY <1>2, <2>1 DEF IInv, TypeOK
  <2>3. UNCHANGED rows /\ ledgers' = [ledgers EXCEPT ![t] = Append(L, e)]
    BY <1>2 DEF AppendThen, Append1
  <2>4. LedgerOf(t) = L /\ LedgerOf(t)' = Append(L, e) /\ DOMAIN ledgers' = DOMAIN ledgers
        /\ \A u \in Tasks : u # t => LedgerOf(u)' = LedgerOf(u)
    BY <1>2, <2>1, <2>3 DEF LedgerOf
  <2>5. Len(Append(L, e)) = Len(L) + 1
    BY <2>2, AppendProperties
  <2>6. /\ Recover(L).kind = Says(L) /\ Recover(Append(L, e)).kind = Says(Append(L, e))
        /\ Says(Append(L, e)) \in Authority!Follows(Says(L))
    <3>1. Append(L, e) \in Seq(Events) /\ Shape(Append(L, e))
      BY <2>2, ShapeAppend
    <3>2. Recover(L) = [kind |-> Says(L), seq |-> Len(L)]
      BY <2>2, RecoverSays
    <3>3. Recover(Append(L, e)) = [kind |-> Says(Append(L, e)), seq |-> Len(Append(L, e))]
      BY <3>1, RecoverSays
    <3>4. Says(Append(L, e)) \in Authority!Follows(Says(L))
      BY <2>2, SaysFollows
    <3> QED
      BY <3>2, <3>3, <3>4
  <2>7. [u \in Tasks |-> Len(LedgerOf(u)')]
          = [[u \in Tasks |-> Len(LedgerOf(u))] EXCEPT ![t] = Len(LedgerOf(t)) + 1]
    BY <2>1, <2>4, <2>5
  <2>8. [u \in Tasks |-> Recover(LedgerOf(u)').kind]
          = [[u \in Tasks |-> Recover(LedgerOf(u)).kind] EXCEPT ![t] = Says(Append(L, e))]
    BY <2>1, <2>4, <2>6
  <2>9. t \in Authority!Open
    BY <2>1, OpenIs
  <2>10. \A i \in Identities : ActiveOf(i)' = ActiveOf(i)
    BY <2>3 DEF ActiveOf
  <2>11. Authority!Decide(t)
    BY <2>1, <2>3, <2>4, <2>6, <2>7, <2>8, <2>9, <2>10 DEF Authority!Decide
  <2> QED
    BY <2>1, <2>11 DEF Authority!Next
<1> QED
  BY <1>1, <1>2 DEF UnderLease

\* Any number of windows that race, fail and crash behave as one authority: this is the
\* abstract specification of the index and the ledgers.
THEOREM WindowsAreOneAuthority == Spec => ImplementsAuthority
<1>1. Init => Authority!Init
  <2> SUFFICES ASSUME Init PROVE Authority!Init
    OBVIOUS
  <2>1. DOMAIN rows = {} /\ DOMAIN ledgers = {}
    BY DEF Init
  <2>2. \A t \in Tasks : LedgerOf(t) = <<>>
    BY <2>1 DEF LedgerOf
  <2>3. \A i \in Identities : ActiveOf(i) = {}
    BY <2>1 DEF ActiveOf
  <2>4. Len(<<>>) = 0 /\ Recover(<<>>).kind = "empty"
    BY DEF Recover
  <2> QED
    BY <2>1, <2>2, <2>3, <2>4 DEF Authority!Init
<1>2. IInv /\ [Next]_vars => [Authority!Next]_Authority!tasksVars
  <2> SUFFICES ASSUME IInv, [Next]_vars PROVE [Authority!Next]_Authority!tasksVars
    OBVIOUS
  <2>1. CASE UNCHANGED vars
    BY <2>1, SameAuthority DEF vars
  <2>2. ASSUME NEW w \in Windows, Step(w) PROVE [Authority!Next]_Authority!tasksVars
    <3>1. CASE Locate(w) \/ Look(w)
      <4>1. UNCHANGED rows /\ (UNCHANGED ledgers \/ CreateLedger(w))
        BY <3>1 DEF Locate, Look
      <4> QED
        BY <4>1, SameAuthority, CreateIsCreate
    <3>2. CASE IndexBusy(w) \/ Check(w) \/ LeaseRefused(w) \/ Publish(w)
      BY <3>2, SameAuthority DEF IndexBusy, Check, LeaseRefused, Publish
    <3> QED
      BY <2>2, <3>1, <3>2, AllocateIsOpen, MarkIsClose, LeaseIs, CommitPassportIs,
         AppendIsDecide DEF Step
  <2>3. ASSUME NEW w \in Windows,
               \/ Fail(w) \/ Crash(w) \/ Answer(w) \/ Resume(w) \/ Retract(w)
               \/ \E d \in Drafts : Initial(w, d)
               \/ \E i \in Identities : Start(w, i) \/ Replan(w, i) \/ ReplanNothing(w, i)
        PROVE  [Authority!Next]_Authority!tasksVars
    <3>1. UNCHANGED <<rows, ledgers>>
      BY <2>3 DEF Fail, Crash, Answer, Resume, Retract, OnRecord, Initial, Start, Replan,
                  ReplanNothing, Ask
    <3> QED
      BY <3>1, SameAuthority
  <2> QED
    BY <2>1, <2>2, <2>3 DEF Next
<1> QED
  BY <1>1, <1>2, Inductive, PTL DEF Spec, ImplementsAuthority, Authority!Spec
==============================================================================
