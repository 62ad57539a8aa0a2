------------------------ MODULE DecisionLedger_proofs ------------------------
(***************************************************************************)
(* Proofs about DecisionLedger, for any set of connections and any bound:  *)
(* types, a connection whose verification counts has verified the whole    *)
(* file (VerifiedMeansCurrent), the file is a VerifiedLog, a request has   *)
(* one open question, a bundle is the whole ledger of one moment, and only *)
(* the commits of others make an integrity error.                          *)
(***************************************************************************)
EXTENDS DecisionLedger, SequenceTheorems, TLAPS

(* What a connection that is about to decide depends on. *)
Loaded == {"v_links", "v_derived", "v_rebuild", "v_again", "v_accept"}
Goals  == {"head", "request", "winner", "x_arts", "x_events", "x_head"}

ConnInv(k, D) ==
  /\ k.moved => k.stale
  /\ k.pc \in {"closed", "schema"} => k.stale
  /\ k.stale \/ (k.known = {Len(D.events)} /\ D.derived = Replay(D.events))
  /\ k.pc \in Loaded /\ ~k.moved => k.read.events = D.events
  /\ k.pc = "v_accept" /\ ~k.moved => D.derived = Replay(D.events)
  /\ k.pc = "write" => ~k.stale
  /\ k.pc \in {"begin", "write"} => k.batch # <<>>
  /\ k.pc = "check" => k.goal \in Goals
  /\ k.pc \in {"head", "request"} => k.op \in Writing
  /\ k.pc = "check" /\ k.goal \in {"head", "request"} => k.op \in Writing

OneWriter == \A c, d \in lock : c = d

IInv ==
  /\ TypeOK
  /\ OneWriter
  /\ \A c \in Conns : ConnInv(conn[c], db)

------------------------------------------------------------------------------
(* The data.                                                               *)

LEMMA LastType ==
  ASSUME NEW E \in Seq(Events), E # <<>>
  PROVE  Last(E) \in Events
<1>1. Len(E) \in Nat /\ Len(E) # 0
  BY EmptySeq
<1>2. Len(E) \in 1 .. Len(E)
  BY <1>1
<1>. QED  BY <1>2, ElementOfSeq DEF Last

LEMMA HeadType == \A E \in Seq(Events) : HeadOf(E) \in Heads
  BY LastType DEF HeadOf, Heads, Genesis, Events

LEMMA ReplayType == \A E \in Seq(Events) : Replay(E) \in Deriveds
<1> SUFFICES ASSUME NEW E \in Seq(Events) PROVE Replay(E) \in Deriveds
  OBVIOUS
<1>1. HeadOf(E) \in Heads
  BY HeadType
<1>2. (IF E = <<>> THEN 0 ELSE Last(E).snapshot) \in Nat
  BY LastType DEF Events
<1>3. {e.hash : e \in {f \in ToSet(E) : f.kind = "imported"}} \in SUBSET Nat
  <2>1. \A e \in ToSet(E) : e \in Events
    BY ElementOfSeq DEF ToSet
  <2>. QED  BY <2>1 DEF Events
<1>. QED  BY <1>1, <1>2, <1>3 DEF Replay, Deriveds

LEMMA EmptyTypes ==
  /\ NoRead \in Files
  /\ \A o \in Outcomes : Closed(o) \in Conn
<1>1. <<>> \in Seq(Events)
  OBVIOUS
<1>2. NoRead \in Files
  BY <1>1, ReplayType DEF NoRead, Files
<1>. QED  BY <1>1, <1>2 DEF Closed, Conn, Steps, Ops

(* A commit that is built is a sequence of events, and not an empty one. *)
LEMMA BatchType ==
  ASSUME NEW op \in Writing, NEW head \in Heads, NEW request \in Nat, NEW passport \in Nat
  PROVE  Batch(op, head, request, passport) \in Seq(Events) \ {<<>>}
<1> DEFINE n == head.seq + 1
           m == n + 1
           first(kind, subjects, snapshot, of) ==
             Event(n, head.hash, kind, subjects, snapshot, of)
           second(kind, subjects, snapshot) == Event(m, n, kind, subjects, snapshot, 0)
<1>0. n \in Nat /\ m \in Nat /\ head.hash \in Nat
  BY DEF Heads
<1>1. \A kind \in Kinds, subjects \in SUBSET Nat, snapshot \in Nat, of \in Nat :
        first(kind, subjects, snapshot, of) \in Events
  BY <1>0 DEF Event, Events
<1>2. \A kind \in Kinds, subjects \in SUBSET Nat, snapshot \in Nat :
        second(kind, subjects, snapshot) \in Events
  BY <1>0 DEF Event, Events
<1>3. \A e \in Events : <<e>> \in Seq(Events) \ {<<>>}
  OBVIOUS
<1>4. \A e, f \in Events : <<e, f>> \in Seq(Events) \ {<<>>}
  OBVIOUS
<1> HIDE DEF n, m, first, second
<1>5. CASE op = "initialize"
  <2>1. Batch(op, head, request, passport) = <<first("created", {n}, n, 0)>>
    BY <1>5 DEF Batch, first, second, n, m
  <2>. QED  BY <2>1, <1>0, <1>1, <1>3 DEF Kinds
<1>6. CASE op = "import"
  <2>1. Batch(op, head, request, passport)
          = <<first("created", {n}, n, 0), second("imported", {n, m}, n)>>
    BY <1>6 DEF Batch, first, second, n, m
  <2>. QED  BY <2>1, <1>0, <1>1, <1>2, <1>4 DEF Kinds
<1>7. CASE op = "decide"
  <2> DEFINE says == IF request \in Asks THEN "asked" ELSE "concluded"
  <2>1. Batch(op, head, request, passport) = <<first(says, {request, n}, request, 0)>>
    BY <1>7 DEF Batch, first, second, n, m
  <2>2. says \in Kinds
    BY DEF Kinds, Passports
  <2>. QED  BY <2>1, <2>2, <1>0, <1>1, <1>3
<1>8. CASE op = "answer"
  <2>1. Batch(op, head, request, passport) = <<first("answered", {passport, n}, n, passport)>>
    BY <1>8 DEF Batch, first, second, n, m
  <2>. QED  BY <2>1, <1>0, <1>1, <1>3 DEF Kinds
<1>9. CASE op = "accept"
  <2>1. Batch(op, head, request, passport)
          = <<first("answered", {request, passport, n}, request, passport),
              second("accepted", {m}, m)>>
    BY <1>9 DEF Batch, first, second, n, m
  <2>. QED  BY <2>1, <1>0, <1>1, <1>2, <1>4 DEF Kinds
<1>10. CASE op = "retract"
  <2>1. Batch(op, head, request, passport) = <<first("retracted", {request}, request, passport)>>
    BY <1>10 DEF Batch, first, second, n, m
  <2>. QED  BY <2>1, <1>0, <1>1, <1>3 DEF Kinds
<1>. QED  BY <1>5, <1>6, <1>7, <1>8, <1>9, <1>10 DEF Writing, Founding

(* What a concatenation of events consists of. *)
LEMMA ConcatItems ==
  ASSUME NEW E \in Seq(Events), NEW B \in Seq(Events)
  PROVE  /\ E \o B \in Seq(Events) /\ Len(E \o B) = Len(E) + Len(B)
         /\ Len(E) \in Nat /\ Len(B) \in Nat
         /\ \A i \in 1 .. Len(E) : (E \o B)[i] = E[i]
         /\ \A i \in 1 .. Len(B) : (E \o B)[Len(E) + i] = B[i]
         /\ \A i \in 1 .. Len(E \o B) :
              i \in 1 .. Len(E) \/ (i - Len(E) \in 1 .. Len(B) /\ i > Len(E))
  OBVIOUS

LEMMA SetOf == \A E \in Seq(Events) : ToSet(E) = {E[i] : i \in 1 .. Len(E)}
<1> SUFFICES ASSUME NEW E \in Seq(Events) PROVE ToSet(E) = {E[i] : i \in 1 .. Len(E)}
  OBVIOUS
<1>1. DOMAIN E = 1 .. Len(E)
  OBVIOUS
<1>. QED  BY <1>1 DEF ToSet

LEMMA ConcatSet ==
  ASSUME NEW E \in Seq(Events), NEW B \in Seq(Events)
  PROVE  ToSet(E \o B) = ToSet(E) \union ToSet(B)
<1> DEFINE s == E \o B
<1>1. /\ s \in Seq(Events) /\ Len(s) = Len(E) + Len(B)
      /\ Len(E) \in Nat /\ Len(B) \in Nat
      /\ \A i \in 1 .. Len(E) : s[i] = E[i]
      /\ \A i \in 1 .. Len(B) : s[Len(E) + i] = B[i]
      /\ \A i \in 1 .. Len(s) :
           i \in 1 .. Len(E) \/ (i - Len(E) \in 1 .. Len(B) /\ i > Len(E))
  BY ConcatItems
<1> HIDE DEF s
<1>2. /\ ToSet(s) = {s[i] : i \in 1 .. Len(s)}
      /\ ToSet(E) = {E[i] : i \in 1 .. Len(E)}
      /\ ToSet(B) = {B[i] : i \in 1 .. Len(B)}
  BY <1>1, SetOf
<1>3. ASSUME NEW i \in 1 .. Len(s) PROVE s[i] \in ToSet(E) \union ToSet(B)
  <2>1. CASE i \in 1 .. Len(E)
    <3>1. s[i] = E[i]
      BY <1>1, <2>1
    <3>. QED  BY <1>2, <2>1, <3>1
  <2>2. CASE i \notin 1 .. Len(E)
    <3> DEFINE j == i - Len(E)
    <3>1. j \in 1 .. Len(B) /\ i = Len(E) + j
      BY <1>1, <2>2
    <3>2. s[i] = B[j]
      BY <1>1, <3>1
    <3>. QED  BY <1>2, <3>1, <3>2
  <2>. QED  BY <2>1, <2>2
<1>4. ASSUME NEW i \in 1 .. Len(E) PROVE E[i] \in ToSet(s)
  BY <1>1, <1>2
<1>5. ASSUME NEW i \in 1 .. Len(B) PROVE B[i] \in ToSet(s)
  <2>1. Len(E) + i \in 1 .. Len(s) /\ s[Len(E) + i] = B[i]
    BY <1>1
  <2>. QED  BY <1>2, <2>1
<1>. QED  BY <1>2, <1>3, <1>4, <1>5 DEF s

(* The rows that an append leaves are the replay of what it leaves. *)
LEMMA AppendKeepsReplay ==
  ASSUME NEW E \in Seq(Events), NEW B \in Seq(Events)
  PROVE  [Replay(E \o B) EXCEPT !.imports = Replay(E).imports \union Replay(B).imports]
           = Replay(E \o B)
<1> DEFINE imports(F) == {e.hash : e \in {f \in ToSet(F) : f.kind = "imported"}}
<1>1. ToSet(E \o B) = ToSet(E) \union ToSet(B)
  BY ConcatSet
<1>2. imports(E \o B) = imports(E) \union imports(B)
  BY <1>1
<1>3. \A F : Replay(F) = [head |-> HeadOf(F), imports |-> imports(F),
                         snapshot |-> IF F = <<>> THEN 0 ELSE Last(F).snapshot]
  BY DEF Replay
<1> HIDE DEF imports
<1>. QED  BY <1>2, <1>3

------------------------------------------------------------------------------
(* What one connection does to itself.                                     *)

(* A connection moves on and the database stays as it is. *)
LEMMA Moves ==
  ASSUME IInv, NEW c \in Conns, NEW k \in Conn, Put(c, k), ConnInv(k, db),
         conn[c].pc # "write", k.pc # "write",
         file' \in {"absent", "blank", "ledger"}, UNCHANGED <<db, lock>>,
         bundle' \in [head : Heads, arts : SUBSET Nat, events : Seq(Events)]
  PROVE  IInv'
<1>1. /\ conn' \in [Conns -> Conn]
      /\ conn'[c] = k
      /\ \A d \in Conns \ {c} : conn'[d] = conn[d]
  BY DEF IInv, TypeOK, Put
<1>2. lock' = {d \in Conns : conn'[d].pc = "write"}
  BY <1>1 DEF IInv, TypeOK
<1>3. TypeOK'
  BY <1>1, <1>2 DEF IInv, TypeOK
<1>4. \A d \in Conns : ConnInv(conn'[d], db)
  BY <1>1 DEF IInv
<1>5. (\A d \in Conns : ConnInv(conn[d], db))'
  BY <1>4 DEF ConnInv
<1>. QED  BY <1>3, <1>5 DEF IInv, OneWriter

(* What IInv says of the connection that acts. *)
LEMMA Acting ==
  ASSUME IInv, NEW c \in Conns
  PROVE  /\ conn[c] \in Conn /\ ConnInv(conn[c], db) /\ db \in Files
         /\ file \in {"absent", "blank", "ledger"}
         /\ bundle \in [head : Heads, arts : SUBSET Nat, events : Seq(Events)]
  BY DEF IInv, TypeOK

(* A connection that ends. *)
LEMMA EndsKeeps ==
  ASSUME IInv, NEW c \in Conns, NEW o \in Outcomes, Ends(c, o),
         conn[c].pc # "write", UNCHANGED <<file, db, lock, bundle>>
  PROVE  IInv'
<1>1. Closed(o) \in Conn /\ Closed(o).pc = "closed" /\ Closed(o).stale
  BY EmptyTypes DEF Closed
<1>2. ConnInv(Closed(o), db)
  BY <1>1 DEF ConnInv, Closed, Loaded
<1>. QED  BY <1>1, <1>2, Moves, Acting DEF Ends

(* Verification begins anew. *)
LEMMA VerifyForKeeps ==
  ASSUME IInv, NEW c \in Conns, NEW op \in Ops, VerifyFor(c, op),
         conn[c].pc # "write",
         file' \in {"absent", "blank", "ledger"}, UNCHANGED <<db, lock, bundle>>
  PROVE  IInv'
<1> DEFINE k == [conn[c] EXCEPT !.pc = "v_arts", !.op = op, !.moved = FALSE,
                                !.read = NoRead, !.batch = <<>>]
<1>0. <<>> \in Seq(Events) /\ NoRead \in Files
  BY EmptyTypes
<1>1. k \in Conn
  BY <1>0, Acting DEF Conn, Steps
<1>2. ConnInv(k, db)
  BY Acting DEF ConnInv, Loaded, Conn
<1>. QED  BY <1>1, <1>2, Moves, Acting DEF VerifyFor, Conn

(* A step that only changes where a connection is. *)
LEMMA GotoKeeps ==
  ASSUME IInv, NEW c \in Conns, NEW pc \in Steps, Goto(c, pc),
         conn[c].pc # "write", pc # "write",
         file' \in {"absent", "blank", "ledger"}, UNCHANGED <<db, lock, bundle>>,
         ConnInv([conn[c] EXCEPT !.pc = pc], db)
  PROVE  IInv'
<1> DEFINE k == [conn[c] EXCEPT !.pc = pc]
<1>1. k \in Conn /\ k.pc = pc
  BY Acting DEF Conn
<1>. QED  BY <1>1, Moves, Acting DEF Goto

(* An action that moves a connection on, by the record it leaves. *)
LEMMA PutKeeps ==
  ASSUME IInv, NEW c \in Conns, NEW k \in Conn, Put(c, k), ConnInv(k, db),
         conn[c].pc # "write", k.pc # "write", UNCHANGED <<file, db, lock, bundle>>
  PROVE  IInv'
  BY Moves, Acting

------------------------------------------------------------------------------
(* The actions, in the order of the module.                                *)

LEMMA OpeningKeeps ==
  ASSUME IInv, NEW c \in Conns, Create(c) \/ CreateSchema(c) \/ Open(c)
  PROVE  IInv'
<1>1. CASE Create(c)
  <2>1. ConnInv([conn[c] EXCEPT !.pc = "schema"], db)
    BY <1>1, Acting DEF Create, ConnInv, Conn, Loaded
  <2>. QED  BY <1>1, <2>1, GotoKeeps DEF Create, Steps
<1>2. CASE CreateSchema(c)
  BY <1>2, VerifyForKeeps DEF CreateSchema, Ops
<1>3. CASE Open(c)
  <2>1. CASE file = "ledger"
    BY <1>3, <2>1, VerifyForKeeps, Acting DEF Open, Ops
  <2>2. CASE file # "ledger"
    BY <1>3, <2>2, EndsKeeps DEF Open, Outcomes
  <2>. QED  BY <2>1, <2>2
<1>. QED  BY <1>1, <1>2, <1>3

LEMMA ReadingKeeps ==
  ASSUME IInv, NEW c \in Conns, ReadArtifacts(c) \/ ReadEvents(c)
  PROVE  IInv'
<1>1. CASE ReadArtifacts(c)
  <2> DEFINE k == [conn[c] EXCEPT !.pc = "v_events", !.read.arts = db.arts]
  <2>0. [conn[c].read EXCEPT !.arts = db.arts] \in Files
    BY Acting DEF Conn, Files
  <2>1. k \in Conn
    BY <2>0, Acting DEF Conn, Steps
  <2>2. ConnInv(k, db)
    BY <1>1, Acting DEF ReadArtifacts, ConnInv, Conn, Loaded
  <2>3. k.pc # "write" /\ conn[c].pc # "write"
    BY <1>1, Acting DEF ReadArtifacts, Conn
  <2>. QED  BY <1>1, <2>1, <2>2, <2>3, PutKeeps DEF ReadArtifacts
<1>2. CASE ReadEvents(c)
  <2> DEFINE k == [conn[c] EXCEPT !.pc = "v_links", !.read.events = db.events]
  <2>0. [conn[c].read EXCEPT !.events = db.events] \in Files
    BY Acting DEF Conn, Files
  <2>1. k \in Conn
    BY <2>0, Acting DEF Conn, Steps
  <2>2. k.read.events = db.events
    BY Acting DEF Conn, Files
  <2>3. ConnInv(k, db)
    BY <1>2, <2>2, Acting DEF ReadEvents, ConnInv, Conn, Loaded
  <2>4. k.pc # "write" /\ conn[c].pc # "write"
    BY <1>2, Acting DEF ReadEvents, Conn
  <2>. QED  BY <1>2, <2>1, <2>3, <2>4, PutKeeps DEF ReadEvents
<1>. QED  BY <1>1, <1>2

(* A verdict of the verification: on to the next read, or the end. *)
LEMMA VerdictKeeps ==
  ASSUME IInv, NEW c \in Conns,
         ReadRelationships(c) \/ ReadDerived(c) \/ ReadDerivedAgain(c)
  PROVE  IInv'
<1>1. CASE ReadRelationships(c)
  <2>1. ConnInv([conn[c] EXCEPT !.pc = "v_derived"], db)
    BY <1>1, Acting DEF ReadRelationships, ConnInv, Conn, Loaded
  <2>2. Goto(c, "v_derived") \/ Ends(c, "integrity")
    BY <1>1 DEF ReadRelationships
  <2>. QED  BY <1>1, <2>1, <2>2, GotoKeeps, EndsKeeps, Acting
            DEF ReadRelationships, Steps, Outcomes
<1>2. CASE ReadDerived(c)
  <2>1. CASE db.derived = Replay(conn[c].read.events)
    <3>1. ConnInv([conn[c] EXCEPT !.pc = "v_accept"], db)
      BY <1>2, <2>1, Acting DEF ReadDerived, ConnInv, Conn, Loaded
    <3>. QED  BY <1>2, <2>1, <3>1, GotoKeeps, Acting DEF ReadDerived, Steps
  <2>2. CASE db.derived # Replay(conn[c].read.events)
    <3>1. ConnInv([conn[c] EXCEPT !.pc = "v_rebuild"], db)
      BY <1>2, Acting DEF ReadDerived, ConnInv, Conn, Loaded
    <3>. QED  BY <1>2, <2>2, <3>1, GotoKeeps, Acting DEF ReadDerived, Steps
  <2>. QED  BY <2>1, <2>2
<1>3. CASE ReadDerivedAgain(c)
  <2>1. CASE db.derived = Replay(conn[c].read.events)
    <3>1. ConnInv([conn[c] EXCEPT !.pc = "v_accept"], db)
      BY <1>3, <2>1, Acting DEF ReadDerivedAgain, ConnInv, Conn, Loaded
    <3>. QED  BY <1>3, <2>1, <3>1, GotoKeeps, Acting DEF ReadDerivedAgain, Steps
  <2>2. CASE db.derived # Replay(conn[c].read.events)
    BY <1>3, <2>2, EndsKeeps DEF ReadDerivedAgain, Outcomes
  <2>. QED  BY <2>1, <2>2
<1>. QED  BY <1>1, <1>2, <1>3

(* The records that a connection may have between its jobs. *)
LEMMA ReadyType ==
  ASSUME IInv, NEW c \in Conns, NEW o \in Outcomes
  PROVE  /\ Ready(c, o) \in Conn
         /\ Ready(c, o).pc = "ready" /\ Ready(c, o).goal = "none"
         /\ Ready(c, o).stale = conn[c].stale /\ Ready(c, o).known = conn[c].known
         /\ Ready(c, o).moved = conn[c].moved
         /\ ConnInv(Ready(c, o), db)
<1>0. /\ <<>> \in Seq(Events) /\ NoRead \in Files /\ conn[c] \in Conn
      /\ "ready" \in Steps /\ "none" \in Ops
  BY EmptyTypes, Acting DEF Steps, Ops
<1>1. Ready(c, o) \in Conn
  BY <1>0 DEF Ready, Conn
<1>2. /\ Ready(c, o).pc = "ready" /\ Ready(c, o).goal = "none"
      /\ Ready(c, o).stale = conn[c].stale /\ Ready(c, o).known = conn[c].known
      /\ Ready(c, o).moved = conn[c].moved
  BY Acting DEF Ready, Conn
<1> DEFINE k == Ready(c, o)
<1>3. ConnInv(k, db)
  <2> HIDE DEF k
  <2>1. /\ k.pc = "ready" /\ k.stale = conn[c].stale /\ k.known = conn[c].known
        /\ k.moved = conn[c].moved
    BY <1>2 DEF k
  <2>. QED  BY <2>1, Acting DEF ConnInv, Loaded
<1>. QED  BY <1>1, <1>2, <1>3

(* The report of a verification counts, or the connection ends. *)
LEMMA AcceptKeeps ==
  ASSUME IInv, NEW c \in Conns, Accept(c)
  PROVE  /\ IInv'
         /\ ~conn[c].moved => conn'[c].known = {Len(db.events)}
<1> DEFINE v == [Ready(c, "verified") EXCEPT !.stale = FALSE,
                                             !.known = {Len(conn[c].read.events)}]
           k == CASE conn[c].op = "adopt"  ->
                       [v EXCEPT !.pc = "check", !.op = "adopt",
                                 !.goal = "winner", !.request = conn[c].request]
                  [] conn[c].op = "export" ->
                       [v EXCEPT !.pc = "check", !.op = "export", !.goal = "x_arts"]
                  [] OTHER                 -> v
<1>1. CASE conn[c].moved
  BY <1>1, EndsKeeps DEF Accept, Outcomes
<1>2. CASE ~conn[c].moved
  <2>1. conn[c].read.events = db.events /\ db.derived = Replay(db.events)
    BY <1>2, Acting DEF Accept, ConnInv, Loaded
  <2>2. Len(db.events) \in Nat
    BY Acting DEF Files
  <2>3. /\ Ready(c, "verified") \in Conn /\ Ready(c, "verified").pc = "ready"
        /\ Ready(c, "verified").goal = "none" /\ ~Ready(c, "verified").moved
    BY <1>2, ReadyType DEF Outcomes
  <2>4. /\ v \in Conn /\ v.pc = "ready" /\ v.goal = "none" /\ ~v.moved /\ ~v.stale
        /\ v.known = {Len(db.events)}
    BY <2>1, <2>2, <2>3 DEF Conn
  <2>5. /\ k \in Conn /\ ~k.moved /\ ~k.stale /\ k.known = {Len(db.events)}
        /\ k.pc = "ready" \/ (k.pc = "check" /\ k.goal \in {"winner", "x_arts"})
    <3> HIDE DEF v
    <3>1. CASE conn[c].op = "adopt"
      BY <2>4, <3>1, Acting DEF Conn, Steps, Ops
    <3>2. CASE conn[c].op = "export"
      BY <2>4, <3>2, Acting DEF Conn, Steps, Ops
    <3>3. CASE conn[c].op \notin {"adopt", "export"}
      BY <2>4, <3>3
    <3>. QED  BY <3>1, <3>2, <3>3
  <2>6. Put(c, k)
    BY <1>2 DEF Accept
  <2> HIDE DEF k, v
  <2>7. ConnInv(k, db)
    BY <2>1, <2>5 DEF ConnInv, Loaded, Goals
  <2>8. conn'[c] = k
    BY <2>6 DEF Put, IInv, TypeOK
  <2>9. IInv'
    BY <2>5, <2>6, <2>7, PutKeeps DEF Accept
  <2>. QED  BY <2>5, <2>8, <2>9
<1>. QED  BY <1>1, <1>2

LEMMA CallsKeep ==
  ASSUME IInv, NEW c \in Conns,
         Verify(c) \/ Export(c) \/ Close(c) \/ \E op \in Writing : Promote(c, op)
  PROVE  IInv'
<1>1. CASE Verify(c)
  BY <1>1, VerifyForKeeps, Acting DEF Verify, Ops
<1>2. CASE Export(c)
  BY <1>2, VerifyForKeeps, Acting DEF Export, Ops
<1>3. CASE Close(c)
  BY <1>3, EndsKeeps DEF Close, Outcomes
<1>4. ASSUME NEW op \in Writing, Promote(c, op) PROVE IInv'
  <2> DEFINE k == [conn[c] EXCEPT !.pc = "check", !.op = op, !.goal = "head"]
  <2>0. conn[c] \in Conn /\ op \in Ops /\ "check" \in Steps /\ "head" \in Steps
    BY Acting DEF Steps, Ops
  <2>1. k \in Conn /\ k.pc = "check"
    BY <2>0 DEF Conn
  <2>2. ConnInv(k, db)
    BY Acting, <1>4 DEF Promote, ConnInv, Conn, Loaded, Goals
  <2>. QED  BY <1>4, <2>1, <2>2, PutKeeps DEF Promote
<1>. QED  BY <1>1, <1>2, <1>3, <1>4

LEMMA RequireVerifiedKeeps ==
  ASSUME IInv, NEW c \in Conns, RequireVerified(c)
  PROVE  IInv'
<1>1. CASE conn[c].stale
  BY <1>1, EndsKeeps DEF RequireVerified, Outcomes
<1>2. CASE ~conn[c].stale
  <2> DEFINE pc == conn[c].goal
  <2>1. pc \in Goals
    BY Acting DEF RequireVerified, ConnInv
  <2>2. pc \in Steps /\ pc \notin {"write", "check", "begin", "schema", "closed"} \union Loaded
    BY <2>1 DEF Goals, Steps, Loaded
  <2>3. ConnInv([conn[c] EXCEPT !.pc = pc], db)
    <3> HIDE DEF pc
    <3>1. pc \in {"head", "request"} => conn[c].op \in Writing
      BY Acting DEF RequireVerified, ConnInv, pc
    <3>. QED  BY <2>2, <3>1, Acting DEF ConnInv, Conn, Loaded
  <2>. QED  BY <1>2, <2>2, <2>3, GotoKeeps, Acting DEF RequireVerified
<1>. QED  BY <1>1, <1>2

(* A read between two checks of the version. *)
LEMMA ThenKeeps ==
  ASSUME IInv, NEW c \in Conns, NEW read \in Files, NEW goal \in Goals,
         Put(c, Then(goal, [conn[c] EXCEPT !.read = read])),
         conn[c].pc \in Goals, goal = "request" => conn[c].op \in Writing, goal # "head",
         UNCHANGED <<file, db, lock, bundle>>
  PROVE  IInv'
<1> DEFINE k == Then(goal, [conn[c] EXCEPT !.read = read])
<1>1. k = [conn[c] EXCEPT !.read = read, !.pc = "check", !.goal = goal]
  BY DEF Then
<1>0. conn[c] \in Conn /\ "check" \in Steps /\ goal \in Steps
  BY Acting DEF Steps, Goals
<1>2. k \in Conn /\ k.pc = "check" /\ k.goal = goal
  BY <1>0, <1>1 DEF Conn
<1>5. /\ k.moved = conn[c].moved /\ k.stale = conn[c].stale
      /\ k.known = conn[c].known /\ k.op = conn[c].op
  BY <1>0, <1>1 DEF Conn
<1> HIDE DEF k
<1>3. ConnInv(k, db)
  BY <1>2, <1>5, Acting DEF ConnInv, Loaded
<1>4. conn[c].pc # "write"
  BY DEF Goals
<1>. QED  BY <1>2, <1>3, <1>4, PutKeeps DEF k

LEMMA ReadsKeep ==
  ASSUME IInv, NEW c \in Conns, ReadHead(c) \/ ExportArtifacts(c) \/ ExportEvents(c)
  PROVE  IInv'
<1>1. CASE ReadHead(c)
  <2> DEFINE read == [conn[c].read EXCEPT !.derived = db.derived]
  <2>1. read \in Files
    BY Acting DEF Conn, Files
  <2>2. [conn[c] EXCEPT !.read.derived = db.derived] = [conn[c] EXCEPT !.read = read]
    BY Acting DEF Conn
  <2>3. conn[c].op \in Writing
    BY <1>1, Acting DEF ReadHead, Read, ConnInv
  <2>. QED  BY <1>1, <2>1, <2>2, <2>3, ThenKeeps DEF ReadHead, Read, Goals
<1>2. CASE ExportArtifacts(c)
  <2> DEFINE read == [conn[c].read EXCEPT !.arts = db.arts]
  <2>1. read \in Files
    BY Acting DEF Conn, Files
  <2>2. [conn[c] EXCEPT !.read.arts = db.arts] = [conn[c] EXCEPT !.read = read]
    BY Acting DEF Conn
  <2>. QED  BY <1>2, <2>1, <2>2, ThenKeeps DEF ExportArtifacts, Read, Goals
<1>3. CASE ExportEvents(c)
  <2> DEFINE read == [conn[c].read EXCEPT !.events = db.events]
  <2>1. read \in Files
    BY Acting DEF Conn, Files
  <2>2. [conn[c] EXCEPT !.read.events = db.events] = [conn[c] EXCEPT !.read = read]
    BY Acting DEF Conn
  <2>. QED  BY <1>3, <2>1, <2>2, ThenKeeps DEF ExportEvents, Read, Goals
<1>. QED  BY <1>1, <1>2, <1>3

(* A connection that is ready again. *)
LEMMA ReadyKeeps ==
  ASSUME IInv, NEW c \in Conns, NEW o \in Outcomes, Put(c, Ready(c, o)),
         conn[c].pc # "write", UNCHANGED <<file, db, lock>>,
         bundle' \in [head : Heads, arts : SUBSET Nat, events : Seq(Events)]
  PROVE  IInv'
  BY ReadyType, Moves, Acting

(* Passports that are to be answered or retracted are unclosed events of the ledger. *)
LEMMA UnclosedEvents ==
  ASSUME NEW E, NEW request, NEW e,
         e \in Outstanding(E, request) \/ e \in Retractable(E, request)
  PROVE  e \in ToSet(E) /\ \A f \in ToSet(E) : f.of # e.hash
BY DEF Outstanding, Retractable, Unclosed, Committed

LEMMA ReadRequestKeeps ==
  ASSUME IInv, NEW c \in Conns, ReadRequest(c)
  PROVE  IInv'
<1> DEFINE head    == conn[c].read.derived.head
           request == db.derived.snapshot
           Build(passport) ==
             Put(c, [conn[c] EXCEPT !.pc = "begin", !.request = request,
                                    !.batch = Batch(conn[c].op, head, request, passport)])
<1>1. head \in Heads /\ request \in Nat /\ conn[c].op \in Writing
  BY Acting DEF ReadRequest, Conn, Files, Deriveds, ConnInv
<1>2. \A e \in ToSet(db.events) : e.hash \in Nat
  <2>1. \A e \in ToSet(db.events) : e \in Events
    BY Acting, ElementOfSeq DEF ToSet, Files
  <2>. QED  BY <2>1 DEF Events
<1>3. ASSUME NEW passport \in Nat, Build(passport) PROVE IInv'
  <2> DEFINE batch == Batch(conn[c].op, head, request, passport)
             k == [conn[c] EXCEPT !.pc = "begin", !.request = request, !.batch = batch]
  <2>1. batch \in Seq(Events) /\ batch # <<>>
    BY <1>1, BatchType
  <2> HIDE DEF batch, request
  <2>2. k \in Conn /\ k.pc = "begin" /\ k.batch = batch
    BY <1>1, <2>1, Acting DEF Conn, Steps
  <2>3. ConnInv(k, db)
    BY <2>1, <2>2, Acting DEF ConnInv, Conn, Loaded
  <2>4. Put(c, k)
    BY <1>3 DEF request, batch
  <2>. QED  BY <2>2, <2>3, <2>4, PutKeeps DEF ReadRequest
<1>4. CASE Ends(c, "rejected")
  BY <1>4, EndsKeeps DEF ReadRequest, Outcomes
<1>5. CASE Put(c, Ready(c, "adopted"))
  BY <1>5, ReadyKeeps, Acting DEF ReadRequest, Outcomes
<1>6. \/ Ends(c, "rejected")
      \/ Put(c, Ready(c, "adopted"))
      \/ Build(0)
      \/ \E e \in ToSet(db.events) : Build(e.hash)
  BY <1>1, UnclosedEvents DEF ReadRequest
<1> HIDE DEF Build
<1>. QED  BY <1>2, <1>3, <1>4, <1>5, <1>6

(* append takes the lock only for a connection whose verification counts. *)
LEMMA BeginKeeps ==
  ASSUME IInv, NEW c \in Conns, Begin(c)
  PROVE  IInv'
<1>1. CASE Ends(c, "integrity") /\ UNCHANGED lock
  BY <1>1, EndsKeeps DEF Begin, Outcomes
<1>2. CASE Ends(c, "conflict") /\ UNCHANGED lock
  BY <1>2, EndsKeeps DEF Begin, Outcomes
<1>3. CASE VerifyFor(c, "adopt") /\ UNCHANGED lock
  BY <1>3, VerifyForKeeps, Acting DEF Begin, Ops
<1>4. CASE ~conn[c].stale /\ Goto(c, "write") /\ lock' = {c}
  <2> DEFINE k == [conn[c] EXCEPT !.pc = "write"]
  <2>1. k \in Conn /\ k.pc = "write"
    BY Acting DEF Conn, Steps
  <2>2. ConnInv(k, db)
    BY <1>4, Acting DEF Begin, ConnInv, Conn, Loaded
  <2>3. /\ conn' \in [Conns -> Conn]
        /\ conn'[c] = k
        /\ \A d \in Conns \ {c} : conn'[d] = conn[d]
    BY <1>4, <2>1 DEF Goto, Put, IInv, TypeOK
  <2>4. \A d \in Conns : conn[d].pc # "write"
    BY DEF Begin, IInv, TypeOK
  <2>5. lock' = {d \in Conns : conn'[d].pc = "write"}
    BY <1>4, <2>1, <2>3, <2>4
  <2>6. TypeOK'
    BY <2>3, <2>5 DEF Begin, IInv, TypeOK
  <2>7. \A d \in Conns : ConnInv(conn'[d], db)
    BY <2>2, <2>3 DEF IInv
  <2>8. (\A d \in Conns : ConnInv(conn[d], db))'
    BY <2>7 DEF Begin, ConnInv
  <2>. QED  BY <1>4, <2>6, <2>8 DEF IInv, OneWriter
<1>. QED  BY <1>1, <1>2, <1>3, <1>4 DEF Begin

LEMMA EndingsKeep ==
  ASSUME IInv, NEW c \in Conns, Adopt(c) \/ ExportHead(c)
  PROVE  IInv'
<1>1. CASE Adopt(c)
  <2>1. Ends(c, "rejected") \/ Put(c, Ready(c, "adopted"))
    BY <1>1 DEF Adopt
  <2>. QED  BY <1>1, <2>1, EndsKeeps, ReadyKeeps, Acting DEF Adopt, Outcomes
<1>2. CASE ExportHead(c)
  <2>1. [head |-> db.derived.head, arts |-> conn[c].read.arts,
         events |-> conn[c].read.events]
          \in [head : Heads, arts : SUBSET Nat, events : Seq(Events)]
    BY Acting DEF Conn, Files, Deriveds
  <2>2. \/ Put(c, Ready(c, "exported"))
           /\ bundle' = [head |-> db.derived.head, arts |-> conn[c].read.arts,
                         events |-> conn[c].read.events]
        \/ Ends(c, "rejected") /\ UNCHANGED bundle
        \/ Ends(c, "integrity") /\ UNCHANGED bundle
    BY <1>2 DEF ExportHead
  <2>3. conn[c].pc # "write" /\ UNCHANGED <<file, db, lock>>
    BY <1>2 DEF ExportHead
  <2>4. {"exported", "rejected", "integrity"} \subseteq Outcomes
    BY DEF Outcomes
  <2>. QED  BY <2>1, <2>2, <2>3, <2>4, EndsKeeps, ReadyKeeps
<1>. QED  BY <1>1, <1>2

(* A commit of c: c itself keeps k, everybody else has noticed. *)
LEMMA NoticedKeeps ==
  ASSUME IInv, NEW c \in Conns, NEW k \in Conn, conn' = Noticed(c, k),
         k.pc # "write", ConnInv(k, db'), lock' = {},
         \A d \in Conns \ {c} : conn[d].pc # "write",
         db' \in Files, UNCHANGED <<file, bundle>>
  PROVE  IInv'
<1>1. conn'[c] = k
  BY DEF Noticed
<1>2. ASSUME NEW d \in Conns \ {c}
      PROVE  /\ conn'[d] \in Conn
             /\ conn'[d].pc # "write"
             /\ conn'[d].stale
             /\ conn'[d].pc = "closed" \/ conn'[d].moved
             /\ conn'[d].pc \in {"begin"} => conn'[d].batch # <<>>
             /\ conn'[d].pc = "check" => conn'[d].goal \in Goals
             /\ conn'[d].pc \in {"head", "request"} => conn'[d].op \in Writing
             /\ conn'[d].pc = "check" /\ conn'[d].goal \in {"head", "request"}
                  => conn'[d].op \in Writing
  <2>1. conn[d] \in Conn /\ ConnInv(conn[d], db) /\ conn[d].pc # "write"
    BY Acting
  <2>2. CASE conn[d].pc = "closed"
    <3>1. conn'[d] = conn[d]
      BY <2>2 DEF Noticed
    <3>. QED  BY <2>1, <2>2, <3>1 DEF ConnInv
  <2>3. CASE conn[d].pc # "closed"
    <3>1. conn'[d] = [conn[d] EXCEPT !.moved = TRUE, !.stale = TRUE]
      BY <2>3 DEF Noticed
    <3>2. conn'[d] \in Conn
      BY <2>1, <3>1 DEF Conn
    <3>3. /\ conn'[d].pc = conn[d].pc /\ conn'[d].moved /\ conn'[d].stale
          /\ conn'[d].batch = conn[d].batch /\ conn'[d].goal = conn[d].goal
          /\ conn'[d].op = conn[d].op
      BY <2>1, <3>1 DEF Conn
    <3>. QED  BY <2>1, <3>2, <3>3 DEF ConnInv
  <2>. QED  BY <2>2, <2>3
<1>3. \A d \in Conns \ {c} : ConnInv(conn[d], db)'
  BY <1>2 DEF ConnInv, Loaded
<1>4. conn' \in [Conns -> Conn]
  BY <1>1, <1>2 DEF Noticed
<1>5. {d \in Conns : conn'[d].pc = "write"} = {}
  BY <1>1, <1>2
<1>6. TypeOK'
  BY <1>4, <1>5 DEF IInv, TypeOK
<1>7. ConnInv(conn[c], db)'
  BY <1>1 DEF ConnInv
<1>. QED  BY <1>3, <1>6, <1>7 DEF IInv, OneWriter

(* Old rows may be written, but then nobody's verification counts. *)
LEMMA RebuildKeeps ==
  ASSUME IInv, NEW c \in Conns, RebuildDerived(c)
  PROVE  IInv'
<1> DEFINE k == [conn[c] EXCEPT !.pc = "v_again"]
<1>1. conn[c] \in Conn /\ ConnInv(conn[c], db) /\ db \in Files
  BY Acting
<1>2. k \in Conn /\ k.pc = "v_again"
  BY <1>1 DEF Conn, Steps
<1>3. /\ k.moved = conn[c].moved /\ k.stale = conn[c].stale /\ k.known = conn[c].known
      /\ k.read = conn[c].read
  BY <1>1 DEF Conn
<1>4. Replay(conn[c].read.events) \in Deriveds
  BY <1>1, ReplayType DEF Conn, Files
<1>5. db' \in Files /\ db'.events = db.events /\ db'.derived = Replay(conn[c].read.events)
  BY <1>1, <1>4 DEF RebuildDerived, Files
<1> HIDE DEF k
<1>6. ConnInv(k, db')
  BY <1>1, <1>2, <1>3, <1>5 DEF RebuildDerived, ConnInv, Loaded
<1>7. \A d \in Conns : conn[d].pc # "write"
  BY DEF RebuildDerived, IInv, TypeOK
<1>. QED  BY <1>2, <1>5, <1>6, <1>7, NoticedKeeps DEF RebuildDerived, k

(* An append leaves the replay of all events to the one that appended. *)
LEMMA CommitKeeps ==
  ASSUME IInv, NEW c \in Conns, Commit(c)
  PROVE  IInv'
<1> DEFINE events == db.events \o conn[c].batch
           k == [Ready(c, "committed") EXCEPT !.known = {Len(events)}]
<1>1. conn[c] \in Conn /\ ConnInv(conn[c], db) /\ db \in Files
  BY Acting
<1>2. db.derived = Replay(db.events) /\ ~conn[c].stale /\ ~conn[c].moved
  BY <1>1 DEF Commit, ConnInv
<1>3. events \in Seq(Events) /\ Len(events) \in Nat
  BY <1>1 DEF Conn, Files
<1>4. UNION {e.subjects : e \in ToSet(conn[c].batch)} \in SUBSET Nat
  <2>1. conn[c].batch \in Seq(Events)
    BY <1>1 DEF Conn
  <2>2. \A e \in ToSet(conn[c].batch) : e \in Events
    BY <2>1, ElementOfSeq DEF ToSet
  <2>. QED  BY <2>2 DEF Events
<1>5. db'.events = events /\ db'.derived = Replay(events)
  <2>1. conn[c].batch \in Seq(Events) /\ db.events \in Seq(Events)
    BY <1>1 DEF Conn, Files
  <2>2. [Replay(events) EXCEPT !.imports = Replay(db.events).imports
                                            \union Replay(conn[c].batch).imports]
          = Replay(events)
    BY <2>1, AppendKeepsReplay
  <2>. QED  BY <1>2, <2>2 DEF Commit
<1>6. db' \in Files
  <2>1. Replay(events) \in Deriveds
    BY <1>3, ReplayType
  <2>2. db' = [arts |-> db.arts \union UNION {e.subjects : e \in ToSet(conn[c].batch)},
               events |-> events, derived |-> Replay(events)]
    BY <1>5 DEF Commit
  <2> HIDE DEF events
  <2>. QED  BY <1>1, <1>3, <1>4, <2>1, <2>2 DEF Files
<1>7. /\ Ready(c, "committed") \in Conn /\ Ready(c, "committed").pc = "ready"
      /\ Ready(c, "committed").goal = "none"
      /\ ~Ready(c, "committed").stale /\ ~Ready(c, "committed").moved
  BY <1>2, ReadyType DEF Outcomes
<1>8. /\ k \in Conn /\ k.pc = "ready" /\ ~k.stale /\ ~k.moved /\ k.known = {Len(events)}
  BY <1>3, <1>7 DEF Conn
<1>9. conn' = Noticed(c, k) /\ lock' = {} /\ UNCHANGED <<file, bundle>>
  BY DEF Commit
<1> HIDE DEF events, k
<1>10. ConnInv(k, db')
  BY <1>5, <1>8 DEF ConnInv, Loaded
<1>11. \A d \in Conns \ {c} : conn[d].pc # "write"
  BY DEF Commit, IInv, OneWriter, TypeOK
<1>. QED  BY <1>6, <1>8, <1>9, <1>10, <1>11, NoticedKeeps

LEMMA FailKeeps ==
  ASSUME IInv, NEW c \in Conns, Fail(c)
  PROVE  IInv'
<1> DEFINE k == Closed("failure")
<1>1. k \in Conn /\ k.pc = "closed" /\ k.stale
  BY EmptyTypes DEF Closed, Outcomes
<1>2. ConnInv(k, db)
  BY <1>1 DEF ConnInv, Closed, Loaded
<1>3. /\ conn' \in [Conns -> Conn]
      /\ conn'[c] = k
      /\ \A d \in Conns \ {c} : conn'[d] = conn[d]
  BY <1>1 DEF Fail, Ends, Put, IInv, TypeOK
<1>4. lock' = {d \in Conns : conn'[d].pc = "write"}
  BY <1>1, <1>3 DEF Fail, IInv, TypeOK
<1>5. TypeOK'
  BY <1>3, <1>4 DEF Fail, IInv, TypeOK
<1>6. \A d \in Conns : ConnInv(conn'[d], db)
  BY <1>2, <1>3 DEF IInv
<1>7. (\A d \in Conns : ConnInv(conn[d], db))'
  BY <1>6 DEF Fail, ConnInv
<1>. QED  BY <1>5, <1>7 DEF Fail, IInv, OneWriter

------------------------------------------------------------------------------
(* The invariant, and what follows from it.                                *)

(* What a connection may do next. *)
Turn(c) ==
  \/ Create(c) \/ CreateSchema(c) \/ Open(c) \/ Verify(c) \/ Export(c) \/ Close(c)
  \/ \E op \in Writing : Promote(c, op)
  \/ VerifyStep(c) \/ WriteStep(c) \/ ExportStep(c) \/ Fail(c)

LEMMA InitIInv == Init => IInv
<1> SUFFICES ASSUME Init PROVE IInv
  OBVIOUS
<1>0. <<>> \in Seq(Events) /\ Genesis \in Heads
  BY DEF Genesis, Heads
<1>1. Replay(<<>>) \in Deriveds
  BY <1>0, ReplayType
<1>2. /\ Closed("none") \in Conn /\ Closed("none").pc = "closed" /\ Closed("none").stale
  BY EmptyTypes DEF Closed, Outcomes
<1>3. ConnInv(Closed("none"), db)
  BY <1>2 DEF ConnInv, Closed, Loaded
<1>4. db \in Files
  BY <1>0, <1>1 DEF Init, Files
<1>5. bundle \in [head : Heads, arts : SUBSET Nat, events : Seq(Events)]
  BY <1>0 DEF Init, NoBundle
<1>6. lock = {c \in Conns : conn[c].pc = "write"}
  BY <1>2 DEF Init
<1>. QED  BY <1>2, <1>3, <1>4, <1>5, <1>6 DEF Init, IInv, TypeOK, OneWriter

LEMMA NextIInv == IInv /\ [Next]_vars => IInv'
<1> SUFFICES ASSUME IInv, [Next]_vars PROVE IInv'
  OBVIOUS
<1>1. CASE UNCHANGED vars
  BY <1>1 DEF vars, IInv, TypeOK, OneWriter, ConnInv
<1>2. CASE Next
  <2> PICK c \in Conns : Turn(c)
    BY <1>2 DEF Next, Turn
  <2>. QED  BY OpeningKeeps, CallsKeep, ReadingKeeps, VerdictKeeps, RebuildKeeps,
               AcceptKeeps, RequireVerifiedKeeps, ReadsKeep, ReadRequestKeeps, BeginKeeps,
               CommitKeeps, EndingsKeep, FailKeeps
            DEF Turn, VerifyStep, WriteStep, ExportStep
<1>. QED  BY <1>1, <1>2

(* The types of DecisionLedger (create to export in ledger_store.py), and who holds the *)
(* lock of its file. *)
THEOREM TypeCorrect == Spec => []TypeOK
<1>1. IInv => TypeOK
  BY DEF IInv
<1>. QED  BY <1>1, InitIInv, NextIInv, PTL DEF Spec

(* A connection whose data version counts (ledger_store.py:609) has verified every event *)
(* of the file, and reads derived rows that are their replay, for any number of others. *)
THEOREM VerifiedIsCurrent == Spec => []VerifiedMeansCurrent
<1>1. IInv => VerifiedMeansCurrent
  BY DEF IInv, ConnInv, VerifiedMeansCurrent
<1>. QED  BY <1>1, InitIInv, NextIInv, PTL DEF Spec

------------------------------------------------------------------------------
(* The file is a VerifiedLog.                                              *)

Known == [c \in Conns |-> conn[c].known]

(* A connection that moves on and knows what it knew is a stutter of the log; one that *)
(* ends leaves the log. *)
LEMMA MoveIsStep ==
  ASSUME IInv, NEW c \in Conns, NEW k, Put(c, k),
         k.known = conn[c].known \/ k.known = {}, UNCHANGED db.events
  PROVE  [Log!Next]_Log!vars
<1>1. Known' = [Known EXCEPT ![c] = k.known]
  BY DEF IInv, TypeOK, Put, Known
<1>2. CASE k.known = conn[c].known
  <2>1. Known' = Known
    BY <1>1, <1>2 DEF Known
  <2>. QED  BY <2>1 DEF Log!vars, Known
<1>3. CASE k.known = {}
  <2>1. Log!Leave(c)
    BY <1>1, <1>3 DEF Log!Leave, Known
  <2>. QED  BY <2>1 DEF Log!Next
<1>. QED  BY <1>2, <1>3

LEMMA LocalIsStep ==
  ASSUME IInv, NEW c \in Conns,
         \/ Create(c) \/ CreateSchema(c) \/ Open(c) \/ Verify(c) \/ Export(c) \/ Close(c)
         \/ \E op \in Writing : Promote(c, op)
         \/ ReadArtifacts(c) \/ ReadEvents(c) \/ ReadRelationships(c) \/ ReadDerived(c)
         \/ ReadDerivedAgain(c) \/ RequireVerified(c) \/ ReadHead(c) \/ ReadRequest(c)
         \/ Begin(c) \/ Adopt(c) \/ ExportStep(c) \/ Fail(c)
  PROVE  [Log!Next]_Log!vars
<1> DEFINE Same(k) == k.known = conn[c].known \/ k.known = {}
<1>0. conn[c] \in Conn
  BY Acting
<1>1. \A o : Same(Closed(o)) /\ Same(Ready(c, o))
  BY <1>0 DEF Closed, Ready, Conn
<1>2. \A pc : Same([conn[c] EXCEPT !.pc = pc])
  BY <1>0 DEF Conn
<1>3. \A op : Same([conn[c] EXCEPT !.pc = "v_arts", !.op = op, !.moved = FALSE,
                                   !.read = NoRead, !.batch = <<>>])
  BY <1>0 DEF Conn
<1>4. \A op : Same([conn[c] EXCEPT !.pc = "check", !.op = op, !.goal = "head"])
  BY <1>0 DEF Conn
<1>5. /\ Same([conn[c] EXCEPT !.pc = "v_events", !.read.arts = db.arts])
      /\ Same([conn[c] EXCEPT !.pc = "v_links", !.read.events = db.events])
  BY <1>0 DEF Conn
<1>6. /\ Same(Then("request", [conn[c] EXCEPT !.read.derived = db.derived]))
      /\ Same(Then("x_events", [conn[c] EXCEPT !.read.arts = db.arts]))
      /\ Same(Then("x_head", [conn[c] EXCEPT !.read.events = db.events]))
  BY <1>0 DEF Conn, Then
<1>7. \A r, b : Same([conn[c] EXCEPT !.pc = "begin", !.request = r, !.batch = b])
  BY <1>0 DEF Conn
<1> HIDE DEF Same
<1>8. ASSUME Create(c) \/ CreateSchema(c) \/ Open(c) \/ Verify(c) \/ Export(c) \/ Close(c)
      PROVE  db' = db /\ \E k : Put(c, k) /\ Same(k)
  BY <1>8, <1>1, <1>2, <1>3
     DEF Create, CreateSchema, Open, Verify, Export, Close, Goto, Ends, VerifyFor
<1>9. ASSUME NEW op \in Writing, Promote(c, op)
      PROVE  db' = db /\ \E k : Put(c, k) /\ Same(k)
  BY <1>9, <1>4 DEF Promote
<1>10. ASSUME ReadArtifacts(c) \/ ReadEvents(c) \/ ReadHead(c) \/ ExportArtifacts(c)
                \/ ExportEvents(c)
       PROVE  db' = db /\ \E k : Put(c, k) /\ Same(k)
  BY <1>10, <1>5, <1>6
     DEF ReadArtifacts, ReadEvents, ReadHead, ExportArtifacts, ExportEvents, Read
<1>11. ASSUME ReadRelationships(c) \/ ReadDerived(c) \/ ReadDerivedAgain(c)
                \/ RequireVerified(c)
       PROVE  db' = db /\ \E k : Put(c, k) /\ Same(k)
  BY <1>11, <1>1, <1>2
     DEF ReadRelationships, ReadDerived, ReadDerivedAgain, RequireVerified, Goto, Ends
<1>12. ASSUME ReadRequest(c)
       PROVE  db' = db /\ \E k : Put(c, k) /\ Same(k)
  <2>1. conn[c].op \in Writing
    BY <1>12, Acting DEF ReadRequest, ConnInv
  <2>2. \/ Ends(c, "rejected")
        \/ Put(c, Ready(c, "adopted"))
        \/ \E p : Put(c, [conn[c] EXCEPT !.pc = "begin", !.request = db.derived.snapshot,
                            !.batch = Batch(conn[c].op, conn[c].read.derived.head,
                                            db.derived.snapshot, p)])
    BY <1>12, <2>1 DEF ReadRequest, Writing, Founding
  <2>3. db' = db
    BY <1>12 DEF ReadRequest
  <2>. QED  BY <2>2, <2>3, <1>1, <1>7 DEF Ends
<1>13. ASSUME Begin(c)
       PROVE  db' = db /\ \E k : Put(c, k) /\ Same(k)
  <2>1. /\ db' = db
        /\ \/ \E o : Ends(c, o)
           \/ VerifyFor(c, "adopt")
           \/ Goto(c, "write")
    BY <1>13 DEF Begin
  <2>. QED  BY <2>1, <1>1, <1>2, <1>3 DEF Ends, Goto, VerifyFor
<1>14. ASSUME Adopt(c) \/ ExportHead(c) \/ Fail(c)
       PROVE  db' = db /\ \E k : Put(c, k) /\ Same(k)
  BY <1>14, <1>1 DEF Adopt, ExportHead, Fail, Ends
<1>15. db' = db /\ \E k : Put(c, k) /\ Same(k)
  BY <1>8, <1>9, <1>10, <1>11, <1>12, <1>13, <1>14 DEF ExportStep
<1>. QED  BY <1>15, MoveIsStep DEF Same

(* A verification that counts verifies the log. *)
LEMMA AcceptIsStep ==
  ASSUME IInv, NEW c \in Conns, Accept(c)
  PROVE  [Log!Next]_Log!vars
<1>1. CASE conn[c].moved
  <2>1. Put(c, Closed("integrity")) /\ db' = db /\ Closed("integrity").known = {}
    BY <1>1 DEF Accept, Ends, Closed
  <2>. QED  BY <2>1, MoveIsStep
<1>2. CASE ~conn[c].moved
  <2>1. conn'[c].known = {Len(db.events)}
    BY <1>2, AcceptKeeps
  <2>2. PICK k : Put(c, k)
    BY <1>2 DEF Accept
  <2>3. k.known = {Len(db.events)}
    BY <2>1, <2>2 DEF Put, IInv, TypeOK
  <2>4. Known' = [Known EXCEPT ![c] = k.known]
    BY <2>2 DEF IInv, TypeOK, Put, Known
  <2>5. Log!Verify(c)
    BY <2>3, <2>4 DEF Accept, Log!Verify, Known
  <2>. QED  BY <2>5 DEF Log!Next
<1>. QED  BY <1>1, <1>2

(* A rebuild does not touch the log. *)
LEMMA RebuildIsStutter ==
  ASSUME IInv, NEW c \in Conns, RebuildDerived(c)
  PROVE  UNCHANGED Log!vars
<1>1. db'.events = db.events
  BY DEF RebuildDerived, IInv, TypeOK, Files
<1>2. \A d \in Conns : conn[d] \in Conn
  BY Acting
<1>3. \A d \in Conns : conn'[d].known = conn[d].known
  BY <1>2 DEF RebuildDerived, Noticed, Conn
<1>. QED  BY <1>1, <1>3 DEF Log!vars

LEMMA ConcatExtends ==
  ASSUME NEW S, NEW E \in Seq(S), NEW B \in Seq(S), B # <<>>
  PROVE  IsStrictPrefix(E, E \o B) /\ \A i \in DOMAIN (E \o B) : (E \o B)[i] \in S
<1> DEFINE s == E \o B
           t == SubSeq(s, 1, Len(E))
<1>1. /\ s \in Seq(S) /\ Len(s) = Len(E) + Len(B)
      /\ Len(E) \in Nat /\ Len(B) \in Nat \ {0}
  BY EmptySeq
<1>2. \A i \in 1 .. Len(E) : s[i] = E[i] /\ s[i] \in S
  BY ElementOfSeq
<1>3. \A i \in DOMAIN s : s[i] \in S
  BY <1>1, ElementOfSeq
<1> HIDE DEF s
<1>4. /\ t \in Seq(S) /\ Len(t) = Len(E)
      /\ \A i \in 1 .. Len(E) : t[i] = E[i]
  <2>1. /\ t \in Seq(S)
        /\ Len(t) = IF 1 <= Len(E) THEN Len(E) - 1 + 1 ELSE 0
        /\ \A i \in 1 .. Len(E) - 1 + 1 : t[i] = s[1 + i - 1]
    BY <1>1, <1>2, SubSeqProperties
  <2>. QED  BY <1>1, <1>2, <2>1
<1> HIDE DEF t
<1>5. t = E
  BY <1>4, SeqEqual
<1>6. SubSeq(E, 1, Len(E)) = SubSeq(s, 1, Len(E))
  BY <1>5, SubSeqFull DEF t
<1>7. IsStrictPrefix(E, s)
  BY <1>1, <1>6 DEF IsStrictPrefix, IsPrefix
<1>. QED  BY <1>3, <1>7 DEF s

(* A commit is a write of a connection that has verified the whole log. *)
LEMMA CommitIsWrite ==
  ASSUME IInv, NEW c \in Conns, Commit(c)
  PROVE  Log!Write(c)
<1> DEFINE E == db.events
           B == conn[c].batch
           k == [Ready(c, "committed") EXCEPT !.known = {Len(E \o B)}]
<1>1. E \in Seq(Events) /\ B \in Seq(Events) /\ B # <<>>
  BY Acting DEF Commit, ConnInv, Conn, Files
<1>2. conn[c].known = {Len(E)}
  BY Acting DEF Commit, ConnInv
<1>3. db'.events = E \o B
  BY DEF Commit
<1>5. IsStrictPrefix(E, E \o B) /\ \A i \in DOMAIN (E \o B) : (E \o B)[i] \in Events
  BY <1>1, ConcatExtends
<1>7. \A d \in Conns : conn'[d].known = IF d = c THEN {Len(E \o B)} ELSE conn[d].known
  <2>1. \A d \in Conns : conn[d] \in Conn
    BY Acting
  <2>2. k.known = {Len(E \o B)}
    BY <2>1 DEF Ready, Conn
  <2> HIDE DEF k, E, B
  <2>3. conn' = Noticed(c, k)
    BY DEF Commit, k, E, B
  <2>. QED  BY <2>1, <2>2, <2>3 DEF Noticed, Conn
<1>8. Known' = [Known EXCEPT ![c] = {Len(E \o B)}]
  BY <1>7 DEF Known
<1>9. Known[c] = {Len(E)}
  BY <1>2 DEF Known
<1>10. IsStrictPrefix(E, E') /\ \A i \in DOMAIN E' \ DOMAIN E : E'[i] \in Events
  BY <1>3, <1>5
<1>11. Known' = [Known EXCEPT ![c] = {Len(db'.events)}]
  BY <1>3, <1>8
<1>12. Log!IsStrictPrefix(E, E')
  BY <1>10 DEF IsStrictPrefix, IsPrefix, Log!IsStrictPrefix, Log!IsPrefix
<1> HIDE DEF k, B
<1>. QED  BY <1>9, <1>10, <1>11, <1>12 DEF Log!Write, Known

(* The ledger is an append-only log that only a connection which has verified or written *)
(* all of it extends, whatever the others do, where one fails, and however rows are *)
(* rebuilt: append (ledger_store.py:999) and verify (:954) implement VerifiedLog. *)
THEOREM LedgerIsAVerifiedLog == Spec => ImplementsLog
<1>1. Init => Log!Init
  <2> SUFFICES ASSUME Init PROVE Log!Init
    OBVIOUS
  <2>1. Closed("none").known = {} /\ db.events = <<>>
    BY DEF Closed, Init
  <2>. QED  BY <2>1 DEF Init, Log!Init
<1>2. IInv /\ [Next]_vars => [Log!Next]_Log!vars
  <2> SUFFICES ASSUME IInv, [Next]_vars PROVE [Log!Next]_Log!vars
    OBVIOUS
  <2>1. CASE UNCHANGED vars
    BY <2>1 DEF vars, Log!vars
  <2>2. CASE Next
    <3> PICK c \in Conns : Turn(c)
      BY <2>2 DEF Next, Turn
    <3>1. CASE Accept(c)
      BY <3>1, AcceptIsStep
    <3>2. CASE Commit(c)
      BY <3>2, CommitIsWrite DEF Log!Next
    <3>3. CASE RebuildDerived(c)
      BY <3>3, RebuildIsStutter
    <3>. QED  BY <3>1, <3>2, <3>3, LocalIsStep DEF Turn, VerifyStep, WriteStep
  <2>. QED  BY <2>1, <2>2
<1>. QED  BY <1>1, <1>2, InitIInv, NextIInv, PTL DEF Spec, ImplementsLog, Log!Spec

------------------------------------------------------------------------------
(* The file is sound, and what a connection has read is still so.          *)

(* An event has the number of its position and closes only what lies before it; nothing *)
(* is in the file that no event names. *)
SubjectsOf(E) == UNION {e.subjects : e \in ToSet(E)}

Numbered(E) == \A i \in DOMAIN E : E[i].hash = i /\ E[i].of < i

Sound(D) ==
  /\ Numbered(D.events) /\ Chained(D.events) /\ Inspected(D.events)
  /\ Resolved(D.events, D.arts) /\ D.arts = SubjectsOf(D.events)

(* A commit that was built on these events. *)
Built(B, E) ==
  \E op \in Writing, request \in Nat, passport \in 0 .. Len(E) :
    B = Batch(op, HeadOf(E), request, passport)

(* What a connection knows of the file as long as nobody else has committed; and, *)
(* whoever has, that the events it exports are those with which the file begins. *)
At(k, goal) == k.pc = goal \/ (k.pc = "check" /\ k.goal = goal)

Remembers(k, D) ==
  /\ k.pc \in {"v_events", "v_links"} /\ ~k.moved => k.read.arts = D.arts
  /\ k.pc = "v_again" /\ ~k.moved => D.derived = Replay(k.read.events)
  /\ At(k, "request") /\ ~k.stale => k.read.derived = D.derived
  /\ k.pc \in {"begin", "write"} /\ ~k.stale =>
       Built(k.batch, D.events) /\ Inspected(D.events \o k.batch)
  /\ At(k, "x_events") \/ At(k, "x_head") => k.stale \/ k.read.arts = D.arts
  /\ At(k, "x_head") => /\ IsPrefix(k.read.events, D.events)
                        /\ k.stale \/ k.read.events = D.events

DInv == Sound(db) /\ \A c \in Conns : Remembers(conn[c], db)

------------------------------------------------------------------------------
(* Sound files.                                                            *)

(* What was there before an append is there after it. *)
LEMMA SubSeqConcat ==
  ASSUME NEW E \in Seq(Events), NEW B \in Seq(Events), NEW n \in 0 .. Len(E)
  PROVE  SubSeq(E \o B, 1, n) = SubSeq(E, 1, n)
<1>1. CASE n = 0
  BY <1>1, SubSeqEmpty
<1>2. CASE n # 0
  <2>1. n \in 1 .. Len(E) /\ 1 \in 1 .. Len(E)
    BY <1>2
  <2>. QED  BY <2>1, SubSeqOfConcat1
<1>. QED  BY <1>1, <1>2

LEMMA PrefixGrows ==
  ASSUME NEW s \in Seq(Events), NEW E \in Seq(Events), NEW B \in Seq(Events),
         IsPrefix(s, E)
  PROVE  IsPrefix(s, E \o B)
<1>1. Len(s) \in Nat /\ Len(s) <= Len(E) /\ Len(E) \in Nat /\ Len(B) \in Nat
      /\ Len(E \o B) = Len(E) + Len(B)
  BY DEF IsPrefix
<1>2. Len(s) \in 0 .. Len(E)
  BY <1>1
<1>3. SubSeq(E \o B, 1, Len(s)) = SubSeq(E, 1, Len(s))
  BY <1>2, SubSeqConcat
<1>. QED  BY <1>1, <1>3 DEF IsPrefix

LEMMA PrefixOfItself ==
  ASSUME NEW s \in Seq(Events)
  PROVE  IsPrefix(s, s)
  BY DEF IsPrefix

(* In a sound file an event has the number of its position. *)
LEMMA HeadIsPosition ==
  ASSUME NEW E \in Seq(Events), Numbered(E)
  PROVE  HeadOf(E) = [seq |-> Len(E), hash |-> Len(E)]
<1>1. CASE E = <<>>
  BY <1>1 DEF HeadOf, Genesis
<1>2. CASE E # <<>>
  <2>1. Len(E) \in DOMAIN E
    BY <1>2, EmptySeq
  <2>. QED  BY <1>2, <2>1 DEF HeadOf, Last, Numbered
<1>. QED  BY <1>1, <1>2

(* An event that may be written at a position, and what a commit that is built writes. *)
Position(e, i) ==
  e.hash = i /\ e.prev = i - 1 /\ e.of \in Nat /\ e.of < i /\ e.snapshot \in e.subjects

LEMMA BatchShape ==
  ASSUME NEW op \in Writing, NEW n \in Nat, NEW request \in Nat, NEW passport \in 0 .. n,
         NEW B, B = Batch(op, [seq |-> n, hash |-> n], request, passport)
  PROVE  /\ B \in Seq(Events) /\ Len(B) \in {1, 2}
         /\ \A i \in 1 .. Len(B) : Position(B[i], n + i)
         /\ Len(B) = 2 => B[2].kind \in {"imported", "accepted"}
<1> DEFINE head == [seq |-> n, hash |-> n]
<1>1. B \in Seq(Events)
  <2>1. head \in Heads /\ passport \in Nat
    BY DEF Heads
  <2>. QED  BY <2>1, BatchType
<1>2. ASSUME NEW e, Position(e, n + 1), B = <<e>>
      PROVE  /\ Len(B) \in {1, 2} /\ \A i \in 1 .. Len(B) : Position(B[i], n + i)
             /\ Len(B) = 2 => B[2].kind \in {"imported", "accepted"}
  BY <1>2
<1>3. ASSUME NEW e, NEW f, Position(e, n + 1), Position(f, n + 2), B = <<e, f>>,
             f.kind \in {"imported", "accepted"}
      PROVE  /\ Len(B) \in {1, 2} /\ \A i \in 1 .. Len(B) : Position(B[i], n + i)
             /\ Len(B) = 2 => B[2].kind \in {"imported", "accepted"}
  <2>1. Len(B) = 2 /\ B[1] = e /\ B[2] = f
    BY <1>3
  <2>2. \A i \in 1 .. 2 : i = 1 \/ i = 2
    OBVIOUS
  <2>3. Position(B[1], n + 1) /\ Position(B[2], n + 2)
    BY <1>3, <2>1
  <2>. QED  BY <1>3, <2>1, <2>2, <2>3
<1>4. n + 1 - 1 = n /\ n + 2 = n + 1 + 1 /\ n + 2 - 1 = n + 1 /\ passport \in Nat
      /\ passport < n + 1 /\ 0 < n + 1 /\ 0 < n + 2
  OBVIOUS
<1>5. CASE op = "initialize"
  <2> DEFINE e == Event(n + 1, n, "created", {n + 1}, n + 1, 0)
  <2>1. B = <<e>>
    BY <1>5 DEF Batch
  <2>2. Position(e, n + 1)
    BY <1>4 DEF Position, Event
  <2>. QED  BY <1>1, <1>2, <2>1, <2>2
<1>6. CASE op = "import"
  <2> DEFINE e == Event(n + 1, n, "created", {n + 1}, n + 1, 0)
             f == Event(n + 1 + 1, n + 1, "imported", {n + 1, n + 1 + 1}, n + 1, 0)
  <2>1. B = <<e, f>>
    BY <1>6 DEF Batch
  <2>2. Position(e, n + 1) /\ Position(f, n + 2) /\ f.kind = "imported"
    BY <1>4 DEF Position, Event
  <2> HIDE DEF e, f
  <2>. QED  BY <1>1, <1>3, <2>1, <2>2
<1>7. CASE op = "decide"
  <2> DEFINE says == IF request \in Asks THEN "asked" ELSE "concluded"
             e == Event(n + 1, n, says, {request, n + 1}, request, 0)
  <2>1. B = <<e>>
    BY <1>7 DEF Batch
  <2>2. Position(e, n + 1)
    BY <1>4 DEF Position, Event
  <2>. QED  BY <1>1, <1>2, <2>1, <2>2
<1>8. CASE op = "answer"
  <2> DEFINE e == Event(n + 1, n, "answered", {passport, n + 1}, n + 1, passport)
  <2>1. B = <<e>>
    BY <1>8 DEF Batch
  <2>2. Position(e, n + 1)
    BY <1>4 DEF Position, Event
  <2>. QED  BY <1>1, <1>2, <2>1, <2>2
<1>9. CASE op = "accept"
  <2> DEFINE e == Event(n + 1, n, "answered", {request, passport, n + 1}, request, passport)
             f == Event(n + 1 + 1, n + 1, "accepted", {n + 1 + 1}, n + 1 + 1, 0)
  <2>1. B = <<e, f>>
    BY <1>9 DEF Batch
  <2>2. Position(e, n + 1) /\ Position(f, n + 2) /\ f.kind = "accepted"
    BY <1>4 DEF Position, Event
  <2> HIDE DEF e, f
  <2>. QED  BY <1>1, <1>3, <2>1, <2>2
<1>10. CASE op = "retract"
  <2> DEFINE e == Event(n + 1, n, "retracted", {request}, request, passport)
  <2>1. B = <<e>>
    BY <1>10 DEF Batch
  <2>2. Position(e, n + 1)
    BY <1>4 DEF Position, Event
  <2>. QED  BY <1>1, <1>2, <2>1, <2>2
<1>. QED  BY <1>5, <1>6, <1>7, <1>8, <1>9, <1>10 DEF Writing, Founding

(* Subjects of what is appended come with it. *)
LEMMA SubjectsAppend ==
  ASSUME NEW E \in Seq(Events), NEW B \in Seq(Events)
  PROVE  SubjectsOf(E \o B) = SubjectsOf(E) \union SubjectsOf(B)
<1>1. ToSet(E \o B) = ToSet(E) \union ToSet(B)
  BY ConcatSet
<1>. QED  BY <1>1 DEF SubjectsOf

(* A commit that was built on a sound file, and may follow it, leaves it sound. *)
LEMMA SoundAppends ==
  ASSUME NEW D \in Files, NEW F, NEW B, Sound(D), Built(B, D.events),
         Inspected(D.events \o B),
         F.events = D.events \o B, F.arts = D.arts \union SubjectsOf(B)
  PROVE  Sound(F)
<1> DEFINE E == D.events
           n == Len(E)
           s == E \o B
<1>1. E \in Seq(Events) /\ n \in Nat
  BY DEF Files
<1>2. HeadOf(E) = [seq |-> n, hash |-> n]
  BY <1>1, HeadIsPosition DEF Sound
<1>3. /\ B \in Seq(Events) /\ Len(B) \in {1, 2}
      /\ \A i \in 1 .. Len(B) : Position(B[i], n + i)
  <2>1. PICK op \in Writing, request \in Nat, passport \in 0 .. n :
          B = Batch(op, [seq |-> n, hash |-> n], request, passport)
    BY <1>2 DEF Built
  <2> HIDE DEF n
  <2>. QED  BY <1>1, <2>1, BatchShape
<1>4. /\ s \in Seq(Events) /\ Len(s) = n + Len(B) /\ DOMAIN s = 1 .. Len(s)
      /\ \A i \in 1 .. n : s[i] = E[i]
      /\ \A i \in 1 .. Len(B) : s[n + i] = B[i]
      /\ \A i \in 1 .. Len(s) : i \in 1 .. n \/ (i - n \in 1 .. Len(B) /\ i > n)
  <2>1. \A t \in Seq(Events) : DOMAIN t = 1 .. Len(t)
    OBVIOUS
  <2> HIDE DEF E
  <2>. QED  BY <1>1, <1>3, <2>1, ConcatItems
<1>5. DOMAIN E = 1 .. n
  BY <1>1
<1>6. ToSet(s) = ToSet(E) \union ToSet(B)
  BY <1>1, <1>3, ConcatSet
<1>7. SubjectsOf(s) = SubjectsOf(E) \union SubjectsOf(B)
  BY <1>1, <1>3, SubjectsAppend
<1>8. ToSet(B) = {B[i] : i \in 1 .. Len(B)}
  BY <1>3, SetOf
<1> HIDE DEF E, n, s
<1>9. ASSUME NEW i \in 1 .. Len(s), i \notin 1 .. n
      PROVE  Position(s[i], i)
  <2> DEFINE j == i - n
  <2>1. j \in 1 .. Len(B) /\ i = n + j
    BY <1>1, <1>4, <1>9
  <2> HIDE DEF j
  <2>2. s[i] = B[j]
    BY <1>4, <2>1
  <2>. QED  BY <1>3, <2>1, <2>2
<1>10. Numbered(s)
  <2> SUFFICES ASSUME NEW i \in 1 .. Len(s) PROVE s[i].hash = i /\ s[i].of < i
    BY <1>4 DEF Numbered
  <2>1. CASE i \in 1 .. n
    BY <1>4, <1>5, <2>1 DEF Sound, Numbered, E
  <2>2. CASE i \notin 1 .. n
    BY <1>9, <2>2 DEF Position
  <2>. QED  BY <2>1, <2>2
<1>11. Chained(s)
  <2> SUFFICES ASSUME NEW i \in 1 .. Len(s)
               PROVE  s[i].prev = IF i = 1 THEN Genesis.hash ELSE s[i - 1].hash
    BY <1>4 DEF Chained
  <2>1. CASE i \in 1 .. n
    <3>1. s[i].prev = IF i = 1 THEN Genesis.hash ELSE E[i - 1].hash
      BY <1>4, <1>5, <2>1 DEF Sound, Chained, E
    <3>2. i # 1 => i - 1 \in 1 .. n
      BY <1>1, <2>1
    <3>. QED  BY <1>4, <3>1, <3>2
  <2>2. CASE i \notin 1 .. n
    <3>1. s[i].prev = i - 1
      BY <1>9, <2>2 DEF Position
    <3>2. i # 1 => i - 1 \in 1 .. Len(s)
      BY <1>3, <1>4, <1>1
    <3>3. i # 1 => s[i - 1].hash = i - 1
      BY <1>4, <1>10, <3>2 DEF Numbered
    <3>. QED  BY <3>1, <3>3 DEF Genesis
  <2>. QED  BY <2>1, <2>2
<1>12. Resolved(s, F.arts)
  <2>1. F.arts = SubjectsOf(s)
    BY <1>7 DEF Sound, E
  <2>2. \A e \in ToSet(s) : e.subjects \subseteq F.arts
    BY <2>1 DEF SubjectsOf
  <2>3. \A e \in ToSet(E) : e.snapshot \in e.subjects
    BY DEF Sound, Resolved, E
  <2>4. \A e \in ToSet(B) : e.snapshot \in e.subjects
    BY <1>3, <1>8 DEF Position
  <2>. QED  BY <1>6, <2>2, <2>3, <2>4 DEF Resolved
<1>13. F.events = s /\ F.arts = SubjectsOf(s) /\ Inspected(s)
  BY <1>7 DEF s, E, Sound
<1>. QED  BY <1>10, <1>11, <1>12, <1>13 DEF Sound

(* Two questions about a request: the first one is closed by an event between them. *)
LEMMA SoundHasOneQuestion ==
  ASSUME NEW D \in Files, Sound(D),
         NEW i \in DOMAIN D.events, NEW j \in DOMAIN D.events, i < j,
         D.events[i].kind = "asked", D.events[j].kind = "asked",
         D.events[i].snapshot = D.events[j].snapshot
  PROVE  \E k \in i + 1 .. j - 1 : D.events[k].of = D.events[i].hash
<1> DEFINE E == D.events
           before == SubSeq(E, 1, j - 1)
<1>1. E \in Seq(Events) /\ DOMAIN E = 1 .. Len(E) /\ Len(E) \in Nat
  BY DEF Files
<1>2. i \in 1 .. j - 1 /\ j - 1 \in Nat /\ j - 1 < Len(E) /\ j \in 1 .. Len(E)
  BY <1>1
<1>3. \A k \in 1 .. j - 1 : k \in 1 .. Len(E) /\ E[k] \in Events
  BY <1>1, <1>2, ElementOfSeq
<1>4. /\ before \in Seq(Events) /\ Len(before) = j - 1
      /\ \A k \in 1 .. j - 1 : before[k] = E[k]
  <2>1. /\ before \in Seq(Events)
        /\ Len(before) = IF 1 <= j - 1 THEN j - 1 - 1 + 1 ELSE 0
        /\ \A k \in 1 .. j - 1 - 1 + 1 : before[k] = E[1 + k - 1]
    BY <1>2, <1>3, SubSeqProperties
  <2>2. 1 <= j - 1 /\ j - 1 - 1 + 1 = j - 1 /\ \A k \in 1 .. j - 1 : 1 + k - 1 = k
    BY <1>2
  <2>. QED  BY <2>1, <2>2
<1>5. ToSet(before) = {before[k] : k \in 1 .. j - 1}
  BY <1>4, SetOf
<1>6. Follows(E[j], before)
  BY <1>1, <1>2 DEF Sound, Inspected
<1> HIDE DEF before
<1>7. Outstanding(before, E[j].snapshot) = {}
  BY <1>6 DEF Follows
<1>8. E[i] \in ToSet(before)
  BY <1>2, <1>4, <1>5
<1>9. PICK f \in ToSet(before) : f.of = E[i].hash
  BY <1>7, <1>8 DEF Outstanding, Unclosed, Committed, Passports
<1>10. PICK k \in 1 .. j - 1 : f = E[k]
  BY <1>4, <1>5
<1>11. E[i].hash = i /\ E[k].of < k
  BY <1>1, <1>3, <1>2 DEF Sound, Numbered
<1>12. k \in i + 1 .. j - 1
  BY <1>1, <1>2, <1>9, <1>10, <1>11
<1>. QED  BY <1>9, <1>10, <1>12

------------------------------------------------------------------------------
(* The second event of a commit may follow whatever the first one is. *)
LEMMA InspectedAppends ==
  ASSUME NEW E \in Seq(Events), NEW B \in Seq(Events), Inspected(E),
         Len(B) \in {1, 2}, Follows(B[1], E),
         Len(B) = 2 => B[2].kind \in {"imported", "accepted"}
  PROVE  Inspected(E \o B)
<1> DEFINE n == Len(E)
           s == E \o B
<1>1. /\ s \in Seq(Events) /\ Len(s) = n + Len(B) /\ DOMAIN s = 1 .. Len(s)
      /\ DOMAIN E = 1 .. n /\ n \in Nat
      /\ \A i \in 1 .. n : s[i] = E[i]
      /\ \A i \in 1 .. Len(B) : s[n + i] = B[i]
  BY ConcatItems
<1>2. \A m \in 0 .. n : SubSeq(s, 1, m) = SubSeq(E, 1, m)
  BY SubSeqConcat
<1>3. SubSeq(E, 1, n) = E
  BY SubSeqFull
<1>4. Len(B) = 2 => SubSeq(s, 1, n + 1) # <<>>
  <2> SUFFICES ASSUME Len(B) = 2 PROVE SubSeq(s, 1, n + 1) # <<>>
    OBVIOUS
  <2>1. \A i \in 1 .. n + 1 : s[i] \in Events
    <3>1. \A i \in 1 .. n + 1 : i \in 1 .. Len(s)
      BY <1>1
    <3> HIDE DEF s
    <3>. QED  BY <1>1, <3>1, ElementOfSeq
  <2> HIDE DEF s, n
  <2>2. Len(SubSeq(s, 1, n + 1)) = n + 1
    <3>1. Len(SubSeq(s, 1, n + 1)) = IF 1 <= n + 1 THEN n + 1 - 1 + 1 ELSE 0
      BY <1>1, <2>1, SubSeqProperties
    <3>. QED  BY <1>1, <3>1
  <2>3. n + 1 # 0
    BY <1>1
  <2>4. Len(<<>>) = 0
    OBVIOUS
  <2>. QED  BY <2>2, <2>3, <2>4
<1> HIDE DEF s, n
<1> SUFFICES ASSUME NEW i \in 1 .. Len(s) PROVE Follows(s[i], SubSeq(s, 1, i - 1))
  BY <1>1 DEF Inspected, s
<1>5. CASE i \in 1 .. n
  <2>1. i - 1 \in 0 .. n
    BY <1>1, <1>5
  <2>2. SubSeq(s, 1, i - 1) = SubSeq(E, 1, i - 1)
    BY <1>2, <2>1
  <2>. QED  BY <1>1, <1>5, <2>2 DEF Inspected
<1>6. CASE i = n + 1
  <2>1. i - 1 = n /\ n \in 0 .. n /\ 1 \in 1 .. Len(B)
    BY <1>1, <1>6
  <2>2. s[i] = B[1] /\ SubSeq(s, 1, i - 1) = E
    BY <1>1, <1>2, <1>3, <1>6, <2>1
  <2>. QED  BY <2>2
<1>7. CASE i = n + 2 /\ Len(B) = 2
  <2>1. i - 1 = n + 1 /\ 2 \in 1 .. Len(B)
    BY <1>1, <1>7
  <2>2. s[i] = B[2] /\ B[2].kind \in {"imported", "accepted"}
    BY <1>1, <1>7, <2>1
  <2>. QED  BY <1>4, <1>7, <2>1, <2>2 DEF Follows, Passports
<1>8. i \in 1 .. n \/ i = n + 1 \/ (i = n + 2 /\ Len(B) = 2)
  <2>1. CASE Len(B) = 1
    BY <1>1, <2>1
  <2>2. CASE Len(B) = 2
    BY <1>1, <2>2
  <2>. QED  BY <2>1, <2>2
<1>. QED  BY <1>5, <1>6, <1>7, <1>8

(* What the coordinator builds on the state it has read may follow it. *)
LEMMA BuiltMayFollow ==
  ASSUME NEW D \in Files, Sound(D), NEW op \in Writing, NEW passport,
         NEW E, E = D.events, NEW request, request = Replay(E).snapshot,
         \/ op \in Founding /\ E = <<>> /\ passport = 0
         \/ op = "decide" /\ E # <<>> /\ passport = 0 /\ Outstanding(E, request) = {}
         \/ /\ op \in {"answer", "accept"} /\ E # <<>>
            /\ \E d \in Outstanding(E, request) : passport = d.hash
         \/ /\ op = "retract" /\ E # <<>>
            /\ \E d \in Retractable(E, request) : passport = d.hash,
         NEW B, B = Batch(op, HeadOf(E), request, passport)
  PROVE  Built(B, E) /\ Inspected(E \o B)
<1> DEFINE n == Len(E)
<1>1. /\ E \in Seq(Events) /\ n \in Nat /\ Numbered(E) /\ Inspected(E)
      /\ DOMAIN E = 1 .. n
  <2>1. D.events \in Seq(Events)
    BY DEF Files
  <2>2. \A t \in Seq(Events) : DOMAIN t = 1 .. Len(t) /\ Len(t) \in Nat
    OBVIOUS
  <2>. QED  BY <2>1, <2>2 DEF Sound
<1>2. HeadOf(E) = [seq |-> n, hash |-> n]
  BY <1>1, HeadIsPosition
<1>3. request \in Nat /\ (E # <<>> => request = Last(E).snapshot)
  <2>1. Replay(E) \in Deriveds
    BY <1>1, ReplayType
  <2>. QED  BY <2>1 DEF Replay, Deriveds
<1>4. passport \in 0 .. n
  <2>1. ASSUME NEW d, d \in Outstanding(E, request) \/ d \in Retractable(E, request)
        PROVE  d.hash \in 0 .. n
    <3>1. d \in ToSet(E)
      BY <2>1, UnclosedEvents
    <3>2. PICK i \in 1 .. n : d = E[i]
      BY <1>1, <3>1, SetOf
    <3>3. d.hash = i
      BY <1>1, <3>2 DEF Numbered
    <3>. QED  BY <3>3, <1>1
  <2>2. 0 \in 0 .. n
    BY <1>1
  <2>. QED  BY <2>1, <2>2
<1>5. Built(B, E)
  BY <1>3, <1>4 DEF Built
<1>6. /\ B \in Seq(Events) /\ Len(B) \in {1, 2}
      /\ Len(B) = 2 => B[2].kind \in {"imported", "accepted"}
  <2> HIDE DEF n
  <2>1. B = Batch(op, [seq |-> n, hash |-> n], request, passport)
    BY <1>2
  <2>. QED  BY <1>1, <1>3, <1>4, <2>1, BatchShape
<1>7. Follows(B[1], E)
  <2> HIDE DEF n
  <2>1. CASE op \in Founding /\ E = <<>>
    <3>1. B[1].kind = "created"
      BY <2>1 DEF Batch, Founding, Event
    <3>. QED  BY <2>1, <3>1 DEF Follows, Passports
  <2>2. CASE op = "decide" /\ E # <<>> /\ Outstanding(E, request) = {}
    <3>1. B[1].kind \in Passports /\ B[1].snapshot = request
      BY <2>2 DEF Batch, Event, Passports
    <3>. QED  BY <1>3, <2>2, <3>1 DEF Follows, Passports
  <2>3. CASE /\ op \in {"answer", "accept"} /\ E # <<>>
             /\ \E d \in Outstanding(E, request) : passport = d.hash
    <3>1. B[1].kind = "answered" /\ B[1].of = passport
      BY <2>3 DEF Batch, Event
    <3>. QED  BY <1>3, <2>3, <3>1 DEF Follows, Passports
  <2>4. CASE /\ op = "retract" /\ E # <<>>
             /\ \E d \in Retractable(E, request) : passport = d.hash
    <3>1. B[1].kind = "retracted" /\ B[1].of = passport /\ B[1].snapshot = request
      BY <2>4 DEF Batch, Event
    <3>2. \A f \in ToSet(E) : f.of # passport
      BY <2>4, UnclosedEvents
    <3>. QED  BY <1>3, <2>4, <3>1, <3>2 DEF Follows, Passports
  <2>. QED  BY <2>1, <2>2, <2>3, <2>4
<1>8. Inspected(E \o B)
  BY <1>1, <1>6, <1>7, InspectedAppends
<1>. QED  BY <1>5, <1>8

------------------------------------------------------------------------------
(* The actions again, for what is remembered.                              *)

(* A connection that is at none of the steps Remembers speaks of. *)
Quiet(k) ==
  \/ k.pc \in {"closed", "schema", "v_arts", "v_derived", "v_rebuild", "v_accept", "ready",
               "head", "winner", "x_arts"}
  \/ k.pc = "check" /\ k.goal \in {"head", "winner", "x_arts"}

LEMMA QuietRemembers ==
  ASSUME NEW k, NEW D, Quiet(k)
  PROVE  Remembers(k, D)
  BY DEF Quiet, Remembers, At

LEMMA MovesRemember ==
  ASSUME IInv, DInv, NEW c \in Conns, NEW k, Put(c, k), Remembers(k, db), UNCHANGED db
  PROVE  DInv'
<1>1. \A d \in Conns : conn'[d] = IF d = c THEN k ELSE conn[d]
  BY DEF IInv, TypeOK, Put
<1>2. \A d \in Conns : Remembers(conn'[d], db')
  BY <1>1 DEF DInv
<1>. QED  BY <1>2 DEF DInv

LEMMA QuietMoves ==
  ASSUME IInv, DInv, NEW c \in Conns, NEW k, Put(c, k), Quiet(k), UNCHANGED db
  PROVE  DInv'
  BY QuietRemembers, MovesRemember

LEMMA EndsQuiet == \A o : Quiet(Closed(o))
  BY DEF Closed, Quiet

LEMMA ReadyQuiet ==
  ASSUME IInv, NEW c \in Conns, NEW o
  PROVE  Quiet(Ready(c, o))
<1>1. conn[c] \in Conn
  BY Acting
<1>2. Ready(c, o).pc = "ready"
  BY <1>1 DEF Ready, Conn
<1>. QED  BY <1>2 DEF Quiet

LEMMA StepQuiet ==
  ASSUME IInv, NEW c \in Conns
  PROVE  /\ \A pc \in {"schema", "v_derived", "v_rebuild", "v_accept"} :
              Quiet([conn[c] EXCEPT !.pc = pc])
         /\ \A op : Quiet([conn[c] EXCEPT !.pc = "v_arts", !.op = op, !.moved = FALSE,
                                          !.read = NoRead, !.batch = <<>>])
         /\ \A op : Quiet([conn[c] EXCEPT !.pc = "check", !.op = op, !.goal = "head"])
  BY Acting DEF Conn, Quiet

(* Most steps remember nothing of the database. *)
LEMMA ForgettingRemembers ==
  ASSUME IInv, DInv, NEW c \in Conns,
         \/ Create(c) \/ CreateSchema(c) \/ Open(c) \/ Verify(c) \/ Export(c) \/ Close(c)
         \/ \E op \in Writing : Promote(c, op)
         \/ ReadRelationships(c) \/ ReadDerived(c) \/ ReadDerivedAgain(c)
         \/ Adopt(c) \/ ExportHead(c) \/ Fail(c)
  PROVE  DInv'
<1>1. ASSUME Create(c) \/ CreateSchema(c) \/ Open(c) \/ Verify(c) \/ Export(c) \/ Close(c)
      PROVE  db' = db /\ \E k : Put(c, k) /\ Quiet(k)
  BY <1>1, EndsQuiet, StepQuiet
     DEF Create, CreateSchema, Open, Verify, Export, Close, Goto, Ends, VerifyFor
<1>2. ASSUME NEW op \in Writing, Promote(c, op)
      PROVE  db' = db /\ \E k : Put(c, k) /\ Quiet(k)
  BY <1>2, StepQuiet DEF Promote
<1>3. ASSUME ReadRelationships(c) \/ ReadDerived(c) \/ ReadDerivedAgain(c)
      PROVE  db' = db /\ \E k : Put(c, k) /\ Quiet(k)
  BY <1>3, EndsQuiet, StepQuiet
     DEF ReadRelationships, ReadDerived, ReadDerivedAgain, Goto, Ends
<1>4. ASSUME Adopt(c) \/ ExportHead(c) \/ Fail(c)
      PROVE  db' = db /\ \E k : Put(c, k) /\ Quiet(k)
  BY <1>4, EndsQuiet, ReadyQuiet DEF Adopt, ExportHead, Fail, Ends
<1>5. db' = db /\ \E k : Put(c, k) /\ Quiet(k)
  BY <1>1, <1>2, <1>3, <1>4
<1>. QED  BY <1>5, QuietMoves

LEMMA ReadingRemembers ==
  ASSUME IInv, DInv, NEW c \in Conns, ReadArtifacts(c) \/ ReadEvents(c)
  PROVE  DInv'
<1>1. conn[c] \in Conn /\ Remembers(conn[c], db)
  BY Acting DEF DInv
<1>2. CASE ReadArtifacts(c)
  <2> DEFINE k == [conn[c] EXCEPT !.pc = "v_events", !.read.arts = db.arts]
  <2>1. k.pc = "v_events" /\ k.read.arts = db.arts
    BY <1>1 DEF Conn, Files
  <2>2. Put(c, k) /\ db' = db
    BY <1>2 DEF ReadArtifacts
  <2> HIDE DEF k
  <2>3. Remembers(k, db)
    BY <2>1 DEF Remembers, At
  <2>. QED  BY <2>2, <2>3, MovesRemember
<1>3. CASE ReadEvents(c)
  <2> DEFINE k == [conn[c] EXCEPT !.pc = "v_links", !.read.events = db.events]
  <2>1. k.pc = "v_links" /\ k.read.arts = conn[c].read.arts /\ k.moved = conn[c].moved
    BY <1>1 DEF Conn, Files
  <2>2. Put(c, k) /\ db' = db /\ conn[c].pc = "v_events"
    BY <1>3 DEF ReadEvents
  <2> HIDE DEF k
  <2>3. Remembers(k, db)
    BY <1>1, <2>1, <2>2 DEF Remembers, At
  <2>. QED  BY <2>2, <2>3, MovesRemember
<1>. QED  BY <1>2, <1>3

LEMMA AcceptRemembers ==
  ASSUME IInv, DInv, NEW c \in Conns, Accept(c)
  PROVE  DInv'
<1> DEFINE v == [Ready(c, "verified") EXCEPT !.stale = FALSE,
                                             !.known = {Len(conn[c].read.events)}]
           adopts  == [v EXCEPT !.pc = "check", !.op = "adopt", !.goal = "winner",
                                !.request = conn[c].request]
           exports == [v EXCEPT !.pc = "check", !.op = "export", !.goal = "x_arts"]
<1>1. conn[c] \in Conn
  BY Acting
<1>2. Quiet(v) /\ Quiet(adopts) /\ Quiet(exports)
  <2>1. v.pc = "ready"
    BY <1>1 DEF Ready, Conn
  <2>2. adopts.pc = "check" /\ adopts.goal = "winner"
    BY <1>1 DEF Ready, Conn
  <2>3. exports.pc = "check" /\ exports.goal = "x_arts"
    BY <1>1 DEF Ready, Conn
  <2> HIDE DEF v, adopts, exports
  <2>. QED  BY <2>1, <2>2, <2>3 DEF Quiet
<1>3. db' = db /\ (Ends(c, "integrity") \/ Put(c, v) \/ Put(c, adopts) \/ Put(c, exports))
  BY DEF Accept
<1> HIDE DEF v, adopts, exports
<1>. QED  BY <1>2, <1>3, EndsQuiet, QuietMoves DEF Ends

LEMMA RequireVerifiedRemembers ==
  ASSUME IInv, DInv, NEW c \in Conns, RequireVerified(c)
  PROVE  DInv'
<1>1. /\ conn[c] \in Conn /\ Remembers(conn[c], db) /\ db' = db /\ conn[c].pc = "check"
      /\ conn[c].goal \in Goals
  BY Acting DEF DInv, RequireVerified, ConnInv
<1>2. CASE conn[c].stale
  BY <1>1, <1>2, EndsQuiet, QuietMoves DEF RequireVerified, Ends
<1>3. CASE ~conn[c].stale
  <2> DEFINE k == [conn[c] EXCEPT !.pc = conn[c].goal]
  <2>1. /\ k.pc = conn[c].goal /\ k.read = conn[c].read /\ k.moved = conn[c].moved
        /\ k.stale = conn[c].stale
    BY <1>1 DEF Conn
  <2>2. Put(c, k)
    BY <1>3 DEF RequireVerified, Goto
  <2> HIDE DEF k
  <2>3. Remembers(k, db)
    BY <1>1, <2>1 DEF Remembers, At, Goals
  <2>. QED  BY <1>1, <2>2, <2>3, MovesRemember
<1>. QED  BY <1>2, <1>3

LEMMA ReadsRemember ==
  ASSUME IInv, DInv, NEW c \in Conns, ReadHead(c) \/ ExportArtifacts(c) \/ ExportEvents(c)
  PROVE  DInv'
<1>1. conn[c] \in Conn /\ Remembers(conn[c], db) /\ db \in Files
  BY Acting DEF DInv
<1>2. CASE ReadHead(c)
  <2> DEFINE k == Then("request", [conn[c] EXCEPT !.read.derived = db.derived])
  <2>1. k.pc = "check" /\ k.goal = "request" /\ k.read.derived = db.derived
    BY <1>1 DEF Conn, Files, Then
  <2>2. Put(c, k) /\ db' = db
    BY <1>2 DEF ReadHead, Read
  <2> HIDE DEF k
  <2>3. Remembers(k, db)
    BY <2>1 DEF Remembers, At
  <2>. QED  BY <2>2, <2>3, MovesRemember
<1>3. CASE ExportArtifacts(c)
  <2> DEFINE k == Then("x_events", [conn[c] EXCEPT !.read.arts = db.arts])
  <2>1. k.pc = "check" /\ k.goal = "x_events" /\ k.read.arts = db.arts
    BY <1>1 DEF Conn, Files, Then
  <2>2. Put(c, k) /\ db' = db
    BY <1>3 DEF ExportArtifacts, Read
  <2> HIDE DEF k
  <2>3. Remembers(k, db)
    BY <2>1 DEF Remembers, At
  <2>. QED  BY <2>2, <2>3, MovesRemember
<1>4. CASE ExportEvents(c)
  <2> DEFINE k == Then("x_head", [conn[c] EXCEPT !.read.events = db.events])
  <2>1. /\ k.pc = "check" /\ k.goal = "x_head" /\ k.read.events = db.events
        /\ k.read.arts = conn[c].read.arts /\ k.stale = conn[c].stale
    BY <1>1 DEF Conn, Files, Then
  <2>2. Put(c, k) /\ db' = db /\ conn[c].pc = "x_events"
    BY <1>4 DEF ExportEvents, Read
  <2>3. IsPrefix(db.events, db.events)
    BY <1>1, PrefixOfItself DEF Files
  <2> HIDE DEF k
  <2>4. Remembers(k, db)
    BY <1>1, <2>1, <2>2, <2>3 DEF Remembers, At
  <2>. QED  BY <2>2, <2>4, MovesRemember
<1>. QED  BY <1>2, <1>3, <1>4

LEMMA ReadRequestRemembers ==
  ASSUME IInv, DInv, NEW c \in Conns, ReadRequest(c)
  PROVE  DInv'
<1> DEFINE head    == conn[c].read.derived.head
           request == db.derived.snapshot
           batch(passport) == Batch(conn[c].op, head, request, passport)
           k(passport) == [conn[c] EXCEPT !.pc = "begin", !.request = request,
                                          !.batch = batch(passport)]
           Fits(passport) ==
             \/ conn[c].op \in Founding /\ db.events = <<>> /\ passport = 0
             \/ /\ conn[c].op = "decide" /\ head # Genesis /\ passport = 0
                /\ Outstanding(db.events, request) = {}
             \/ /\ conn[c].op \in {"answer", "accept"} /\ head # Genesis
                /\ \E d \in Outstanding(db.events, request) : passport = d.hash
             \/ /\ conn[c].op = "retract" /\ head # Genesis
                /\ \E d \in Retractable(db.events, request) : passport = d.hash
<1>1. /\ conn[c] \in Conn /\ Remembers(conn[c], db) /\ ConnInv(conn[c], db)
      /\ db \in Files /\ db' = db /\ conn[c].pc = "request" /\ conn[c].op \in Writing
      /\ Sound(db)
  BY Acting DEF DInv, ReadRequest, ConnInv
<1>2. \/ Ends(c, "rejected")
      \/ Put(c, Ready(c, "adopted"))
      \/ \E passport : Put(c, k(passport)) /\ Fits(passport)
  BY <1>1 DEF ReadRequest, Writing, Founding
<1>3. ASSUME NEW passport, Put(c, k(passport)), Fits(passport)
      PROVE  DInv'
  <2>1. k(passport).pc = "begin" /\ k(passport).batch = batch(passport)
        /\ k(passport).stale = conn[c].stale
    BY <1>1 DEF Conn
  <2>2. ASSUME ~conn[c].stale
        PROVE  Built(batch(passport), db.events)
                 /\ Inspected(db.events \o batch(passport))
    <3>1. db.derived = Replay(db.events) /\ conn[c].read.derived = db.derived
      BY <1>1, <2>2 DEF Remembers, At, ConnInv
    <3>2. head = HeadOf(db.events) /\ request = Replay(db.events).snapshot
      BY <3>1 DEF Replay
    <3>3. head # Genesis => db.events # <<>>
      BY <3>2 DEF HeadOf
    <3> HIDE DEF head, request
    <3>. QED  BY <1>1, <1>3, <3>2, <3>3, BuiltMayFollow
  <2> HIDE DEF k, batch
  <2>3. Remembers(k(passport), db)
    BY <2>1, <2>2 DEF Remembers, At
  <2>. QED  BY <1>1, <1>3, <2>3, MovesRemember
<1> HIDE DEF k, Fits
<1>. QED  BY <1>1, <1>2, <1>3, EndsQuiet, ReadyQuiet, QuietMoves DEF Ends

LEMMA BeginRemembers ==
  ASSUME IInv, DInv, NEW c \in Conns, Begin(c)
  PROVE  DInv'
<1>1. /\ conn[c] \in Conn /\ Remembers(conn[c], db) /\ db' = db /\ conn[c].pc = "begin"
  BY Acting DEF DInv, Begin
<1>2. \/ \E o : Ends(c, o)
      \/ VerifyFor(c, "adopt")
      \/ ~conn[c].stale /\ Goto(c, "write")
  BY DEF Begin
<1>3. CASE ~conn[c].stale /\ Goto(c, "write")
  <2> DEFINE k == [conn[c] EXCEPT !.pc = "write"]
  <2>1. k.pc = "write" /\ k.batch = conn[c].batch /\ k.stale = conn[c].stale
    BY <1>1 DEF Conn
  <2>2. Put(c, k)
    BY <1>3 DEF Goto
  <2> HIDE DEF k
  <2>3. Remembers(k, db)
    BY <1>1, <2>1 DEF Remembers, At
  <2>. QED  BY <1>1, <2>2, <2>3, MovesRemember
<1>. QED  BY <1>1, <1>2, <1>3, EndsQuiet, StepQuiet, QuietMoves DEF Ends, VerifyFor

(* Who has noticed a commit remembers only a part of what the file says now. *)
LEMMA NoticedRemember ==
  ASSUME IInv, DInv, NEW c \in Conns, NEW k, conn' = Noticed(c, k), Remembers(k, db'),
         Sound(db'),
         \A s \in Seq(Events) : IsPrefix(s, db.events) => IsPrefix(s, db'.events),
         \A d \in Conns \ {c} : conn[d].pc # "write"
  PROVE  DInv'
<1>1. conn'[c] = k
  BY DEF Noticed
<1>2. ASSUME NEW d \in Conns \ {c} PROVE Remembers(conn'[d], db')
  <2>1. conn[d] \in Conn /\ Remembers(conn[d], db) /\ conn[d].pc # "write"
    BY Acting DEF DInv
  <2>2. CASE conn[d].pc = "closed"
    <3>1. conn'[d] = conn[d]
      BY <2>2 DEF Noticed
    <3>. QED  BY <2>2, <3>1, QuietRemembers DEF Quiet
  <2>3. CASE conn[d].pc # "closed"
    <3>1. conn'[d] = [conn[d] EXCEPT !.moved = TRUE, !.stale = TRUE]
      BY <2>3 DEF Noticed
    <3>2. /\ conn'[d].pc = conn[d].pc /\ conn'[d].moved /\ conn'[d].stale
          /\ conn'[d].goal = conn[d].goal /\ conn'[d].read = conn[d].read
      BY <2>1, <3>1 DEF Conn
    <3>3. conn[d].read.events \in Seq(Events)
      BY <2>1 DEF Conn, Files
    <3>. QED  BY <2>1, <3>2, <3>3 DEF Remembers, At
  <2>. QED  BY <2>2, <2>3
<1>3. \A d \in Conns : Remembers(conn'[d], db')
  BY <1>1, <1>2
<1>. QED  BY <1>3 DEF DInv

LEMMA RebuildRemembers ==
  ASSUME IInv, DInv, NEW c \in Conns, RebuildDerived(c)
  PROVE  DInv'
<1> DEFINE k == [conn[c] EXCEPT !.pc = "v_again"]
<1>1. conn[c] \in Conn /\ db \in Files
  BY Acting
<1>2. k.pc = "v_again" /\ k.read = conn[c].read
  BY <1>1 DEF Conn
<1>3. /\ db'.events = db.events /\ db'.arts = db.arts
      /\ db'.derived = Replay(conn[c].read.events)
  BY <1>1 DEF RebuildDerived, Files
<1>4. conn' = Noticed(c, k)
  BY DEF RebuildDerived
<1>5. \A d \in Conns : conn[d].pc # "write"
  BY DEF RebuildDerived, IInv, TypeOK
<1> HIDE DEF k
<1>6. Remembers(k, db')
  BY <1>2, <1>3 DEF Remembers, At
<1>7. Sound(db')
  BY <1>3 DEF DInv, Sound
<1>. QED  BY <1>3, <1>4, <1>5, <1>6, <1>7, NoticedRemember

LEMMA CommitRemembers ==
  ASSUME IInv, DInv, NEW c \in Conns, Commit(c)
  PROVE  DInv'
<1> DEFINE E == db.events
           B == conn[c].batch
           k == [Ready(c, "committed") EXCEPT !.known = {Len(E \o B)}]
<1>1. /\ conn[c] \in Conn /\ db \in Files /\ Remembers(conn[c], db) /\ Sound(db)
      /\ E \in Seq(Events) /\ B \in Seq(Events)
  BY Acting DEF DInv, Conn, Files
<1>2. conn[c].pc = "write" /\ ~conn[c].stale
  BY Acting DEF Commit, ConnInv
<1>3. Built(B, E) /\ Inspected(E \o B)
  BY <1>1, <1>2 DEF Remembers
<1>4. /\ db'.events = E \o B /\ db'.arts = db.arts \union SubjectsOf(B)
      /\ conn' = Noticed(c, k)
  BY DEF Commit, SubjectsOf
<1>5. Quiet(k)
  <2>1. k.pc = "ready"
    BY <1>1 DEF Ready, Conn
  <2> HIDE DEF k
  <2>. QED  BY <2>1 DEF Quiet
<1>6. \A d \in Conns \ {c} : conn[d].pc # "write"
  BY <1>2 DEF IInv, OneWriter, TypeOK
<1> HIDE DEF k
<1>7. Sound(db')
  BY <1>1, <1>3, <1>4, SoundAppends
<1>8. \A s \in Seq(Events) : IsPrefix(s, E) => IsPrefix(s, E \o B)
  BY <1>1, PrefixGrows
<1>9. Remembers(k, db')
  BY <1>5, QuietRemembers
<1>. QED  BY <1>4, <1>6, <1>7, <1>8, <1>9, NoticedRemember

LEMMA InitDInv == Init => DInv
<1> SUFFICES ASSUME Init PROVE DInv
  OBVIOUS
<1>1. db.events = <<>> /\ db.arts = {}
  BY DEF Init
<1>2. ToSet(<<>>) = {}
  BY DEF ToSet
<1>3. Sound(db)
  <2>1. Numbered(<<>>) /\ Chained(<<>>) /\ Inspected(<<>>)
    BY DEF Numbered, Chained, Inspected
  <2>2. SubjectsOf(<<>>) = {} /\ Resolved(<<>>, {})
    BY <1>2 DEF SubjectsOf, Resolved
  <2>. QED  BY <1>1, <2>1, <2>2 DEF Sound
<1>4. \A c \in Conns : Remembers(conn[c], db)
  BY EndsQuiet, QuietRemembers DEF Init
<1>. QED  BY <1>3, <1>4 DEF DInv

LEMMA NextDInv == IInv /\ DInv /\ [Next]_vars => DInv'
<1> SUFFICES ASSUME IInv, DInv, [Next]_vars PROVE DInv'
  OBVIOUS
<1>1. CASE UNCHANGED vars
  BY <1>1 DEF vars, DInv
<1>2. CASE Next
  <2> PICK c \in Conns : Turn(c)
    BY <1>2 DEF Next, Turn
  <2>. QED  BY ForgettingRemembers, ReadingRemembers, AcceptRemembers,
               RequireVerifiedRemembers, ReadsRemember, ReadRequestRemembers,
               BeginRemembers, RebuildRemembers, CommitRemembers
            DEF Turn, VerifyStep, WriteStep, ExportStep
<1>. QED  BY <1>1, <1>2

------------------------------------------------------------------------------
LEMMA SpecDInv == Spec => [](IInv /\ DInv)
<1>1. Init => IInv /\ DInv
  BY InitIInv, InitDInv
<1>2. IInv /\ DInv /\ [Next]_vars => IInv' /\ DInv'
  BY NextIInv, NextDInv
<1>. QED  BY <1>1, <1>2, PTL DEF Spec

(* Two connections that decide the same request at once ask the user one question, for *)
(* any number of connections, any ledger and whichever requests have a question: append *)
(* (ledger_store.py:999) verifies the history that it would leave, under the lock that it *)
(* commits under; passport_state.py:420 is what it refuses there. *)
THEOREM OneQuestionIsOpen == Spec => []OneOpenQuestion
<1>1. IInv /\ DInv => OneOpenQuestion
  <2> SUFFICES ASSUME IInv, DInv PROVE OneOpenQuestion
    OBVIOUS
  <2>1. db \in Files /\ Sound(db)
    BY DEF IInv, TypeOK, DInv
  <2>. QED  BY <2>1, SoundHasOneQuestion DEF OneOpenQuestion
<1>. QED  BY <1>1, SpecDInv, PTL

------------------------------------------------------------------------------
(* The bundle that a step exports. *)
Whole ==
  bundle' # bundle =>
    LET E == bundle'.events
    IN  /\ IsPrefix(E, db.events)
        /\ bundle'.head = HeadOf(E)
        /\ bundle'.arts = UNION {e.subjects : e \in ToSet(E)}

LEMMA OnlyExportsBundle ==
  ASSUME NEW c \in Conns, Turn(c), bundle' # bundle
  PROVE  ExportHead(c)
<1>1. ~(Create(c) \/ CreateSchema(c) \/ Open(c) \/ Verify(c) \/ Export(c) \/ Close(c)
         \/ \E op \in Writing : Promote(c, op))
  BY DEF Create, CreateSchema, Open, Verify, Export, Close, Promote
<1>2. ~(VerifyStep(c) \/ Fail(c))
  BY DEF VerifyStep, ReadArtifacts, ReadEvents, ReadRelationships, ReadDerived,
         RebuildDerived, ReadDerivedAgain, Accept, Fail
<1>3. ~WriteStep(c)
  BY DEF WriteStep, RequireVerified, ReadHead, Read, ReadRequest, Begin, Commit, Adopt
<1>4. ~(ExportArtifacts(c) \/ ExportEvents(c))
  BY DEF ExportArtifacts, ExportEvents, Read
<1>. QED  BY <1>1, <1>2, <1>3, <1>4 DEF Turn, ExportStep

LEMMA ExportIsWhole ==
  ASSUME IInv, DInv, NEW c \in Conns, ExportHead(c)
  PROVE  Whole
<1> DEFINE read == conn[c].read
<1>1. Remembers(conn[c], db) /\ conn[c].pc = "x_head"
  BY DEF DInv, ExportHead
<1>2. IsPrefix(read.events, db.events)
  BY <1>1 DEF Remembers, At
<1>3. \/ UNCHANGED bundle
      \/ /\ bundle' = [head |-> db.derived.head, arts |-> read.arts, events |-> read.events]
         /\ db.derived.head = HeadOf(read.events)
         /\ read.arts = UNION {e.subjects : e \in ToSet(read.events)}
  BY DEF ExportHead
<1> HIDE DEF read
<1>. QED  BY <1>2, <1>3 DEF Whole

(* A bundle that is exported is the whole ledger as it was at one moment: *)
(* export_evidence_bundle (ledger_store.py:684) reads artifacts, events and head one by *)
(* one, while others append. *)
THEOREM BundlesAreWhole == Spec => BundleIsWholeLedger
<1>1. IInv /\ DInv /\ [Next]_vars =>
        [bundle' # bundle =>
           LET E == bundle'.events
           IN  /\ IsPrefix(E, db.events)
               /\ bundle'.head = HeadOf(E)
               /\ bundle'.arts = UNION {e.subjects : e \in ToSet(E)}]_vars
  <2> SUFFICES ASSUME IInv, DInv, Next, bundle' # bundle PROVE Whole
    BY DEF Whole, vars
  <2> PICK c \in Conns : Turn(c)
    BY DEF Next, Turn
  <2>1. ExportHead(c)
    BY OnlyExportsBundle
  <2>. QED  BY <2>1, ExportIsWhole
<1>. QED  BY <1>1, SpecDInv, PTL DEF Spec, BundleIsWholeLedger

------------------------------------------------------------------------------
(* Why a connection ends with an integrity error. *)
Refused(c) ==
  conn[c].pc # "closed" /\ conn'[c].pc = "closed" /\ conn'[c].outcome = "integrity"

Contended(c) == IF conn[c].pc \in Verifying THEN conn[c].moved ELSE conn[c].stale

Harmless(k) == k.pc = "closed" => k.outcome # "integrity"

LEMMA OthersRefuseNobody ==
  ASSUME IInv, NEW c \in Conns, NEW d \in Conns \ {c}, NEW k,
         Put(c, k) \/ conn' = Noticed(c, k)
  PROVE  ~Refused(d)
<1>1. conn[d] \in Conn
  BY Acting
<1>2. CASE Put(c, k)
  <2>1. conn'[d] = conn[d]
    BY <1>2 DEF Put, IInv, TypeOK
  <2>. QED  BY <2>1 DEF Refused
<1>3. CASE conn' = Noticed(c, k)
  <2>1. conn[d].pc # "closed" => conn'[d] = [conn[d] EXCEPT !.moved = TRUE, !.stale = TRUE]
    BY <1>3 DEF Noticed
  <2>2. conn[d].pc # "closed" => conn'[d].pc = conn[d].pc
    BY <1>1, <2>1 DEF Conn
  <2>. QED  BY <2>2 DEF Refused
<1>. QED  BY <1>2, <1>3

(* One connection changes, and its new state does no harm or is what the six steps that *)
(* may refuse make of it. *)
Changes(c) == \E k : Harmless(k) /\ (Put(c, k) \/ conn' = Noticed(c, k))

Refuses(c) ==
  /\ Ends(c, "integrity")
  /\ \/ ReadRelationships(c) \/ ReadDerivedAgain(c) \/ Accept(c)
     \/ RequireVerified(c) \/ Begin(c) \/ ExportHead(c)

LEMMA HarmlessRecords ==
  ASSUME IInv, NEW c \in Conns
  PROVE  /\ \A o \in Outcomes \ {"integrity"} : Harmless(Closed(o))
         /\ \A o : Harmless(Ready(c, o))
         /\ \A pc \in Steps \ {"closed"} : Harmless([conn[c] EXCEPT !.pc = pc])
         /\ \A op : Harmless([conn[c] EXCEPT !.pc = "v_arts", !.op = op, !.moved = FALSE,
                                             !.read = NoRead, !.batch = <<>>])
<1>1. conn[c] \in Conn
  BY Acting
<1>2. \A o : Ready(c, o).pc = "ready"
  BY <1>1 DEF Ready, Conn
<1>3. \A o : Closed(o).outcome = o
  BY DEF Closed
<1>4. \A pc : [conn[c] EXCEPT !.pc = pc].pc = pc
  BY <1>1 DEF Conn
<1>5. \A op : [conn[c] EXCEPT !.pc = "v_arts", !.op = op, !.moved = FALSE,
                              !.read = NoRead, !.batch = <<>>].pc = "v_arts"
  BY <1>1 DEF Conn
<1>. QED  BY <1>2, <1>3, <1>4, <1>5 DEF Harmless

LEMMA TurnChanges ==
  ASSUME IInv, NEW c \in Conns, Turn(c)
  PROVE  Changes(c) \/ Refuses(c)
<1>0. conn[c] \in Conn /\ ConnInv(conn[c], db)
  BY Acting
<1>1. ASSUME Create(c) \/ CreateSchema(c) \/ Open(c) \/ Verify(c) \/ Export(c) \/ Close(c)
      PROVE  Changes(c)
  BY <1>1, HarmlessRecords
     DEF Create, CreateSchema, Open, Verify, Export, Close, Goto, Ends, VerifyFor, Changes,
         Outcomes, Steps
<1>2. ASSUME NEW op \in Writing, Promote(c, op)
      PROVE  Changes(c)
  <2>1. [conn[c] EXCEPT !.pc = "check", !.op = op, !.goal = "head"].pc = "check"
    BY <1>0 DEF Conn
  <2>. QED  BY <1>2, <2>1 DEF Promote, Changes, Harmless
<1>3. ASSUME ReadArtifacts(c) \/ ReadEvents(c) PROVE Changes(c)
  <2>1. /\ [conn[c] EXCEPT !.pc = "v_events", !.read.arts = db.arts].pc = "v_events"
        /\ [conn[c] EXCEPT !.pc = "v_links", !.read.events = db.events].pc = "v_links"
    BY <1>0 DEF Conn
  <2>. QED  BY <1>3, <2>1 DEF ReadArtifacts, ReadEvents, Changes, Harmless
<1>4. ASSUME ReadHead(c) \/ ExportArtifacts(c) \/ ExportEvents(c) PROVE Changes(c)
  <2>1. /\ Then("request", [conn[c] EXCEPT !.read.derived = db.derived]).pc = "check"
        /\ Then("x_events", [conn[c] EXCEPT !.read.arts = db.arts]).pc = "check"
        /\ Then("x_head", [conn[c] EXCEPT !.read.events = db.events]).pc = "check"
    BY <1>0 DEF Conn, Then
  <2>. QED  BY <1>4, <2>1 DEF ReadHead, ExportArtifacts, ExportEvents, Read, Changes, Harmless
<1>5. ASSUME ReadRelationships(c) \/ ReadDerivedAgain(c) \/ RequireVerified(c)
      PROVE  Changes(c) \/ Refuses(c)
  <2>1. RequireVerified(c) => conn[c].goal \in Steps \ {"closed"}
    BY <1>0 DEF RequireVerified, ConnInv, Goals, Steps
  <2>. QED  BY <1>5, <2>1, HarmlessRecords
            DEF ReadRelationships, ReadDerivedAgain, RequireVerified, Goto, Changes, Refuses,
                Steps
<1>6. ASSUME ReadDerived(c) PROVE Changes(c)
  BY <1>6, HarmlessRecords DEF ReadDerived, Goto, Changes, Steps
<1>7. ASSUME RebuildDerived(c) \/ Commit(c) PROVE Changes(c)
  <2> DEFINE k == [Ready(c, "committed") EXCEPT !.known = {Len(db.events \o conn[c].batch)}]
  <2>1. k.pc = "ready"
    BY <1>0 DEF Ready, Conn
  <2>2. Harmless(k) /\ Harmless([conn[c] EXCEPT !.pc = "v_again"])
    BY <2>1, HarmlessRecords DEF Harmless, Steps
  <2>3. conn' = Noticed(c, k) \/ conn' = Noticed(c, [conn[c] EXCEPT !.pc = "v_again"])
    BY <1>7 DEF RebuildDerived, Commit
  <2> HIDE DEF k
  <2>. QED  BY <2>2, <2>3 DEF Changes
<1>8. ASSUME Accept(c) PROVE Changes(c) \/ Refuses(c)
  <2> DEFINE v == [Ready(c, "verified") EXCEPT !.stale = FALSE,
                                               !.known = {Len(conn[c].read.events)}]
             adopts  == [v EXCEPT !.pc = "check", !.op = "adopt", !.goal = "winner",
                                  !.request = conn[c].request]
             exports == [v EXCEPT !.pc = "check", !.op = "export", !.goal = "x_arts"]
  <2>1. v.pc = "ready" /\ adopts.pc = "check" /\ exports.pc = "check"
    BY <1>0 DEF Ready, Conn
  <2>2. Ends(c, "integrity") \/ Put(c, v) \/ Put(c, adopts) \/ Put(c, exports)
    BY <1>8 DEF Accept
  <2> HIDE DEF v, adopts, exports
  <2>. QED  BY <1>8, <2>1, <2>2 DEF Changes, Refuses, Harmless
<1>9. ASSUME ReadRequest(c) PROVE Changes(c)
  <2> DEFINE k(p) == [conn[c] EXCEPT !.pc = "begin", !.request = db.derived.snapshot,
                        !.batch = Batch(conn[c].op, conn[c].read.derived.head,
                                        db.derived.snapshot, p)]
  <2>1. conn[c].op \in Writing
    BY <1>0, <1>9 DEF ReadRequest, ConnInv
  <2>2. Ends(c, "rejected") \/ Put(c, Ready(c, "adopted")) \/ \E p : Put(c, k(p))
    BY <1>9, <2>1 DEF ReadRequest, Writing, Founding
  <2>3. \A p : k(p).pc = "begin"
    BY <1>0 DEF Conn
  <2> HIDE DEF k
  <2>4. \A p : Harmless(k(p))
    BY <2>3 DEF Harmless
  <2>5. Harmless(Closed("rejected")) /\ Harmless(Ready(c, "adopted"))
    BY HarmlessRecords DEF Outcomes
  <2>. QED  BY <2>2, <2>4, <2>5 DEF Changes, Ends
<1>10. ASSUME Begin(c) PROVE Changes(c) \/ Refuses(c)
  BY <1>10, HarmlessRecords DEF Begin, Goto, Ends, VerifyFor, Changes, Refuses, Outcomes, Steps
<1>11. ASSUME Adopt(c) \/ Fail(c) PROVE Changes(c)
  BY <1>11, HarmlessRecords DEF Adopt, Fail, Ends, Changes, Outcomes
<1>12. ASSUME ExportHead(c) PROVE Changes(c) \/ Refuses(c)
  <2>1. Put(c, Ready(c, "exported")) \/ Ends(c, "rejected") \/ Ends(c, "integrity")
    BY <1>12 DEF ExportHead
  <2>. QED  BY <1>12, <2>1, HarmlessRecords DEF Ends, Changes, Refuses, Outcomes
<1>. QED  BY <1>1, <1>2, <1>3, <1>4, <1>5, <1>6, <1>7, <1>8, <1>9, <1>10, <1>11, <1>12
          DEF Turn, VerifyStep, WriteStep, ExportStep

(* Whoever is refused has read what a commit of somebody else has made out of date. *)
LEMMA RefusalIsContention ==
  ASSUME IInv, DInv, NEW c \in Conns, Refuses(c)
  PROVE  Contended(c)
<1> DEFINE read == conn[c].read
<1>1. /\ conn[c] \in Conn /\ ConnInv(conn[c], db) /\ Remembers(conn[c], db)
      /\ db \in Files /\ Sound(db) /\ Ends(c, "integrity")
  BY Acting DEF DInv, Refuses
<1>2. conn'[c] = Closed("integrity") /\ conn'[c].pc = "closed"
  BY <1>1 DEF Ends, Put, IInv, TypeOK, Closed
<1>3. ASSUME NEW pc \in Steps \ {"closed"}, Goto(c, pc) PROVE FALSE
  <2>1. [conn[c] EXCEPT !.pc = pc].pc = pc
    BY <1>1 DEF Conn
  <2>. QED  BY <1>2, <1>3, <2>1 DEF Goto, Put, IInv, TypeOK
<1>4. CASE ReadRelationships(c)
  <2>1. SUFFICES ASSUME ~conn[c].moved PROVE FALSE
    BY <1>4 DEF ReadRelationships, Contended, Verifying
  <2>2. read.events = db.events /\ read.arts = db.arts
    BY <1>1, <1>4, <2>1 DEF ReadRelationships, ConnInv, Remembers, Loaded
  <2>3. Goto(c, "v_derived")
    BY <1>1, <1>4, <2>2 DEF ReadRelationships, Sound
  <2>. QED  BY <1>3, <2>3 DEF Steps
<1>5. CASE ReadDerivedAgain(c)
  <2>1. SUFFICES ASSUME ~conn[c].moved PROVE FALSE
    BY <1>5 DEF ReadDerivedAgain, Contended, Verifying
  <2>2. Goto(c, "v_accept")
    BY <1>1, <1>5, <2>1 DEF ReadDerivedAgain, Remembers
  <2>. QED  BY <1>3, <2>2 DEF Steps
<1>6. CASE Accept(c)
  <2>1. SUFFICES ASSUME ~conn[c].moved PROVE FALSE
    BY <1>6 DEF Accept, Contended, Verifying
  <2>2. conn'[c].pc # "closed"
    <3> DEFINE v == [Ready(c, "verified") EXCEPT !.stale = FALSE,
                                                 !.known = {Len(conn[c].read.events)}]
               adopts  == [v EXCEPT !.pc = "check", !.op = "adopt", !.goal = "winner",
                                    !.request = conn[c].request]
               exports == [v EXCEPT !.pc = "check", !.op = "export", !.goal = "x_arts"]
    <3>1. v.pc = "ready" /\ adopts.pc = "check" /\ exports.pc = "check"
      BY <1>1 DEF Ready, Conn
    <3>2. Put(c, v) \/ Put(c, adopts) \/ Put(c, exports)
      BY <1>6, <2>1 DEF Accept
    <3> HIDE DEF v, adopts, exports
    <3>. QED  BY <3>1, <3>2 DEF Put, IInv, TypeOK
  <2>. QED  BY <1>2, <2>2
<1>7. CASE RequireVerified(c)
  <2>1. conn[c].pc = "check"
    BY <1>7 DEF RequireVerified
  <2>2. SUFFICES ASSUME ~conn[c].stale PROVE FALSE
    BY <2>1 DEF Contended, Verifying
  <2>3. conn[c].goal \in Steps \ {"closed"} /\ Goto(c, conn[c].goal)
    BY <1>1, <1>7, <2>2 DEF RequireVerified, ConnInv, Goals, Steps
  <2>. QED  BY <1>3, <2>3
<1>8. CASE Begin(c)
  <2>1. conn[c].pc = "begin"
    BY <1>8 DEF Begin
  <2>2. SUFFICES ASSUME ~conn[c].stale PROVE FALSE
    BY <2>1 DEF Contended, Verifying
  <2>3. db.derived.head = HeadOf(db.events) /\ Inspected(db.events \o conn[c].batch)
    BY <1>1, <2>1, <2>2 DEF ConnInv, Remembers, Replay
  <2>4. Ends(c, "conflict") \/ VerifyFor(c, "adopt") \/ Goto(c, "write")
    BY <1>8, <2>2, <2>3 DEF Begin
  <2>5. \E k : Harmless(k) /\ Put(c, k)
    BY <2>4, HarmlessRecords DEF Ends, VerifyFor, Goto, Outcomes, Steps
  <2>. QED  BY <1>2, <2>5 DEF Put, IInv, TypeOK, Harmless, Closed
<1>9. CASE ExportHead(c)
  <2>1. conn[c].pc = "x_head"
    BY <1>9 DEF ExportHead
  <2>2. SUFFICES ASSUME ~conn[c].stale PROVE FALSE
    BY <2>1 DEF Contended, Verifying
  <2>3. /\ read.events = db.events /\ read.arts = db.arts
        /\ db.derived.head = HeadOf(db.events)
    BY <1>1, <2>1, <2>2 DEF ConnInv, Remembers, At, Replay
  <2>4. read.events # <<>> => db.derived.head # Genesis
    <3>1. db.events # <<>> => HeadOf(db.events) = [seq |-> Len(db.events),
                                                   hash |-> Last(db.events).hash]
      BY DEF HeadOf
    <3>2. db.events # <<>> => Len(db.events) # 0
      BY <1>1, EmptySeq DEF Files
    <3>. QED  BY <2>3, <3>1, <3>2 DEF Genesis
  <2>5. Put(c, Ready(c, "exported")) \/ Ends(c, "rejected")
    BY <1>1, <1>9, <2>3, <2>4 DEF ExportHead, Sound, SubjectsOf
  <2>6. \E k : Harmless(k) /\ Put(c, k)
    BY <2>5, HarmlessRecords DEF Ends, Outcomes
  <2>. QED  BY <1>2, <2>6 DEF Put, IInv, TypeOK, Harmless, Closed
<1>. QED  BY <1>4, <1>5, <1>6, <1>7, <1>8, <1>9 DEF Refuses

(* A connection ends with an integrity error only when another one has committed while it *)
(* was verifying or since what it verified: the errors of verify, append and *)
(* export_evidence_bundle in ledger_store.py never blame the file itself. *)
THEOREM IntegrityErrorsBlameOthers == Spec => IntegrityErrorsAreContention
<1>1. IInv /\ DInv /\ [Next]_vars =>
        [\A c \in Conns :
           /\ conn[c].pc # "closed"
           /\ conn'[c].pc = "closed" /\ conn'[c].outcome = "integrity"
           => IF conn[c].pc \in Verifying THEN conn[c].moved ELSE conn[c].stale]_vars
  <2> SUFFICES ASSUME IInv, DInv, Next, NEW d \in Conns, Refused(d) PROVE Contended(d)
    BY DEF Refused, Contended
  <2>1. PICK c \in Conns : Turn(c)
    BY DEF Next, Turn
  <2>2. CASE Refuses(c)
    <3>1. d = c
      BY <2>2, OthersRefuseNobody DEF Refuses, Ends
    <3>. QED  BY <2>2, <3>1, RefusalIsContention
  <2>3. CASE Changes(c)
    <3>1. PICK k : Harmless(k) /\ (Put(c, k) \/ conn' = Noticed(c, k))
      BY <2>3 DEF Changes
    <3>2. d = c
      BY <3>1, OthersRefuseNobody
    <3>3. conn'[c] = k
      BY <3>1 DEF Put, Noticed, IInv, TypeOK
    <3>. QED  BY <3>1, <3>2, <3>3 DEF Refused, Harmless
  <2>. QED  BY <2>1, <2>2, <2>3, TurnChanges
<1>. QED  BY <1>1, SpecDInv, PTL DEF Spec, IntegrityErrorsAreContention
==============================================================================
