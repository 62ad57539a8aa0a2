--------------------------- MODULE Pipeline_proofs ---------------------------
EXTENDS Pipeline, FiniteSetTheorems, SequenceTheorems, WellFoundedInduction, TLAPS

------------------------------------------------------------------------------
(* Types.                                                                    *)

ResultsOK(R) ==
  /\ DOMAIN R \subseteq Ids
  /\ \A s \in DOMAIN R : R[s].cols \subseteq Keys /\ R[s].vars \subseteq Keys

PipeOK(p) ==
  /\ DOMAIN p = {"source", "steps", "params", "results", "owned", "dirtyKeys", "current",
                  "analyses"}
  /\ p.source \in Sources
  /\ p.steps \in Seq(Ids)
  /\ DOMAIN p.params = Ids /\ \A s \in Ids : p.params[s] \in ParamsOf(s)
  /\ ResultsOK(p.results)
  /\ PartialOn(p.owned, Ids, OwnerKeys) /\ PartialOn(p.dirtyKeys, Ids, Keys)
  /\ DOMAIN p.current \subseteq Keys /\ DOMAIN p.analyses \subseteq Keys

CallOK(c) ==
  \/ DOMAIN c = {"pc"} /\ c.pc \in {"idle", "failed"}
  \/ /\ DOMAIN c = {"pc", "dirty", "keys", "restores", "next", "before"}
     /\ c.pc = "begin"
     /\ PipeOK(c.before)
  \/ /\ DOMAIN c = {"pc", "dirty", "todo", "ds", "an", "results", "owned", "dirtyKeys",
                    "restores", "next", "before"}
     /\ c.pc = "walk"
     /\ PipeOK(c.before)
     /\ c.todo \in Seq(Ids)
     /\ DOMAIN c.ds \subseteq Keys /\ DOMAIN c.an \subseteq Keys
     /\ ResultsOK(c.results)
     /\ PartialOn(c.owned, Ids, OwnerKeys) /\ PartialOn(c.dirtyKeys, Ids, Keys)

TInv ==
  /\ file \in Files
  /\ PipeOK(Now)
  /\ DOMAIN call = Threads
  /\ \A t \in Threads : CallOK(call[t])

LEMMA NowFields ==
  /\ Now.source = source /\ Now.steps = steps /\ Now.params = params
  /\ Now.results = results /\ Now.owned = owned /\ Now.dirtyKeys = dirtyKeys
  /\ Now.current = current /\ Now.analyses = analyses
BY DEF Now

\* What the types say of the variables themselves.
LEMMA NowOK ==
  PipeOK(Now) <=>
    /\ source \in Sources
    /\ steps \in Seq(Ids)
    /\ DOMAIN params = Ids /\ \A s \in Ids : params[s] \in ParamsOf(s)
    /\ ResultsOK(results)
    /\ PartialOn(owned, Ids, OwnerKeys) /\ PartialOn(dirtyKeys, Ids, Keys)
    /\ DOMAIN current \subseteq Keys /\ DOMAIN analyses \subseteq Keys
<1>1. DOMAIN Now = {"source", "steps", "params", "results", "owned", "dirtyKeys", "current",
                    "analyses"}
  BY DEF Now
<1> QED
  BY <1>1, NowFields DEF PipeOK

LEMMA NowOKNext ==
  PipeOK(Now)' <=>
    /\ source' \in Sources
    /\ steps' \in Seq(Ids)
    /\ DOMAIN params' = Ids /\ \A s \in Ids : params'[s] \in ParamsOf(s)
    /\ ResultsOK(results')
    /\ PartialOn(owned', Ids, OwnerKeys) /\ PartialOn(dirtyKeys', Ids, Keys)
    /\ DOMAIN current' \subseteq Keys /\ DOMAIN analyses' \subseteq Keys
<1>1. /\ Now'.source = source' /\ Now'.steps = steps' /\ Now'.params = params'
      /\ Now'.results = results' /\ Now'.owned = owned' /\ Now'.dirtyKeys = dirtyKeys'
      /\ Now'.current = current' /\ Now'.analyses = analyses'
  BY DEF Now
<1>2. DOMAIN Now' = {"source", "steps", "params", "results", "owned", "dirtyKeys", "current",
                     "analyses"}
  BY DEF Now
<1> QED
  BY <1>1, <1>2 DEF PipeOK

LEMMA InitTypes == Init => TInv
<1> SUFFICES ASSUME Init PROVE TInv
  OBVIOUS
<1>1. file \in Files /\ source \in Sources
  BY DEF Init
<1>2. steps = <<>> /\ steps \in Seq(Ids)
  BY DEF Init
<1>3. DOMAIN params = Ids
  BY DEF Init
<1>4. ASSUME NEW s \in Ids PROVE params[s] \in ParamsOf(s)
  <2>1. params[s] = CHOOSE p \in ParamsOf(s) : TRUE
    BY DEF Init
  <2>2. \E p \in ParamsOf(s) : TRUE
    BY StepsAssumption
  <2> QED
    BY <2>1, <2>2
<1>5. DOMAIN results = {} /\ DOMAIN owned = {} /\ DOMAIN dirtyKeys = {} /\ DOMAIN analyses = {}
  BY DEF Init
<1>6. DOMAIN current \subseteq Keys
  BY <1>1, StepsAssumption DEF Init, SourceData
<1>7. PipeOK(Now)
  BY <1>1, <1>2, <1>3, <1>4, <1>5, <1>6, NowOK DEF ResultsOK, PartialOn
<1>8. DOMAIN call = Threads /\ \A t \in Threads : call[t] = [pc |-> "idle"]
  BY DEF Init
<1>9. \A t \in Threads : CallOK(call[t])
  BY <1>8 DEF CallOK
<1> QED
  BY <1>1, <1>7, <1>8, <1>9 DEF TInv

\* A call that fails puts back what was well typed.
LEMMA FailTypes ==
  ASSUME TInv, NEW t \in Threads, call[t].pc \in {"begin", "walk"}, Fail(t)
  PROVE  TInv'
<1>1. PipeOK(call[t].before)
  BY DEF TInv, CallOK
<1>2. PipeOK(Now)
  BY DEF TInv
<1> DEFINE b == call[t].before
<1>3. /\ b.source \in Sources
      /\ b.steps \in Seq(Ids)
      /\ DOMAIN b.params = Ids /\ \A s \in Ids : b.params[s] \in ParamsOf(s)
      /\ ResultsOK(b.results)
      /\ PartialOn(b.owned, Ids, OwnerKeys) /\ PartialOn(b.dirtyKeys, Ids, Keys)
      /\ DOMAIN b.current \subseteq Keys /\ DOMAIN b.analyses \subseteq Keys
  BY <1>1 DEF PipeOK
<1>4. /\ source' \in {source, b.source} /\ steps' \in {steps, b.steps}
      /\ params' \in {params, b.params} /\ results' \in {results, b.results}
      /\ owned' \in {owned, b.owned} /\ dirtyKeys' \in {dirtyKeys, b.dirtyKeys}
      /\ current' \in {current, b.current} /\ analyses' \in {analyses, b.analyses}
  BY DEF Fail, Restored
<1>5. call' = [call EXCEPT ![t] = [pc |-> "failed"]] /\ file' = file
  BY DEF Fail
<1>6. PipeOK(Now)'
  <2> HIDE DEF b
  <2> QED
    BY <1>2, <1>3, <1>4, NowOK, NowOKNext
<1>7. DOMAIN call' = Threads
  BY <1>5 DEF TInv
<1>8. \A u \in Threads : call'[u] = call[u] \/ call'[u] = [pc |-> "failed"]
  BY <1>5 DEF TInv
<1>9. \A u \in Threads : CallOK(call'[u])
  BY <1>8 DEF TInv, CallOK
<1> QED
  BY <1>5, <1>6, <1>7, <1>9 DEF TInv

\* The list with a step put in, and the list without one.
PutIn(L, i, s) == SubSeq(L, 1, i) \o <<s>> \o SubSeq(L, i + 1, Len(L))

LEMMA PutInOK ==
  ASSUME NEW L, L \in Seq(Ids), NEW s \in Ids, NEW i \in 1..Len(L)
  PROVE  /\ PutIn(L, i, s) \in Seq(Ids)
         /\ Len(PutIn(L, i, s)) = Len(L) + 1
         /\ \A j \in 1..(Len(L) + 1) :
              PutIn(L, i, s)[j] = IF j <= i THEN L[j]
                                  ELSE IF j = i + 1 THEN s ELSE L[j - 1]
<1> DEFINE a == SubSeq(L, 1, i)  b == SubSeq(L, i + 1, Len(L))
<1>1. Len(L) \in Nat /\ i \in Nat /\ i <= Len(L)
  OBVIOUS
<1>2. a \in Seq(Ids) /\ Len(a) = i /\ \A j \in 1..i : a[j] = L[j]
  BY <1>1
<1>3. b \in Seq(Ids) /\ Len(b) = Len(L) - i
  BY <1>1
<1>4. \A j \in 1..(Len(L) - i) : b[j] = L[i + j]
  BY <1>1
<1>5. PutIn(L, i, s) = a \o <<s>> \o b
  BY DEF PutIn
<1> HIDE DEF a, b
<1>6. PutIn(L, i, s) \in Seq(Ids) /\ Len(PutIn(L, i, s)) = Len(L) + 1
  <2>1. <<s>> \in Seq(Ids) /\ Len(<<s>>) = 1
    OBVIOUS
  <2>2. a \o <<s>> \in Seq(Ids) /\ Len(a \o <<s>>) = Len(a) + 1
    <3>1. a \in Seq(Ids)
      BY <1>2
    <3> QED
      BY <3>1, <2>1, ConcatProperties, Zenon
  <2>3. (a \o <<s>>) \o b \in Seq(Ids)
        /\ Len((a \o <<s>>) \o b) = Len(a \o <<s>>) + Len(b)
    <3>1. b \in Seq(Ids)
      BY <1>3
    <3> QED
      BY <3>1, <2>2, ConcatProperties, Zenon
  <2>4. PutIn(L, i, s) \in Seq(Ids) /\ Len(PutIn(L, i, s)) = (Len(a) + 1) + Len(b)
    BY <1>5, <2>2, <2>3, Zenon
  <2>5. (Len(a) + 1) + Len(b) = Len(L) + 1
    BY <1>1, <1>2, <1>3
  <2> QED
    BY <2>4, <2>5, Zenon
<1>7. ASSUME NEW j \in 1..(Len(L) + 1)
      PROVE  PutIn(L, i, s)[j] = IF j <= i THEN L[j]
                                 ELSE IF j = i + 1 THEN s ELSE L[j - 1]
  <2>1. CASE j <= i
    BY <2>1, <1>1, <1>2, <1>3, <1>5
  <2>2. CASE j = i + 1
    BY <2>2, <1>1, <1>2, <1>3, <1>5
  <2>3. CASE j > i + 1
    <3>1. j - (i + 1) \in 1..(Len(L) - i)
      BY <2>3, <1>1
    <3>2. PutIn(L, i, s)[j] = b[j - (i + 1)]
      BY <2>3, <1>1, <1>2, <1>3, <1>5
    <3>3. b[j - (i + 1)] = L[i + (j - (i + 1))]
      BY <3>1, <1>4
    <3> QED
      BY <2>3, <3>2, <3>3, <1>1
  <2> QED
    BY <2>1, <2>2, <2>3, <1>1
<1> QED
  BY <1>6, <1>7

LEMMA InsertAtOK ==
  ASSUME steps \in Seq(Ids), NEW s \in Ids, NEW i \in 1..Len(steps)
  PROVE  InsertAt(i, s) = PutIn(steps, i, s) /\ InsertAt(i, s) \in Seq(Ids)
<1>1. InsertAt(i, s) = PutIn(steps, i, s)
  BY DEF InsertAt, PutIn
<1> QED
  BY <1>1, PutInOK

LEMMA StepsWithoutOK ==
  ASSUME steps \in Seq(Ids), NEW s \in StepSet
  PROVE  /\ StepsWithout(s) \in Seq(Ids)
         /\ Len(StepsWithout(s)) = Len(steps) - 1
         /\ \E i \in 1..Len(steps) :
              /\ steps[i] = s
              /\ \A j \in 1..(Len(steps) - 1) :
                   StepsWithout(s)[j] = IF j < i THEN steps[j] ELSE steps[j + 1]
<1> DEFINE i == CHOOSE j \in DOMAIN steps : steps[j] = s
<1> DEFINE a == SubSeq(steps, 1, i - 1)  b == SubSeq(steps, i + 1, Len(steps))
<1>1. i \in 1..Len(steps) /\ steps[i] = s
  <2>1. \E j \in DOMAIN steps : steps[j] = s
    BY DEF StepSet
  <2>2. i \in DOMAIN steps /\ steps[i] = s
    BY <2>1
  <2> QED
    BY <2>2
<1>5. StepsWithout(s) = a \o b
  BY DEF StepsWithout
<1> HIDE DEF i
<1>2. a \in Seq(Ids) /\ Len(a) = i - 1 /\ \A j \in 1..(i - 1) : a[j] = steps[j]
  BY <1>1
<1>3. b \in Seq(Ids) /\ Len(b) = Len(steps) - i
  BY <1>1
<1>4. \A j \in 1..(Len(steps) - i) : b[j] = steps[i + j]
  BY <1>1
<1> HIDE DEF a, b
<1>6. StepsWithout(s) \in Seq(Ids) /\ Len(StepsWithout(s)) = Len(steps) - 1
  <2>1. a \in Seq(Ids) /\ b \in Seq(Ids)
    BY <1>2, <1>3
  <2>2. a \o b \in Seq(Ids) /\ Len(a \o b) = Len(a) + Len(b)
    BY <2>1, ConcatProperties, Zenon
  <2> QED
    BY <1>1, <1>2, <1>3, <1>5, <2>2
<1>7. ASSUME NEW j \in 1..(Len(steps) - 1)
      PROVE  StepsWithout(s)[j] = IF j < i THEN steps[j] ELSE steps[j + 1]
  <2>1. CASE j < i
    BY <2>1, <1>1, <1>2, <1>3, <1>5
  <2>2. CASE j >= i
    <3>1. j - (i - 1) \in 1..(Len(steps) - i)
      BY <2>2, <1>1
    <3>2. StepsWithout(s)[j] = b[j - (i - 1)]
      BY <2>2, <1>1, <1>2, <1>3, <1>5
    <3>3. b[j - (i - 1)] = steps[i + (j - (i - 1))]
      BY <3>1, <1>4
    <3> QED
      BY <2>2, <3>2, <3>3, <1>1
  <2> QED
    BY <2>1, <2>2, <1>1
<1> QED
  BY <1>1, <1>6, <1>7

\* A method that begins a walk keeps the types of what it leaves alone.
LEMMA BeginTypes ==
  ASSUME TInv, NEW t \in Threads, NEW d, NEW keys, NEW restores, NEW next,
         Begin(t, d, keys, restores, next)
  PROVE  /\ DOMAIN call' = Threads
         /\ \A u \in Threads : CallOK(call'[u])
         /\ call'[t] = [pc |-> "begin", dirty |-> d, keys |-> keys,
                        restores |-> restores, next |-> next, before |-> Now]
<1> DEFINE c == [pc |-> "begin", dirty |-> d, keys |-> keys, restores |-> restores,
                 next |-> next, before |-> Now]
<1>1. call' = [call EXCEPT ![t] = c]
  BY DEF Begin
<1>2. c.pc = "begin" /\ c.before = Now
      /\ DOMAIN c = {"pc", "dirty", "keys", "restores", "next", "before"}
  OBVIOUS
<1>3. CallOK(c)
  <2> HIDE DEF c
  <2> QED
    BY <1>2 DEF TInv, CallOK
<1> HIDE DEF c
<1>4. DOMAIN call' = Threads /\ call'[t] = c /\ \A u \in Threads : u # t => call'[u] = call[u]
  BY <1>1 DEF TInv
<1>5. \A u \in Threads : CallOK(call'[u])
  BY <1>3, <1>4 DEF TInv
<1> QED
  BY <1>4, <1>5 DEF c

LEMMA AddTypes ==
  ASSUME TInv, NEW t \in Threads, NEW s \in Ids, NEW p \in ParamsOf(s), Add(t, s, p)
  PROVE  TInv'
<1>1. PipeOK(Now)
  BY DEF TInv
<1>2. steps' \in Seq(Ids)
  BY <1>1, NowOK DEF Add
<1>3. DOMAIN params' = Ids /\ \A u \in Ids : params'[u] \in ParamsOf(u)
  BY <1>1, NowOK DEF Add
<1> QED
  BY <1>1, <1>2, <1>3, NowOK, NowOKNext DEF Add, TInv

LEMMA InsertTypes ==
  ASSUME TInv, NEW t \in Threads, NEW s \in Ids, NEW p \in ParamsOf(s), NEW i \in 1..Len(steps),
         InsertAfter(t, i, s, p) \/ InsertAfterAndRecompute(t, i, s, p)
  PROVE  TInv'
<1>1. PipeOK(Now)
  BY DEF TInv
<1>2. steps' \in Seq(Ids)
  BY <1>1, NowOK, InsertAtOK DEF InsertAfter, InsertAfterAndRecompute
<1>3. DOMAIN params' = Ids /\ \A u \in Ids : params'[u] \in ParamsOf(u)
  BY <1>1, NowOK DEF InsertAfter, InsertAfterAndRecompute
<1>4. PipeOK(Now)'
  BY <1>1, <1>2, <1>3, NowOK, NowOKNext DEF InsertAfter, InsertAfterAndRecompute
<1>5. DOMAIN call' = Threads /\ \A u \in Threads : CallOK(call'[u])
  <2>1. CASE InsertAfter(t, i, s, p)
    BY <2>1 DEF InsertAfter, TInv
  <2>2. CASE InsertAfterAndRecompute(t, i, s, p)
    BY <2>2, BeginTypes DEF InsertAfterAndRecompute
  <2> QED
    BY <2>1, <2>2
<1> QED
  BY <1>4, <1>5 DEF InsertAfter, InsertAfterAndRecompute, TInv

LEMMA RemoveTypes ==
  ASSUME TInv, NEW t \in Threads, NEW s \in Ids, Remove(t, s)
  PROVE  TInv'
<1>1. PipeOK(Now)
  BY DEF TInv
<1>2. steps' \in Seq(Ids)
  BY <1>1, NowOK, StepsWithoutOK DEF Remove
<1>3. ResultsOK(results') /\ PartialOn(owned', Ids, OwnerKeys) /\ PartialOn(dirtyKeys', Ids, Keys)
  BY <1>1, NowOK DEF Remove, Without, ResultsOK, PartialOn
<1>4. PipeOK(Now)'
  BY <1>1, <1>2, <1>3, NowOK, NowOKNext DEF Remove
<1>5. DOMAIN call' = Threads /\ \A u \in Threads : CallOK(call'[u])
  BY BeginTypes DEF Remove
<1> QED
  BY <1>4, <1>5 DEF Remove, TInv

LEMMA EditTypes ==
  ASSUME TInv, NEW t \in Threads, NEW s \in Ids, NEW p \in ParamsOf(s), EditParams(t, s, p)
  PROVE  TInv'
<1>1. PipeOK(Now)
  BY DEF TInv
<1>2. DOMAIN params' = Ids /\ \A u \in Ids : params'[u] \in ParamsOf(u)
  BY <1>1, NowOK DEF EditParams
<1>3. PipeOK(Now)'
  BY <1>1, <1>2, NowOK, NowOKNext DEF EditParams
<1>4. DOMAIN call' = Threads /\ \A u \in Threads : CallOK(call'[u])
  BY BeginTypes DEF EditParams
<1> QED
  BY <1>3, <1>4 DEF EditParams, TInv

------------------------------------------------------------------------------
(* The walk.                                                                 *)

LEMMA WritesOK ==
  ASSUME NEW s \in Ids, NEW f \in Files, params[s] \in ParamsOf(s)
  PROVE  /\ Writes(s, f) \subseteq Keys /\ Meta(s) \subseteq Keys /\ Aliases[s] \subseteq Keys
         /\ \A K \in SUBSET Keys : Owned(s, K) \subseteq OwnerKeys
<1>1. Writes(s, f) \subseteq Keys /\ Meta(s) \subseteq Keys /\ Aliases[s] \subseteq Keys
  BY StepsAssumption DEF Writes, Meta
<1>2. ASSUME NEW K \in SUBSET Keys PROVE Owned(s, K) \subseteq OwnerKeys
  BY <1>1, Zenon DEF Owned, OwnerKeys
<1> QED
  BY <1>1, <1>2

LEMMA ComputeFields ==
  ASSUME NEW s, NEW f, NEW ds, NEW an
  PROVE  LET r == Compute(s, f, ds, an)
         IN  /\ r.cols = IF s \in Analyses THEN {} ELSE Writes(s, f)
             /\ r.vars = r.cols \union Meta(s)
             /\ r = [cols |-> r.cols, vars |-> r.vars, term |-> r.term]
             /\ r.term = [by |-> s, params |-> params[s],
                          from |-> IF s \in Imports THEN f ELSE NoOne,
                          of |-> [k \in Def[s][params[s]].needs |-> Lookup(k, ds, an)]]
BY DEF Compute

LEMMA WithUpdatesDomain ==
  ASSUME NEW ds, NEW r
  PROVE  DOMAIN WithUpdates(ds, r) = DOMAIN ds \union r.vars
BY DEF WithUpdates

LEMMA WithAnalysisDomain ==
  ASSUME NEW an, NEW s, NEW r
  PROVE  DOMAIN WithAnalysis(an, s, r)
           = DOMAIN an \union (IF s \in Analyses THEN Writes(s, file) \union Aliases[s] ELSE {})
BY DEF WithAnalysis

LEMMA PutPartialOK ==
  ASSUME NEW f, NEW S, NEW T, PartialOn(f, S, T), NEW x \in S, NEW v \in SUBSET T
  PROVE  PartialOn(Put(f, x, v), S, T)
BY DEF PartialOn, Put

LEMMA PutResultOK ==
  ASSUME NEW R, ResultsOK(R), NEW s \in Ids, NEW r, r.cols \subseteq Keys, r.vars \subseteq Keys
  PROVE  ResultsOK(Put(R, s, r))
BY DEF ResultsOK, Put

\* A walk that goes on, from c to d, publishing nothing.
LEMMA WalkGoesOn ==
  ASSUME TInv, NEW t \in Threads, NEW d, CallOK(d), call' = [call EXCEPT ![t] = d],
         UNCHANGED <<file, pipeline>>
  PROVE  TInv'
<1>1. DOMAIN call' = Threads /\ \A u \in Threads : call'[u] = IF u = t THEN d ELSE call[u]
  BY DEF TInv
<1>2. \A u \in Threads : CallOK(call'[u])
  BY <1>1 DEF TInv
<1>3. PipeOK(Now)'
  BY NowOK, NowOKNext DEF TInv, pipeline
<1> QED
  BY <1>1, <1>2, <1>3 DEF TInv

\* The records of a call that walks.
LEMMA WalkFields ==
  ASSUME TInv, NEW t \in Threads, call[t].pc = "walk"
  PROVE  /\ DOMAIN call[t] = {"pc", "dirty", "todo", "ds", "an", "results", "owned",
                              "dirtyKeys", "restores", "next", "before"}
         /\ PipeOK(call[t].before)
         /\ call[t].todo \in Seq(Ids)
         /\ DOMAIN call[t].ds \subseteq Keys /\ DOMAIN call[t].an \subseteq Keys
         /\ ResultsOK(call[t].results)
         /\ PartialOn(call[t].owned, Ids, OwnerKeys)
         /\ PartialOn(call[t].dirtyKeys, Ids, Keys)
BY DEF TInv, CallOK

\* What WalkBegin, WalkCached and WalkCompute make of a call.
Started(c, D) ==
  [pc |-> "walk", dirty |-> D, todo |-> steps, ds |-> SourceData, an |-> <<>>,
   results |-> results, owned |-> owned, dirtyKeys |-> dirtyKeys, restores |-> c.restores,
   next |-> c.next, before |-> c.before]

Advanced(c, s, r, res, own, dk) ==
  [c EXCEPT !.todo = Tail(@), !.results = res, !.owned = own, !.dirtyKeys = dk,
            !.ds = WithUpdates(@, r), !.an = WithAnalysis(@, s, r)]

LEMMA StartedFields ==
  ASSUME NEW c, NEW D
  PROVE  LET d == Started(c, D)
         IN  /\ DOMAIN d = {"pc", "dirty", "todo", "ds", "an", "results", "owned", "dirtyKeys",
                            "restores", "next", "before"}
             /\ d.pc = "walk" /\ d.dirty = D /\ d.todo = steps /\ d.ds = SourceData
             /\ d.an = <<>> /\ d.results = results /\ d.owned = owned
             /\ d.dirtyKeys = dirtyKeys /\ d.restores = c.restores /\ d.next = c.next
             /\ d.before = c.before
BY DEF Started

LEMMA AdvancedFields ==
  ASSUME TInv, NEW t \in Threads, call[t].pc = "walk", NEW s, NEW r, NEW res, NEW own, NEW dk
  PROVE  LET c == call[t]
             d == Advanced(c, s, r, res, own, dk)
         IN  /\ DOMAIN d = DOMAIN c
             /\ d.pc = "walk" /\ d.dirty = c.dirty /\ d.restores = c.restores
             /\ d.next = c.next /\ d.before = c.before
             /\ d.todo = Tail(c.todo) /\ d.results = res /\ d.owned = own /\ d.dirtyKeys = dk
             /\ d.ds = WithUpdates(c.ds, r) /\ d.an = WithAnalysis(c.an, s, r)
<1>1. DOMAIN call[t] = {"pc", "dirty", "todo", "ds", "an", "results", "owned",
                        "dirtyKeys", "restores", "next", "before"}
  BY WalkFields
<1> QED
  BY <1>1 DEF Advanced

LEMMA WalkCachedIs ==
  ASSUME TInv, NEW t \in Threads, WalkCached(t)
  PROVE  LET c == call[t]
             s == Head(c.todo)
         IN  call' = [call EXCEPT ![t] = Advanced(c, s, c.results[s], c.results, c.owned,
                                                  c.dirtyKeys)]
<1> DEFINE c == call[t]
           s == Head(c.todo)
           d == Advanced(c, s, c.results[s], c.results, c.owned, c.dirtyKeys)
           e == [c EXCEPT !.todo = Tail(@), !.ds = WithUpdates(@, c.results[s]),
                          !.an = WithAnalysis(@, s, c.results[s])]
<1>1. call' = [call EXCEPT ![t] = e]
  BY DEF WalkCached, TInv
<1>2. DOMAIN c = {"pc", "dirty", "todo", "ds", "an", "results", "owned",
                  "dirtyKeys", "restores", "next", "before"}
  BY WalkFields DEF WalkCached
<1>3. d = e
  BY <1>2 DEF Advanced
<1> QED
  BY <1>1, <1>3

LEMMA WalkComputeIs ==
  ASSUME TInv, NEW t \in Threads, WalkCompute(t), ~Fail(t)
  PROVE  LET c == call[t]
             s == Head(c.todo)
             r == Compute(s, file, c.ds, c.an)
             res == Put(c.results, s, r)
             own == Put(c.owned, s, Owned(s, IF s \in Imports THEN r.cols ELSE Writes(s, file)))
         IN  /\ CanCompute(s, c.ds, c.an) /\ UniqueNow(res, own)
             /\ call' = [call EXCEPT ![t] =
                           Advanced(c, s, r, res, own, Put(c.dirtyKeys, s, ResultKeys(s, r)))]
             /\ UNCHANGED <<file, pipeline>>
<1> DEFINE c == call[t]
           s == Head(c.todo)
           r == Compute(s, file, c.ds, c.an)
           res == Put(c.results, s, r)
           own == Put(c.owned, s, Owned(s, IF s \in Imports THEN r.cols ELSE Writes(s, file)))
           d == Advanced(c, s, r, res, own, Put(c.dirtyKeys, s, ResultKeys(s, r)))
           e == [c EXCEPT !.todo = Tail(@), !.results = res, !.owned = own,
                          !.dirtyKeys = Put(@, s, ResultKeys(s, r)),
                          !.ds = WithUpdates(@, r), !.an = WithAnalysis(@, s, r)]
<1>1. /\ CanCompute(s, c.ds, c.an) /\ UniqueNow(res, own)
      /\ call' = [call EXCEPT ![t].todo = Tail(@),
                     ![t].results = res, ![t].owned = own,
                     ![t].dirtyKeys = Put(@, s, ResultKeys(s, r)),
                     ![t].ds = WithUpdates(@, r), ![t].an = WithAnalysis(@, s, r)]
      /\ UNCHANGED <<file, pipeline>>
  BY Zenon DEF WalkCompute
<1>2. DOMAIN c = {"pc", "dirty", "todo", "ds", "an", "results", "owned",
                  "dirtyKeys", "restores", "next", "before"}
  BY WalkFields DEF WalkCompute
<1>3. call' = [call EXCEPT ![t] = e]
  <2> HIDE DEF res, own, r, s
  <2> QED
    BY <1>1 DEF TInv
<1>4. d = e
  BY <1>2 DEF Advanced
<1> QED
  BY <1>1, <1>3, <1>4

LEMMA HeadOK ==
  ASSUME NEW q \in Seq(Ids), q # <<>>
  PROVE  Head(q) \in Ids /\ Tail(q) \in Seq(Ids)
OBVIOUS

LEMMA AdvancedOK ==
  ASSUME TInv, NEW t \in Threads, call[t].pc = "walk", call[t].todo # <<>>,
         NEW r, NEW res, NEW own, NEW dk,
         r.vars \subseteq Keys, ResultsOK(res), PartialOn(own, Ids, OwnerKeys),
         PartialOn(dk, Ids, Keys)
  PROVE  CallOK(Advanced(call[t], Head(call[t].todo), r, res, own, dk))
<1> DEFINE c == call[t]
           s == Head(c.todo)
           d == Advanced(c, s, r, res, own, dk)
<1>1. /\ DOMAIN c = {"pc", "dirty", "todo", "ds", "an", "results", "owned",
                     "dirtyKeys", "restores", "next", "before"}
      /\ PipeOK(c.before) /\ c.todo \in Seq(Ids)
      /\ DOMAIN c.ds \subseteq Keys /\ DOMAIN c.an \subseteq Keys
  BY WalkFields
<1>2. s \in Ids /\ Tail(c.todo) \in Seq(Ids)
  BY <1>1, HeadOK
<1>3. /\ DOMAIN d = DOMAIN c
      /\ d.pc = "walk" /\ d.before = c.before
      /\ d.todo = Tail(c.todo) /\ d.results = res /\ d.owned = own /\ d.dirtyKeys = dk
      /\ d.ds = WithUpdates(c.ds, r) /\ d.an = WithAnalysis(c.an, s, r)
  BY AdvancedFields
<1>4. DOMAIN WithUpdates(c.ds, r) \subseteq Keys
  <2>1. DOMAIN WithUpdates(c.ds, r) = DOMAIN c.ds \union r.vars
    BY WithUpdatesDomain
  <2> QED
    BY <1>1, <2>1
<1>5. params[s] \in ParamsOf(s) /\ file \in Files
  BY <1>2, NowOK DEF TInv
<1>6. Writes(s, file) \union Aliases[s] \subseteq Keys
  BY <1>2, <1>5, WritesOK
<1>7. DOMAIN WithAnalysis(c.an, s, r) \subseteq Keys
  <2>1. DOMAIN WithAnalysis(c.an, s, r)
          = DOMAIN c.an \union (IF s \in Analyses THEN Writes(s, file) \union Aliases[s] ELSE {})
    BY WithAnalysisDomain
  <2> QED
    BY <1>1, <1>6, <2>1
<1> HIDE DEF c, d, s
<1> QED
  BY <1>1, <1>2, <1>3, <1>4, <1>7 DEF CallOK, c, d, s

LEMMA WalkTypes ==
  ASSUME TInv, NEW t \in Threads, Walk(t)
  PROVE  TInv'
<1> DEFINE c == call[t]
<1>0. PipeOK(Now) /\ file \in Files
  BY DEF TInv
<1>1. CASE WalkBegin(t)
  <2>1. c.pc = "begin"
    BY <1>1 DEF WalkBegin
  <2>2. CASE Fail(t)
    BY <2>1, <2>2, FailTypes
  <2>3. CASE ~Fail(t)
    <3> DEFINE D == DirtySteps(c.dirty, c.keys)
               d == Started(c, D)
    <3>1. call' = [call EXCEPT ![t] = d] /\ UNCHANGED <<file, pipeline>>
      BY <1>1, <2>3 DEF WalkBegin, Started
    <3>2. PipeOK(c.before)
      BY <2>1 DEF TInv, CallOK
    <3>3. DOMAIN SourceData \subseteq Keys
      BY <1>0, NowOK, StepsAssumption DEF SourceData
    <3>4. DOMAIN <<>> = {}
      OBVIOUS
    <3>5. CallOK(d)
      <4> HIDE DEF c, D
      <4>1. /\ DOMAIN d = {"pc", "dirty", "todo", "ds", "an", "results", "owned", "dirtyKeys",
                           "restores", "next", "before"}
            /\ d.pc = "walk" /\ d.todo = steps /\ d.ds = SourceData
            /\ d.an = <<>> /\ d.results = results /\ d.owned = owned
            /\ d.dirtyKeys = dirtyKeys /\ d.before = c.before
        BY StartedFields
      <4> HIDE DEF d
      <4> QED
        BY <1>0, <3>2, <3>3, <3>4, <4>1, NowOK DEF CallOK
    <3> HIDE DEF d
    <3> QED
      BY <3>1, <3>5, WalkGoesOn
  <2> QED
    BY <2>2, <2>3
<1>2. CASE WalkCached(t)
  <2> DEFINE s == Head(c.todo)
             d == Advanced(c, s, c.results[s], c.results, c.owned, c.dirtyKeys)
  <2>1. c.pc = "walk" /\ c.todo # <<>> /\ s \in DOMAIN c.results
        /\ UNCHANGED <<file, pipeline>>
    BY <1>2 DEF WalkCached
  <2>2. call' = [call EXCEPT ![t] = d]
    BY <1>2, WalkCachedIs
  <2>3. ResultsOK(c.results) /\ PartialOn(c.owned, Ids, OwnerKeys)
        /\ PartialOn(c.dirtyKeys, Ids, Keys)
    BY <2>1, WalkFields
  <2>4. CallOK(d)
    BY <2>1, <2>3, AdvancedOK DEF ResultsOK
  <2> HIDE DEF d
  <2> QED
    BY <2>1, <2>2, <2>4, WalkGoesOn
<1>3. CASE WalkCompute(t)
  <2>1. c.pc = "walk" /\ c.todo # <<>>
    BY <1>3 DEF WalkCompute
  <2>2. CASE Fail(t)
    BY <2>1, <2>2, FailTypes
  <2>3. CASE ~Fail(t)
    <3> DEFINE s == Head(c.todo)
               r == Compute(s, file, c.ds, c.an)
               res == Put(c.results, s, r)
               keys == IF s \in Imports THEN r.cols ELSE Writes(s, file)
               own == Put(c.owned, s, Owned(s, keys))
               dk == Put(c.dirtyKeys, s, ResultKeys(s, r))
               d == Advanced(c, s, r, res, own, dk)
    <3>1. call' = [call EXCEPT ![t] = d] /\ UNCHANGED <<file, pipeline>>
      BY <1>3, <2>3, WalkComputeIs
    <3>2. ResultsOK(c.results) /\ PartialOn(c.owned, Ids, OwnerKeys)
          /\ PartialOn(c.dirtyKeys, Ids, Keys) /\ c.todo \in Seq(Ids)
      BY <2>1, WalkFields
    <3>3. s \in Ids
      BY <2>1, <3>2, HeadOK
    <3>4. params[s] \in ParamsOf(s)
      BY <1>0, <3>3, NowOK
    <3>5. /\ Writes(s, file) \subseteq Keys /\ Meta(s) \subseteq Keys /\ Aliases[s] \subseteq Keys
          /\ \A K \in SUBSET Keys : Owned(s, K) \subseteq OwnerKeys
      BY <1>0, <3>3, <3>4, WritesOK
    <3>6. r.cols \subseteq Keys /\ r.vars \subseteq Keys
      <4>1. r.cols = (IF s \in Analyses THEN {} ELSE Writes(s, file))
            /\ r.vars = r.cols \union Meta(s)
        BY DEF Compute
      <4> HIDE DEF r, s
      <4> QED
        BY <3>5, <4>1
    <3> HIDE DEF s, r, c
    <3>7. ResultsOK(res)
      BY <3>2, <3>3, <3>6, PutResultOK
    <3>8. keys \in SUBSET Keys
      BY <3>5, <3>6
    <3> HIDE DEF keys
    <3>9. PartialOn(own, Ids, OwnerKeys)
      BY <3>2, <3>3, <3>5, <3>8, PutPartialOK
    <3>10. ResultKeys(s, r) \subseteq Keys
      BY <3>5, <3>6 DEF ResultKeys
    <3>11. PartialOn(dk, Ids, Keys)
      BY <3>2, <3>3, <3>10, PutPartialOK
    <3> HIDE DEF res, own, dk
    <3>12. CallOK(d)
      BY <2>1, <3>6, <3>7, <3>9, <3>11, AdvancedOK DEF c, s
    <3> HIDE DEF d
    <3> QED
      BY <3>1, <3>12, WalkGoesOn
  <2> QED
    BY <2>2, <2>3
<1>4. CASE Commit(t)
  <2>1. c.pc = "walk"
    BY <1>4 DEF Commit, Ready
  <2>2. CASE Fail(t)
    BY <2>1, <2>2, FailTypes
  <2>3. CASE ~Fail(t)
    <3>1. Publish(t) /\ call' = [call EXCEPT ![t] = [pc |-> "idle"]] /\ steps' = steps
      BY <1>4, <2>3 DEF Commit
    <3>2. /\ DOMAIN c.ds \subseteq Keys /\ DOMAIN c.an \subseteq Keys
          /\ ResultsOK(c.results) /\ PartialOn(c.owned, Ids, OwnerKeys)
          /\ PartialOn(c.dirtyKeys, Ids, Keys)
      BY <2>1, WalkFields
    <3>3. PipeOK(Now)'
      BY <1>0, <3>1, <3>2, NowOK, NowOKNext DEF Publish
    <3>4. DOMAIN call' = Threads
          /\ \A u \in Threads : call'[u] = IF u = t THEN [pc |-> "idle"] ELSE call[u]
      BY <3>1 DEF TInv
    <3>5. \A u \in Threads : CallOK(call'[u])
      BY <3>4 DEF TInv, CallOK
    <3> QED
      BY <1>0, <3>1, <3>3, <3>4, <3>5 DEF TInv, Publish
  <2> QED
    BY <2>2, <2>3
<1> QED
  BY <1>1, <1>2, <1>3, <1>4 DEF Walk

LEMMA NextTypes == TInv /\ [Next]_vars => TInv'
<1> SUFFICES ASSUME TInv, [Next]_vars PROVE TInv'
  OBVIOUS
<1>1. CASE UNCHANGED vars
  BY <1>1, NowOK, NowOKNext DEF TInv, vars, pipeline
<1>2. CASE FileChanges
  <2>1. file' \in Files /\ call' = call /\ UNCHANGED pipeline
    BY <1>2 DEF FileChanges
  <2> QED
    BY <2>1, NowOK, NowOKNext DEF TInv, pipeline
<1>3. ASSUME NEW t \in Threads, Walk(t) PROVE TInv'
  BY <1>3, WalkTypes
<1>4. ASSUME NEW t \in Threads, NEW d \in Ids \union {NoOne}, Recompute(t, d) PROVE TInv'
  <2>1. PipeOK(Now)'
    BY <1>4, NowOK, NowOKNext DEF TInv, Recompute, pipeline
  <2>2. DOMAIN call' = Threads /\ \A u \in Threads : CallOK(call'[u])
    BY <1>4, BeginTypes DEF Recompute
  <2> QED
    BY <1>4, <2>1, <2>2 DEF TInv, Recompute
<1>5. ASSUME NEW t \in Threads, NEW x \in Sources, ReplaceSourceDataset(t, x) PROVE TInv'
  <2>1. PipeOK(Now)'
    BY <1>5, NowOK, NowOKNext DEF TInv, ReplaceSourceDataset
  <2>2. DOMAIN call' = Threads /\ \A u \in Threads : CallOK(call'[u])
    BY <1>5, BeginTypes DEF ReplaceSourceDataset
  <2> QED
    BY <1>5, <2>1, <2>2 DEF TInv, ReplaceSourceDataset
<1>6. ASSUME NEW t \in Threads, NEW s \in Ids, Remove(t, s) PROVE TInv'
  BY <1>6, RemoveTypes
<1>7. ASSUME NEW t \in Threads, NEW s \in Ids, NEW p \in ParamsOf(s),
             Add(t, s, p) \/ EditParams(t, s, p)
      PROVE  TInv'
  BY <1>7, AddTypes, EditTypes
<1>8. ASSUME NEW t \in Threads, NEW s \in Ids, NEW p \in ParamsOf(s), NEW i \in 1..Len(steps),
             InsertAfter(t, i, s, p) \/ InsertAfterAndRecompute(t, i, s, p)
      PROVE  TInv'
  BY <1>8, InsertTypes
<1> QED
  BY <1>1, <1>2, <1>3, <1>4, <1>5, <1>6, <1>7, <1>8 DEF Next

LEMMA TypesHold == TInv => TypeOK
<1> SUFFICES ASSUME TInv PROVE TypeOK
  OBVIOUS
<1>1. /\ source \in Sources /\ steps \in Seq(Ids)
      /\ \A s \in Ids : params[s] \in ParamsOf(s)
      /\ ResultsOK(results)
      /\ PartialOn(owned, Ids, OwnerKeys) /\ PartialOn(dirtyKeys, Ids, Keys)
      /\ DOMAIN current \subseteq Keys /\ DOMAIN analyses \subseteq Keys
  BY NowOK DEF TInv
<1>2. \A t \in Threads : call[t].pc \in {"idle", "failed", "begin", "walk"}
  BY DEF TInv, CallOK
<1>3. /\ DOMAIN results \subseteq Ids
      /\ \A s \in DOMAIN results : results[s].cols \union results[s].vars \subseteq Keys
  BY <1>1 DEF ResultsOK
<1> QED
  BY <1>1, <1>2, <1>3 DEF TInv, TypeOK

\* The file, the pipeline and every dataset, analysis, result and note of a key hold what
\* they are declared to, for any number of callers inside the engine (TypeOK).
THEOREM Types == Spec => []TypeOK
<1> QED
  BY TypesHold, InitTypes, NextTypes, PTL DEF Spec

------------------------------------------------------------------------------
(* Induction, and the search for the steps to recompute.                     *)

LEMMA LeastNat ==
  ASSUME NEW S \in SUBSET Nat, S # {}
  PROVE  \E n \in S : \A m \in S : n <= m
<1> DEFINE R == OpToRel(<, Nat)
<1>1. IsWellFoundedOn(R, Nat)
  BY NatLessThanWellFounded
<1>2. \A x, y \in Nat : y < x => <<y, x>> \in R
  BY DEF OpToRel
<1> HIDE DEF R
<1>3. \E x \in S : \A y \in S : ~(<<y, x>> \in R)
  BY <1>1, WFMin
<1>4. PICK x \in S : \A y \in S : ~(<<y, x>> \in R)
  BY <1>3
<1>5. \A y \in S : ~(y < x)
  BY <1>2, <1>4
<1>6. \A y \in S : x <= y
  BY <1>5
<1> QED
  BY <1>6

LEMMA SetInduction ==
  ASSUME NEW S, 0 \in S, \A n \in Nat : n \in S => n + 1 \in S
  PROVE  Nat \subseteq S
<1> SUFFICES ASSUME Nat \ S # {} PROVE FALSE
  OBVIOUS
<1>1. PICK n \in Nat \ S : \A m \in Nat \ S : n <= m
  BY LeastNat
<1>2. n # 0 /\ n - 1 \in Nat
  BY <1>1
<1>3. n - 1 \in S
  BY <1>1, <1>2
<1> QED
  BY <1>1, <1>2, <1>3

StaysIn(G, S) == \A X \in SUBSET S : G[X] \subseteq S
Rounds(r, A, G, N) ==
  r = [n \in 0..N |-> IF n = 0 THEN A ELSE r[n - 1] \union G[r[n - 1]]]
ClosedFrom(A, G, S, X) ==
  /\ A \subseteq X /\ X \subseteq S /\ G[X] \subseteq X
  /\ \A x \in X : x \in A \/ \E Y \in SUBSET X : x \in G[Y]

\* A function that grows a set round by round exists ...
LEMMA RoundsExist ==
  ASSUME NEW S, NEW A, NEW G, NEW N \in Nat, A \subseteq S, StaysIn(G, S)
  PROVE  \E r : Rounds(r, A, G, N) /\ \A n \in 0..N : r[n] \subseteq S
<1> DEFINE Is(m, r) == /\ DOMAIN r = 0..m /\ r = [n \in 0..m |-> r[n]]
                       /\ r[0] = A /\ \A n \in 0..m : r[n] \subseteq S
                       /\ \A n \in 1..m : r[n] = r[n - 1] \union G[r[n - 1]]
           M == {m \in Nat : \E r : Is(m, r)}
<1>1. 0 \in M
  <2> DEFINE r == [n \in 0..0 |-> A]
  <2>1. Is(0, r)
    OBVIOUS
  <2> HIDE DEF r, Is
  <2> QED
    BY <2>1
<1>2. ASSUME NEW m \in Nat, m \in M PROVE m + 1 \in M
  <2>1. PICK r : Is(m, r)
    BY <1>2
  <2> DEFINE q == [n \in 0..(m + 1) |-> IF n <= m THEN r[n] ELSE r[m] \union G[r[m]]]
  <2>2. DOMAIN q = 0..(m + 1) /\ q = [n \in 0..(m + 1) |-> q[n]]
    OBVIOUS
  <2>3. q[0] = A
    BY <2>1
  <2>4. ASSUME NEW n \in 1..(m + 1) PROVE q[n] = q[n - 1] \union G[q[n - 1]]
    <3>1. CASE n <= m
      <4>1. n \in 1..m /\ n \in 0..(m + 1) /\ n - 1 \in 0..(m + 1) /\ n - 1 <= m
        BY <3>1
      <4>2. q[n] = r[n] /\ q[n - 1] = r[n - 1]
        BY <3>1, <4>1
      <4> QED
        BY <2>1, <4>1, <4>2
    <3>2. CASE n = m + 1
      <4>1. n \in 0..(m + 1) /\ n - 1 = m /\ n - 1 \in 0..(m + 1) /\ ~(n <= m)
        BY <3>2
      <4>2. q[n] = r[m] \union G[r[m]] /\ q[n - 1] = r[m]
        BY <4>1
      <4> QED
        BY <4>2
    <3> QED
      BY <3>1, <3>2
  <2>6. \A n \in 0..(m + 1) : q[n] \subseteq S
    BY <2>1 DEF StaysIn
  <2>5. Is(m + 1, q)
    <3> HIDE DEF q
    <3> QED
      BY <2>2, <2>3, <2>4, <2>6
  <2> HIDE DEF q, Is
  <2> QED
    BY <2>5
<1>3. N \in M
  <2> HIDE DEF M
  <2> QED
    BY <1>1, <1>2, SetInduction
<1>4. PICK r : Is(N, r)
  BY <1>3
<1>5. \A n \in 0..N : r[n] = IF n = 0 THEN A ELSE r[n - 1] \union G[r[n - 1]]
  BY <1>4
<1>6. r = [n \in 0..N |-> IF n = 0 THEN A ELSE r[n - 1] \union G[r[n - 1]]]
  BY <1>4, <1>5
<1> QED
  BY <1>4, <1>6 DEF Rounds

\* ... and after as many rounds as a finite set has members it has stopped growing in it.
LEMMA RoundsStop ==
  ASSUME NEW S, IsFiniteSet(S), NEW N \in Nat, Cardinality(S) <= N, NEW A, A \subseteq S, A # {},
         NEW G, StaysIn(G, S), NEW r, Rounds(r, A, G, N)
  PROVE  ClosedFrom(A, G, S, r[N])
<1>1. r[0] = A
  <2>1. 0 \in 0..N
    OBVIOUS
  <2> QED
    BY <2>1 DEF Rounds
<1>2. ASSUME NEW n \in 1..N PROVE r[n] = r[n - 1] \union G[r[n - 1]]
  <2>1. n \in 0..N /\ n # 0
    OBVIOUS
  <2> QED
    BY <2>1 DEF Rounds
<1> DEFINE Grown(n) == /\ A \subseteq r[n] /\ r[n] \subseteq S
                       /\ \A x \in r[n] : x \in A \/ \E X \in SUBSET r[n] : x \in G[X]
                       /\ G[r[n]] \subseteq r[n] \/ Cardinality(r[n]) >= n + 1
           T == {n \in Nat : n <= N => Grown(n)}
<1>3. Grown(0)
  <2>1. IsFiniteSet(A) /\ Cardinality(A) \in Nat
    BY FS_Subset, FS_CardinalityType
  <2>2. Cardinality(A) # 0
    BY <2>1, FS_EmptySet
  <2>3. Cardinality(A) >= 0 + 1
    BY <2>1, <2>2
  <2> QED
    BY <1>1, <2>3
<1>4. ASSUME NEW n \in Nat, n + 1 <= N, Grown(n) PROVE Grown(n + 1)
  <2>2. r[n + 1] = r[n] \union G[r[n]]
    <3>1. n + 1 \in 1..N /\ (n + 1) - 1 = n
      BY <1>4
    <3> QED
      BY <3>1, <1>2
  <2>3. A \subseteq r[n + 1] /\ r[n + 1] \subseteq S
    BY <1>4, <2>2 DEF StaysIn
  <2>4. \A x \in r[n + 1] : x \in A \/ \E X \in SUBSET r[n + 1] : x \in G[X]
    BY <1>4, <2>2
  <2>5. CASE G[r[n]] \subseteq r[n]
    <3>1. r[n + 1] = r[n]
      BY <2>2, <2>5
    <3> QED
      BY <2>3, <2>4, <2>5, <3>1
  <2>6. CASE ~(G[r[n]] \subseteq r[n])
    <3>1. Cardinality(r[n]) >= n + 1
      BY <1>4, <2>6
    <3>2. \E x : x \in G[r[n]] /\ x \notin r[n]
      <4>1. \E x \in G[r[n]] : x \notin r[n]
        BY <2>6
      <4> QED
        BY <4>1
    <3>9. PICK x : x \in G[r[n]] /\ x \notin r[n]
      BY <3>2
    <3>3. IsFiniteSet(r[n]) /\ IsFiniteSet(r[n + 1])
      BY <1>4, <2>3, FS_Subset
    <3>4. Cardinality(r[n] \union {x}) = Cardinality(r[n]) + 1
      BY <3>9, <3>3, FS_AddElement
    <3>5. r[n] \union {x} \in SUBSET r[n + 1]
      BY <2>2, <3>9
    <3>6. Cardinality(r[n] \union {x}) <= Cardinality(r[n + 1])
      BY <3>3, <3>5, FS_Subset
    <3>7. Cardinality(r[n]) \in Nat /\ Cardinality(r[n + 1]) \in Nat
      BY <3>3, FS_CardinalityType
    <3>8. Cardinality(r[n + 1]) >= (n + 1) + 1
      BY <3>1, <3>4, <3>6, <3>7
    <3> QED
      BY <2>3, <2>4, <3>8
  <2> QED
    BY <2>5, <2>6
<1>5. Grown(N)
  <2> HIDE DEF Grown
  <2>1. Nat \subseteq T
    <3>1. 0 \in T
      BY <1>3
    <3>2. \A n \in Nat : n \in T => n + 1 \in T
      BY <1>4
    <3> HIDE DEF T
    <3> QED
      BY <3>1, <3>2, SetInduction
  <2> QED
    BY <2>1
<1>6. Cardinality(r[N]) <= Cardinality(S) /\ Cardinality(r[N]) \in Nat /\ Cardinality(S) \in Nat
  BY <1>5, FS_Subset, FS_CardinalityType
<1>7. ~(Cardinality(r[N]) >= N + 1)
  BY <1>6
<1> QED
  BY <1>5, <1>7 DEF ClosedFrom

\* The search finds the dirty step, only steps of the pipeline, and every step that reads
\* what a found one writes; a found step other than the first reads something or names
\* an input.
LEMMA DirtyStepsAre ==
  ASSUME steps \in Seq(Ids), NEW d \in StepSet, NEW keys
  PROVE  LET D == DirtySteps(d, keys)
         IN  /\ d \in D /\ D \subseteq StepSet
             /\ \A s \in StepSet \ D : \A k \in Def[s][params[s]].reads :
                  /\ k \notin keys /\ k \notin CachedKeys(d)
                  /\ \A u \in D : k \notin StaticKeys(u)
             /\ \A s \in D : s # d => \/ Def[s][params[s]].inputs # {}
                                      \/ Def[s][params[s]].reads # {}
<1> DEFINE Output(D)  == keys \union CachedKeys(d) \union UNION {StaticKeys(t) : t \in D}
           Reached(D) == {t \in StepSet : \/ Def[t][params[t]].inputs \intersect D # {}
                                          \/ Def[t][params[t]].reads \intersect Output(D) # {}}
           G == [D \in SUBSET StepSet |-> Reached(D)]
           N == Len(steps)
           Is(q) == q = [n \in 0..N |-> IF n = 0 THEN {d} ELSE q[n - 1] \union Reached(q[n - 1])]
           r == CHOOSE q : Is(q)
<1>1. DirtySteps(d, keys) = r[N]
  <2>1. d # NoOne
    BY StepsAssumption DEF StepSet
  <2> QED
    BY <2>1 DEF DirtySteps
<1>2. \A X \in SUBSET StepSet : G[X] = Reached(X) /\ G[X] \subseteq StepSet
  OBVIOUS
<1> HIDE DEF G, Reached
<1>9. N \in Nat /\ {d} \subseteq StepSet /\ {d} # {}
      /\ StaysIn(G, StepSet)
  BY <1>2 DEF StaysIn
<1>3. \E q : Is(q)
  <2>1. PICK q : Rounds(q, {d}, G, N) /\ \A n \in 0..N : q[n] \subseteq StepSet
    <3> HIDE DEF N
    <3> QED
      BY <1>9, RoundsExist
  <2>2. ASSUME NEW n \in 0..N
        PROVE  (IF n = 0 THEN {d} ELSE q[n - 1] \union G[q[n - 1]])
                 = (IF n = 0 THEN {d} ELSE q[n - 1] \union Reached(q[n - 1]))
    <3>1. n # 0 => n - 1 \in 0..N
      OBVIOUS
    <3> QED
      BY <1>2, <2>1, <3>1
  <2>3. Is(q)
    BY <2>1, <2>2 DEF Rounds
  <2> QED
    BY <2>3
<1>4. Is(r)
  BY <1>3
<1> HIDE DEF r
<1>5. ASSUME NEW n \in 0..N PROVE r[n] \subseteq StepSet
  <2> DEFINE M == {m \in Nat : m <= N => r[m] \subseteq StepSet}
  <2>1. 0 \in M
    <3>1. 0 \in 0..N
      OBVIOUS
    <3>2. r[0] = {d}
      BY <1>4, <3>1
    <3> QED
      BY <3>2
  <2>2. ASSUME NEW m \in Nat, m \in M PROVE m + 1 \in M
    <3>1. CASE m + 1 <= N
      <4>1. m + 1 \in 0..N /\ m + 1 # 0 /\ (m + 1) - 1 = m /\ m <= N
        BY <3>1
      <4>2. r[m + 1] = r[m] \union Reached(r[m])
        BY <1>4, <4>1
      <4>3. r[m] \subseteq StepSet
        BY <2>2, <4>1
      <4> QED
        BY <1>2, <4>2, <4>3
    <3>2. CASE ~(m + 1 <= N)
      BY <3>2
    <3> QED
      BY <3>1, <3>2
  <2>3. n \in M
    <3> HIDE DEF M
    <3>1. Nat \subseteq M
      BY <2>1, <2>2, SetInduction
    <3> QED
      BY <3>1
  <2> QED
    BY <2>3
<1>6. Rounds(r, {d}, G, N)
  <2>1. ASSUME NEW n \in 0..N
        PROVE  (IF n = 0 THEN {d} ELSE r[n - 1] \union G[r[n - 1]])
                 = (IF n = 0 THEN {d} ELSE r[n - 1] \union Reached(r[n - 1]))
    <3>1. n # 0 => n - 1 \in 0..N
      OBVIOUS
    <3> QED
      BY <1>2, <1>5, <3>1
  <2> QED
    BY <1>4, <2>1 DEF Rounds
<1>7. IsFiniteSet(StepSet) /\ Cardinality(StepSet) <= N
  <2>1. steps \in Surjection(1..N, StepSet)
    BY DEF StepSet, Surjection
  <2>2. IsFiniteSet(1..N) /\ Cardinality(1..N) = N
    <3>1. IsFiniteSet(1..N) /\ Cardinality(1..N) = IF 1 > N THEN 0 ELSE N - 1 + 1
      BY FS_Interval
    <3> QED
      BY <3>1
  <2> HIDE DEF N
  <2> QED
    BY <2>1, <2>2, FS_Surjection
<1>8. /\ {d} \subseteq r[N] /\ r[N] \subseteq StepSet /\ G[r[N]] \subseteq r[N]
      /\ \A x \in r[N] : x \in {d} \/ \E X \in SUBSET r[N] : x \in G[X]
  <2> HIDE DEF N
  <2>1. ClosedFrom({d}, G, StepSet, r[N])
    BY <1>6, <1>7, <1>9, RoundsStop
  <2> QED
    BY <2>1 DEF ClosedFrom
<1>10. Reached(r[N]) \subseteq r[N]
  BY <1>2, <1>8
<1>11. ASSUME NEW s \in StepSet \ r[N], NEW k \in Def[s][params[s]].reads
       PROVE  /\ k \notin keys /\ k \notin CachedKeys(d)
              /\ \A u \in r[N] : k \notin StaticKeys(u)
  <2>1. Def[s][params[s]].reads \intersect Output(r[N]) = {}
    BY <1>10 DEF Reached
  <2> QED
    BY <2>1
<1>12. ASSUME NEW s \in r[N], s # d
       PROVE  Def[s][params[s]].inputs # {} \/ Def[s][params[s]].reads # {}
  <2>1. PICK X \in SUBSET r[N] : s \in G[X]
    BY <1>8, <1>12
  <2>2. s \in Reached(X)
    BY <1>2, <1>8, <2>1
  <2> QED
    BY <2>2 DEF Reached
<1> QED
  BY <1>1, <1>8, <1>11, <1>12

------------------------------------------------------------------------------
(* Lists of steps.                                                           *)

Elements(L) == {L[i] : i \in 1..Len(L)}
Distinct(L) == \A i, j \in 1..Len(L) : L[i] = L[j] => i = j
Comes(L, a, b) == \E i, j \in 1..Len(L) : i < j /\ L[i] = a /\ L[j] = b
FirstOf(L, n) == {L[i] : i \in 1..n}

LEMMA AppendList ==
  ASSUME NEW L \in Seq(Ids), Distinct(L), NEW s \in Ids, s \notin Elements(L)
  PROVE  /\ Elements(Append(L, s)) = Elements(L) \union {s} /\ Distinct(Append(L, s))
         /\ \A a, b \in Elements(L) : Comes(Append(L, s), a, b) <=> Comes(L, a, b)
         /\ \A a : ~Comes(Append(L, s), s, a)
<1> DEFINE M == Append(L, s)
           n == Len(L)
<1>1. n \in Nat /\ Len(M) = n + 1 /\ M[n + 1] = s /\ \A i \in 1..n : M[i] = L[i]
  OBVIOUS
<1>2. \A i \in 1..(n + 1) : i \in 1..n \/ i = n + 1
  BY <1>1
<1>3. \A i \in 1..n : i \in 1..(n + 1) /\ L[i] # s
  BY <1>1 DEF Elements
<1> HIDE DEF M
<1>4. Elements(M) = Elements(L) \union {s}
  <2>1. ASSUME NEW x \in Elements(M) PROVE x \in Elements(L) \union {s}
    BY <1>1, <1>2, <2>1 DEF Elements
  <2>2. ASSUME NEW x \in Elements(L) PROVE x \in Elements(M)
    BY <1>1, <1>3, <2>2 DEF Elements
  <2>3. s \in Elements(M)
    BY <1>1 DEF Elements
  <2> QED
    BY <2>1, <2>2, <2>3
<1>5. Distinct(M)
  <2> SUFFICES ASSUME NEW i \in 1..(n + 1), NEW j \in 1..(n + 1), M[i] = M[j] PROVE i = j
    BY <1>1 DEF Distinct
  <2>1. M[i] = (IF i \in 1..n THEN L[i] ELSE s) /\ M[j] = (IF j \in 1..n THEN L[j] ELSE s)
    BY <1>1, <1>2
  <2> QED
    BY <1>2, <1>3, <2>1 DEF Distinct
<1>6. ASSUME NEW a \in Elements(L), NEW b \in Elements(L)
      PROVE  Comes(M, a, b) <=> Comes(L, a, b)
  <2>1. a # s /\ b # s
    BY <1>3 DEF Elements
  <2>2. ASSUME Comes(M, a, b) PROVE Comes(L, a, b)
    <3>1. PICK i \in 1..(n + 1), j \in 1..(n + 1) : i < j /\ M[i] = a /\ M[j] = b
      BY <1>1, <2>2 DEF Comes
    <3>2. i \in 1..n /\ j \in 1..n
      BY <1>1, <1>2, <2>1, <3>1
    <3> QED
      BY <1>1, <3>1, <3>2 DEF Comes
  <2>3. ASSUME Comes(L, a, b) PROVE Comes(M, a, b)
    BY <1>1, <1>3, <2>3 DEF Comes
  <2> QED
    BY <2>2, <2>3
<1>7. ASSUME NEW a, Comes(M, s, a) PROVE FALSE
  <2>1. PICK i \in 1..(n + 1), j \in 1..(n + 1) : i < j /\ M[i] = s /\ M[j] = a
    BY <1>1, <1>7 DEF Comes
  <2>2. i \in 1..n
    BY <1>2, <2>1
  <2> QED
    BY <1>1, <1>3, <2>1, <2>2
<1> QED
  BY <1>4, <1>5, <1>6, <1>7 DEF M

\* The elements of L are in M, at the positions e, in the same order.
Embeds(e, L, M) ==
  /\ \A i \in 1..Len(L) : e[i] \in 1..Len(M) /\ M[e[i]] = L[i]
  /\ \A i, j \in 1..Len(L) : i < j => e[i] < e[j]

LEMMA EmbeddedList ==
  ASSUME NEW L, NEW M, Len(L) \in Nat, Len(M) \in Nat, Distinct(L), Distinct(M),
         NEW e, Embeds(e, L, M)
  PROVE  \A a, b \in Elements(L) : Comes(M, a, b) <=> Comes(L, a, b)
<1> USE DEF Embeds
<1> SUFFICES ASSUME NEW i \in 1..Len(L), NEW j \in 1..Len(L)
             PROVE  Comes(M, L[i], L[j]) <=> Comes(L, L[i], L[j])
  BY DEF Elements
<1>1. ASSUME NEW K, Distinct(K), NEW x \in 1..Len(K), NEW y \in 1..Len(K)
      PROVE  Comes(K, K[x], K[y]) <=> x < y
  BY <1>1 DEF Comes, Distinct
<1>2. Comes(L, L[i], L[j]) <=> i < j
  BY <1>1
<1>3. Comes(M, M[e[i]], M[e[j]]) <=> e[i] < e[j]
  BY <1>1
<1>4. e[i] < e[j] <=> i < j
  <2>1. i < j \/ i = j \/ j < i
    OBVIOUS
  <2>2. e[i] \in Int /\ e[j] \in Int
    OBVIOUS
  <2> QED
    BY <2>1, <2>2
<1> QED
  BY <1>2, <1>3, <1>4

LEMMA InsertList ==
  ASSUME NEW L, L \in Seq(Ids), Distinct(L), NEW s \in Ids, s \notin Elements(L),
         NEW i \in 1..Len(L)
  PROVE  /\ Elements(PutIn(L, i, s)) = Elements(L) \union {s} /\ Distinct(PutIn(L, i, s))
         /\ \A a, b \in Elements(L) : Comes(PutIn(L, i, s), a, b) <=> Comes(L, a, b)
<1> DEFINE M == PutIn(L, i, s)
           n == Len(L)
           e == [j \in 1..n |-> IF j <= i THEN j ELSE j + 1]
<1>1. n \in Nat /\ i \in 1..n
  OBVIOUS
<1>2. Len(M) = n + 1
  BY PutInOK
<1>3. \A j \in 1..(n + 1) :
        M[j] = IF j <= i THEN L[j] ELSE IF j = i + 1 THEN s ELSE L[j - 1]
  BY PutInOK
<1>4. \A j \in 1..n : L[j] # s
  BY DEF Elements
<1> HIDE DEF M
<1>5. \A j \in 1..n : e[j] \in 1..(n + 1) /\ M[e[j]] = L[j] /\ e[j] # i + 1
  <2> TAKE j \in 1..n
  <2>1. CASE j <= i
    BY <1>1, <1>3, <2>1
  <2>2. CASE ~(j <= i)
    <3>1. e[j] = j + 1 /\ e[j] \in 1..(n + 1) /\ ~(e[j] <= i) /\ e[j] # i + 1 /\ e[j] - 1 = j
      BY <1>1, <2>2
    <3> QED
      BY <1>3, <3>1
  <2> QED
    BY <2>1, <2>2
<1>6. \A j, k \in 1..n : j < k => e[j] < e[k]
  BY <1>1
<1>7. \A j \in 1..(n + 1) : j = i + 1 \/ \E k \in 1..n : j = e[k]
  <2> TAKE j \in 1..(n + 1)
  <2>1. CASE j <= i
    <3>1. j \in 1..n /\ j = e[j]
      BY <1>1, <2>1
    <3> QED
      BY <3>1
  <2>2. CASE j > i + 1
    <3>1. j - 1 \in 1..n /\ ~(j - 1 <= i)
      BY <1>1, <2>2
    <3>2. e[j - 1] = j
      BY <1>1, <2>2, <3>1
    <3> QED
      BY <3>1, <3>2
  <2> QED
    BY <1>1, <2>1, <2>2
<1>8. M[i + 1] = s /\ i + 1 \in 1..(n + 1)
  BY <1>1, <1>3
<1> HIDE DEF e
<1>9. Elements(M) = Elements(L) \union {s}
  <2>1. ASSUME NEW x \in Elements(M) PROVE x \in Elements(L) \union {s}
    <3>1. PICK j \in 1..(n + 1) : x = M[j]
      BY <1>2 DEF Elements
    <3>2. CASE j = i + 1
      BY <1>8, <3>1, <3>2
    <3>3. CASE j # i + 1
      <4>1. PICK k \in 1..n : j = e[k]
        BY <1>7, <3>3
      <4>2. x = L[k]
        BY <1>5, <3>1, <4>1
      <4> QED
        BY <4>2 DEF Elements
    <3> QED
      BY <3>2, <3>3
  <2>2. ASSUME NEW x \in Elements(L) PROVE x \in Elements(M)
    BY <1>2, <1>5 DEF Elements
  <2>3. s \in Elements(M)
    BY <1>2, <1>8 DEF Elements
  <2> QED
    BY <2>1, <2>2, <2>3
<1>10. Distinct(M)
  <2> SUFFICES ASSUME NEW j \in 1..(n + 1), NEW k \in 1..(n + 1), M[j] = M[k] PROVE j = k
    BY <1>2 DEF Distinct
  <2>1. ASSUME NEW x \in 1..(n + 1), x # i + 1 PROVE M[x] # s
    <3>1. PICK k1 \in 1..n : x = e[k1]
      BY <1>7, <2>1
    <3> QED
      BY <1>4, <1>5, <3>1
  <2>2. CASE j = i + 1 \/ k = i + 1
    BY <1>8, <2>1, <2>2
  <2>3. CASE j # i + 1 /\ k # i + 1
    <3>1. PICK j1 \in 1..n : j = e[j1]
      BY <1>7, <2>3
    <3>2. PICK k1 \in 1..n : k = e[k1]
      BY <1>7, <2>3
    <3>3. L[j1] = L[k1]
      BY <1>5, <3>1, <3>2
    <3>4. j1 = k1
      BY <3>3 DEF Distinct
    <3> QED
      BY <3>1, <3>2, <3>4
  <2> QED
    BY <2>2, <2>3
<1>11. \A a, b \in Elements(L) : Comes(M, a, b) <=> Comes(L, a, b)
  <2>1. Embeds(e, L, M)
    BY <1>2, <1>5, <1>6 DEF Embeds
  <2>2. Len(L) \in Nat /\ Len(M) \in Nat
    BY <1>1, <1>2
  <2> QED
    BY <1>10, <2>1, <2>2, EmbeddedList
<1> QED
  BY <1>9, <1>10, <1>11 DEF M

LEMMA WithoutList ==
  ASSUME steps \in Seq(Ids), Distinct(steps), NEW s \in StepSet
  PROVE  /\ Elements(StepsWithout(s)) = StepSet \ {s} /\ Distinct(StepsWithout(s))
<1> DEFINE M == StepsWithout(s)
           n == Len(steps)
<1>1. PICK i \in 1..n :
        /\ steps[i] = s
        /\ \A j \in 1..(n - 1) : M[j] = IF j < i THEN steps[j] ELSE steps[j + 1]
  BY StepsWithoutOK
<1>2. Len(M) = n - 1 /\ n \in Nat
  BY StepsWithoutOK
<1> HIDE DEF M
<1>3. \A j \in 1..(n - 1) : \E k \in 1..n : k # i /\ M[j] = steps[k]
  BY <1>1
<1>4. \A k \in 1..n : k # i => \E j \in 1..(n - 1) : M[j] = steps[k]
  <2> SUFFICES ASSUME NEW k \in 1..n, k # i PROVE \E j \in 1..(n - 1) : M[j] = steps[k]
    OBVIOUS
  <2>1. CASE k < i
    <3>1. k \in 1..(n - 1)
      BY <2>1
    <3> QED
      BY <1>1, <2>1, <3>1
  <2>2. CASE k > i
    <3>1. k - 1 \in 1..(n - 1) /\ ~(k - 1 < i) /\ (k - 1) + 1 = k
      BY <2>2
    <3> QED
      BY <1>1, <3>1
  <2> QED
    BY <2>1, <2>2
<1>5. Elements(M) = StepSet \ {s}
  <2>1. ASSUME NEW x \in Elements(M) PROVE x \in StepSet \ {s}
    <3>1. PICK j \in 1..(n - 1) : x = M[j]
      BY <1>2 DEF Elements
    <3>2. PICK k \in 1..n : k # i /\ x = steps[k]
      BY <1>3, <3>1
    <3> QED
      BY <1>1, <3>2 DEF StepSet, Distinct
  <2>2. ASSUME NEW x \in StepSet \ {s} PROVE x \in Elements(M)
    <3>1. PICK k \in 1..n : x = steps[k]
      BY DEF StepSet
    <3> QED
      BY <1>1, <1>2, <1>4, <3>1 DEF Elements
  <2> QED
    BY <2>1, <2>2
<1>6. Distinct(M)
  <2> SUFFICES ASSUME NEW j \in 1..(n - 1), NEW k \in 1..(n - 1), M[j] = M[k] PROVE j = k
    BY <1>2 DEF Distinct
  <2> QED
    BY <1>1, <1>2 DEF Distinct
<1> QED
  BY <1>5, <1>6 DEF M

------------------------------------------------------------------------------
(* A pipeline as a record (what Now returns).                                *)

StepsOf(p) == Elements(p.steps)
Needs(p, s) == Def[s][p.params[s]].needs
StaticOf(p, s) == Def[s][p.params[s]].writes \union Def[s][p.params[s]].meta

\* The steps with a cached result.  One caller leaves no results of other steps behind;
\* two at a time may (PipelineOps).
Held(p) == DOMAIN p.results \intersect StepsOf(p)
Tidy(p) == DOMAIN p.results \subseteq StepsOf(p)

\* The three caches are of the same steps, and the notes cover what the results give.
Kept(p) ==
  /\ DOMAIN p.owned = DOMAIN p.results /\ DOMAIN p.dirtyKeys = DOMAIN p.results
  /\ \A s \in DOMAIN p.results : /\ p.results[s].cols \subseteq p.results[s].vars
                                /\ p.results[s].vars \subseteq p.dirtyKeys[s]

\* No step is in the list twice.
Filed(p) == Distinct(p.steps) /\ Kept(p)

\* The cached result of s has the form that s gives it.
Shaped(p, s) ==
  LET r == p.results[s]
  IN  /\ r.cols = IF s \in Analyses THEN {}
                  ELSE IF s \in Imports THEN Columns[r.term.from]
                  ELSE Def[s][p.params[s]].writes
      /\ r.vars = r.cols \union Def[s][p.params[s]].meta
      /\ r = [cols |-> r.cols, vars |-> r.vars, term |-> r.term]
      /\ r.term = [by |-> s, params |-> p.params[s], from |-> r.term.from, of |-> r.term.of]
      /\ r.term.from \in IF s \in Imports THEN Files \ {Gone} ELSE {NoOne}
      /\ r.term.of = [k \in Needs(p, s) |-> r.term.of[k]]

\* The keys s declares, and those of its cached result, as owners of them.
DeclaredOf(p, s) ==
  ({"key"} \X (Def[s][p.params[s]].writes \union (IF s \in Analyses THEN Aliases[s] ELSE {})))
    \union ({"metadata"} \X Def[s][p.params[s]].meta)
OwnedOf(p, s) ==
  ({"key"} \X ((IF s \in Imports THEN p.results[s].cols ELSE Def[s][p.params[s]].writes)
                 \union (IF s \in Analyses THEN Aliases[s] ELSE {})))
    \union ({"metadata"} \X Def[s][p.params[s]].meta)

\* What the engine has noted of the writes of s is what s wrote.
Recorded(p, s) ==
  /\ p.owned[s] = OwnedOf(p, s)
  /\ p.results[s].vars \union (IF s \in Analyses THEN Def[s][p.params[s]].writes ELSE {})
       \subseteq p.dirtyKeys[s]

Owners(p) ==
  \A s, u \in StepsOf(p) : s # u =>
    /\ s \notin Imports /\ u \notin Imports => DeclaredOf(p, s) \intersect DeclaredOf(p, u) = {}
    /\ s \in DOMAIN p.owned /\ u \in DOMAIN p.owned => p.owned[s] \intersect p.owned[u] = {}

\* The notes of every cached step are up to date.
Noted(p) == Filed(p) /\ \A s \in Held(p) : Shaped(p, s) /\ Recorded(p, s)

\* Between two calls of the one caller.
Settled(p) == Noted(p) /\ Tidy(p) /\ Owners(p)

\* A call that is about to walk from step d: only d's own notes may be out of date.
BeginFiled(p, d) ==
  /\ Filed(p)
  /\ d # NoOne => \A s \in Held(p) \ {d} : Shaped(p, s) /\ Recorded(p, s)

\* A walk over the pipeline p: what is left to do, and what is done or was clean.
Done(p, todo) == FirstOf(p.steps, Len(p.steps) - Len(todo))

WalkFiled(p, D, todo) ==
  /\ Filed(p)
  /\ D \subseteq StepsOf(p)
  /\ Len(todo) <= Len(p.steps)
  /\ \A i \in 1..Len(todo) : todo[i] = p.steps[Len(p.steps) - Len(todo) + i]
  /\ Done(p, todo) \subseteq DOMAIN p.results
  /\ \A s \in Held(p) : s \in Done(p, todo) \/ s \notin D => Shaped(p, s) /\ Recorded(p, s)

\* What a walk would publish.
Pending(p, c) ==
  [p EXCEPT !.results = c.results, !.owned = c.owned, !.dirtyKeys = c.dirtyKeys,
            !.current = c.ds, !.analyses = c.an]

\* What a call that fails finds as it was, or puts back.
Restorable(p, c) ==
  /\ "source"    \notin c.restores => p.source    = c.before.source
  /\ "steps"     \notin c.restores => p.steps     = c.before.steps
  /\ "results"   \notin c.restores => p.results   = c.before.results
  /\ "owned"     \notin c.restores => p.owned     = c.before.owned
  /\ "dirtyKeys" \notin c.restores => p.dirtyKeys = c.before.dirtyKeys
  /\ "current"   \notin c.restores => p.current   = c.before.current
  /\ "analyses"  \notin c.restores => p.analyses  = c.before.analyses
  /\ "params"    \notin c.restores =>
       \A s \in StepsOf(c.before) : p.params[s] = c.before.params[s]

\* What a busy call keeps of its notes, whatever other callers do between two calls.
CallFiled(p, c) ==
  /\ c.pc = "begin" => BeginFiled(p, c.dirty)
  /\ c.pc = "walk" => WalkFiled(Pending(p, c), c.dirty, c.todo)
CallTidy(p, c) ==
  /\ c.pc = "begin" => Tidy(p)
  /\ c.pc = "walk" => Tidy(Pending(p, c))

CallSettled(p, c) ==
  /\ c.pc \in {"idle", "failed"} => Settled(p)
  /\ c.pc \in {"begin", "walk"} => Settled(c.before) /\ Restorable(p, c)
  /\ CallFiled(p, c) /\ CallTidy(p, c)

\* One thread uses the pipeline: the engine takes no lock, so that what it keeps between
\* its own calls is a promise to one caller (PipelineOps has two).
OneCaller == \E t : Threads = {t}

SInv == TInv /\ \A t \in Threads : CallSettled(Now, call[t])

\* Two pipelines that differ at most in the parameters of steps they do not have.
Same(p, q) ==
  /\ q.source = p.source /\ q.steps = p.steps /\ q.results = p.results
  /\ q.owned = p.owned /\ q.dirtyKeys = p.dirtyKeys
  /\ q.current = p.current /\ q.analyses = p.analyses
  /\ \A s \in StepsOf(p) : q.params[s] = p.params[s]

LEMMA StepNotes ==
  ASSUME NEW p, NEW q, NEW s, q.results[s] = p.results[s], q.params[s] = p.params[s],
         q.owned[s] = p.owned[s], q.dirtyKeys[s] = p.dirtyKeys[s]
  PROVE  /\ Shaped(q, s) <=> Shaped(p, s)
         /\ Recorded(q, s) <=> Recorded(p, s)
<1>1. Shaped(q, s) <=> Shaped(p, s)
  BY DEF Shaped, Needs
<1>2. Recorded(q, s) <=> Recorded(p, s)
  BY DEF Recorded, OwnedOf
<1> QED
  BY <1>1, <1>2

LEMMA NotedSame ==
  ASSUME NEW p, NEW q, Noted(p), Same(p, q)
  PROVE  Noted(q) /\ StepsOf(q) = StepsOf(p)
<1>1. Filed(q) /\ StepsOf(q) = StepsOf(p)
  BY DEF Noted, Same, Filed, Kept, StepsOf
<1>2. ASSUME NEW s \in Held(q) PROVE Shaped(q, s) /\ Recorded(q, s)
  <2>1. s \in Held(p) /\ s \in StepsOf(p)
    BY <1>1 DEF Held, Same
  <2>2. /\ q.results[s] = p.results[s] /\ q.params[s] = p.params[s]
        /\ q.owned[s] = p.owned[s] /\ q.dirtyKeys[s] = p.dirtyKeys[s]
    BY <2>1 DEF Same
  <2> QED
    BY <2>1, <2>2, StepNotes DEF Noted
<1> QED
  BY <1>1, <1>2 DEF Noted

LEMMA SettledSame ==
  ASSUME NEW p, NEW q, Settled(p), Same(p, q)
  PROVE  Settled(q)
<1>1. Noted(q) /\ StepsOf(q) = StepsOf(p)
  BY NotedSame DEF Settled
<1>2. \A s \in StepsOf(p) : DeclaredOf(q, s) = DeclaredOf(p, s)
  BY DEF Same, DeclaredOf
<1>3. Owners(q)
  BY <1>1, <1>2 DEF Settled, Same, Owners
<1>4. Tidy(q)
  BY <1>1 DEF Settled, Tidy, Same
<1> QED
  BY <1>1, <1>3, <1>4 DEF Settled

LEMMA NowFieldsNext ==
  /\ Now'.source = source' /\ Now'.steps = steps' /\ Now'.params = params'
  /\ Now'.results = results' /\ Now'.owned = owned' /\ Now'.dirtyKeys = dirtyKeys'
  /\ Now'.current = current' /\ Now'.analyses = analyses'
BY DEF Now

LEMMA PendingFields ==
  ASSUME NEW c
  PROVE  LET q == Pending(Now, c)
         IN  /\ q.source = source /\ q.steps = steps /\ q.params = params
             /\ q.results = c.results /\ q.owned = c.owned /\ q.dirtyKeys = c.dirtyKeys
             /\ q.current = c.ds /\ q.analyses = c.an
BY DEF Pending, Now

\* A call that raises leaves what it found.
LEMMA FailRestores ==
  ASSUME NEW t \in Threads, Restorable(Now, call[t]), Fail(t)
  PROVE  Same(call[t].before, Now')
<1> DEFINE c == call[t]
           b == c.before
<1>1. /\ source'    = IF "source" \in c.restores THEN b["source"] ELSE source
      /\ steps'     = IF "steps" \in c.restores THEN b["steps"] ELSE steps
      /\ params'    = IF "params" \in c.restores THEN b["params"] ELSE params
      /\ results'   = IF "results" \in c.restores THEN b["results"] ELSE results
      /\ owned'     = IF "owned" \in c.restores THEN b["owned"] ELSE owned
      /\ dirtyKeys' = IF "dirtyKeys" \in c.restores THEN b["dirtyKeys"] ELSE dirtyKeys
      /\ current'   = IF "current" \in c.restores THEN b["current"] ELSE current
      /\ analyses'  = IF "analyses" \in c.restores THEN b["analyses"] ELSE analyses
  BY DEF Fail, Restored
<1>2. /\ source'  = b.source /\ steps' = b.steps /\ results' = b.results
      /\ owned'   = b.owned /\ dirtyKeys' = b.dirtyKeys
      /\ current' = b.current /\ analyses' = b.analyses
  BY <1>1, NowFields DEF Restorable
<1>3. \A s \in StepsOf(b) : params'[s] = b.params[s]
  BY <1>1, NowFields DEF Restorable
<1> QED
  BY <1>2, <1>3, NowFieldsNext DEF Same

\* A new step.
LEMMA GrowNoted ==
  ASSUME NEW p, NEW q, Noted(p), NEW s, s \notin StepsOf(p),
         Distinct(q.steps), StepsOf(q) = StepsOf(p) \union {s},
         q.results = p.results, q.owned = p.owned, q.dirtyKeys = p.dirtyKeys,
         \A u \in StepsOf(p) : q.params[u] = p.params[u]
  PROVE  /\ BeginFiled(q, s)
         /\ s \notin DOMAIN p.results => Noted(q)
<1>1. Filed(q)
  BY DEF Noted, Filed, Kept
<1>2. ASSUME NEW u \in Held(q), u # s PROVE Shaped(q, u) /\ Recorded(q, u)
  <2>1. u \in Held(p) /\ u \in StepsOf(p)
    BY <1>2 DEF Held
  <2>2. /\ q.results[u] = p.results[u] /\ q.params[u] = p.params[u]
        /\ q.owned[u] = p.owned[u] /\ q.dirtyKeys[u] = p.dirtyKeys[u]
    BY <2>1
  <2> QED
    BY <2>1, <2>2, StepNotes DEF Noted
<1>3. BeginFiled(q, s)
  BY <1>1, <1>2 DEF BeginFiled
<1>4. s \notin DOMAIN p.results => Noted(q)
  BY <1>1, <1>2 DEF Noted, Held
<1> QED
  BY <1>3, <1>4

\* A new step that claims no key of another.
LEMMA GrowSettled ==
  ASSUME NEW p, NEW q, Settled(p), NEW s, s \notin StepsOf(p),
         Distinct(q.steps), StepsOf(q) = StepsOf(p) \union {s},
         q.results = p.results, q.owned = p.owned, q.dirtyKeys = p.dirtyKeys,
         \A u \in StepsOf(p) : q.params[u] = p.params[u],
         \A u \in StepsOf(p) : s \notin Imports /\ u \notin Imports =>
           DeclaredOf(q, s) \intersect DeclaredOf(p, u) = {}
  PROVE  Settled(q)
<1>1. Tidy(q) /\ s \notin DOMAIN p.results
  BY DEF Settled, Tidy
<1>2. \A u \in StepsOf(p) : DeclaredOf(q, u) = DeclaredOf(p, u)
  BY DEF DeclaredOf
<1>3. s \notin DOMAIN q.owned
  BY <1>1 DEF Settled, Noted, Filed, Kept
<1>4. Owners(q)
  <2> SUFFICES ASSUME NEW u \in StepsOf(q), NEW v \in StepsOf(q), u # v
               PROVE  /\ u \notin Imports /\ v \notin Imports =>
                           DeclaredOf(q, u) \intersect DeclaredOf(q, v) = {}
                      /\ u \in DOMAIN q.owned /\ v \in DOMAIN q.owned =>
                           q.owned[u] \intersect q.owned[v] = {}
    BY DEF Owners
  <2>1. CASE u = s
    <3>1. v \in StepsOf(p)
      BY <2>1
    <3> QED
      BY <1>2, <1>3, <2>1, <3>1
  <2>2. CASE v = s
    <3>1. u \in StepsOf(p)
      BY <2>2
    <3> QED
      BY <1>2, <1>3, <2>2, <3>1
  <2>3. CASE u # s /\ v # s
    <3>1. u \in StepsOf(p) /\ v \in StepsOf(p)
      BY <2>3
    <3> QED
      BY <1>2, <3>1 DEF Settled, Owners
  <2> QED
    BY <2>1, <2>2, <2>3
<1>5. Noted(q)
  BY <1>1, GrowNoted DEF Settled
<1> QED
  BY <1>1, <1>4, <1>5 DEF Settled

LEMMA NotedBegins ==
  ASSUME NEW p, Noted(p), NEW d
  PROVE  BeginFiled(p, d)
BY DEF Noted, BeginFiled

LEMMA StepsOfNow ==
  ASSUME steps \in Seq(Ids)
  PROVE  StepsOf(Now) = StepSet /\ StepSet = Elements(steps) /\ StepSet \subseteq Ids
<1>1. StepsOf(Now) = Elements(steps)
  BY NowFields DEF StepsOf
<1>2. Elements(steps) = StepSet /\ StepSet \subseteq Ids
  BY DEF Elements, StepSet
<1> QED
  BY <1>1, <1>2

\* What add and insert_after check of a new step.
LEMMA MayAddApart ==
  ASSUME NEW s \in Ids, NEW p \in ParamsOf(s), MayAdd(StepSet, s, p), DOMAIN params = Ids,
         params' = [params EXCEPT ![s] = p]
  PROVE  /\ s \notin StepSet
         /\ params'[s] = p /\ \A u \in Ids : u # s => params'[u] = params[u]
         /\ \A u \in StepSet : s \notin Imports /\ u \notin Imports =>
              DeclaredOf(Now', s) \intersect DeclaredOf(Now, u) = {}
<1>1. s \notin StepSet
  BY DEF MayAdd
<1>2. params'[s] = p /\ \A u \in Ids : u # s => params'[u] = params[u]
  OBVIOUS
<1>3. ASSUME NEW u \in StepSet, s \notin Imports, u \notin Imports
      PROVE  DeclaredOf(Now', s) \intersect DeclaredOf(Now, u) = {}
  <2> DEFINE own == ({"key"} \X (Def[s][p].writes
                                  \union (IF s \in Analyses THEN Aliases[s] ELSE {})))
                      \union ({"metadata"} \X Def[s][p].meta)
  <2>1. Declared(u) \intersect own = {}
    BY <1>3 DEF MayAdd
  <2>2. DeclaredOf(Now', s) = own
    BY <1>2, NowFieldsNext DEF DeclaredOf
  <2>3. DeclaredOf(Now, u) = Declared(u)
    BY <1>3, NowFields DEF DeclaredOf, Declared, Owned, Writes, Meta
  <2> QED
    BY <2>1, <2>2, <2>3
<1> QED
  BY <1>1, <1>2, <1>3

LEMMA GrownNow ==
  ASSUME TInv, Settled(Now), NEW s \in Ids, NEW p \in ParamsOf(s), MayAdd(StepSet, s, p),
         params' = [params EXCEPT ![s] = p],
         \/ steps' = Append(steps, s)
         \/ \E i \in 1..Len(steps) : steps' = InsertAt(i, s),
         UNCHANGED <<results, owned, dirtyKeys>>
  PROVE  /\ Settled(Now') /\ s \notin StepSet /\ s \notin DOMAIN results
         /\ StepsOf(Now') = StepSet \union {s}
         /\ \A u \in StepSet : params'[u] = params[u]
         /\ \A a, b \in StepSet : Comes(steps', a, b) <=> Comes(steps, a, b)
<1>1. steps \in Seq(Ids) /\ DOMAIN params = Ids
  BY NowOK DEF TInv
<1>2. Distinct(steps) /\ StepSet \subseteq Ids /\ StepSet = Elements(steps)
  <2>1. Distinct(steps)
    BY NowFields DEF Settled, Noted, Filed
  <2> QED
    BY <1>1, <2>1, StepsOfNow
<1>3. /\ s \notin StepSet
      /\ params'[s] = p /\ \A u \in Ids : u # s => params'[u] = params[u]
      /\ \A u \in StepSet : s \notin Imports /\ u \notin Imports =>
           DeclaredOf(Now', s) \intersect DeclaredOf(Now, u) = {}
  BY <1>1, MayAddApart
<1>4. /\ Elements(steps') = StepSet \union {s} /\ Distinct(steps')
      /\ \A a, b \in StepSet : Comes(steps', a, b) <=> Comes(steps, a, b)
  <2>1. CASE steps' = Append(steps, s)
    BY <1>1, <1>2, <1>3, <2>1, AppendList
  <2>2. ASSUME NEW i \in 1..Len(steps), steps' = InsertAt(i, s)
        PROVE  /\ Elements(steps') = StepSet \union {s} /\ Distinct(steps')
               /\ \A a, b \in StepSet : Comes(steps', a, b) <=> Comes(steps, a, b)
    <3>1. steps' = PutIn(steps, i, s)
      BY <1>1, <2>2, InsertAtOK
    <3> QED
      BY <1>1, <1>2, <1>3, <3>1, InsertList
  <2> QED
    BY <2>1, <2>2
<1>5. StepsOf(Now') = StepSet \union {s} /\ Distinct(Now'.steps)
  BY <1>4, NowFieldsNext DEF StepsOf
<1>6. \A u \in StepSet : params'[u] = params[u]
  BY <1>2, <1>3
<1>7. Settled(Now')
  <2>1. /\ Now'.results = Now.results /\ Now'.owned = Now.owned
        /\ Now'.dirtyKeys = Now.dirtyKeys
        /\ \A u \in StepsOf(Now) : Now'.params[u] = Now.params[u]
    BY <1>1, <1>6, NowFields, NowFieldsNext, StepsOfNow
  <2> QED
    BY <1>1, <1>3, <1>5, <2>1, StepsOfNow, GrowSettled
<1>8. s \notin DOMAIN results
  BY <1>1, <1>3, NowFields, StepsOfNow DEF Settled, Tidy
<1> QED
  BY <1>3, <1>4, <1>5, <1>6, <1>7, <1>8

\* A call that has begun.
LEMMA BegunSettled ==
  ASSUME TInv, NEW t \in Threads, NEW d, NEW keys, NEW restores, NEW next,
         Begin(t, d, keys, restores, next), Settled(Now), BeginFiled(Now', d), Tidy(Now'),
         /\ "source"    \notin restores => source'    = source
         /\ "steps"     \notin restores => steps'     = steps
         /\ "results"   \notin restores => results'   = results
         /\ "owned"     \notin restores => owned'     = owned
         /\ "dirtyKeys" \notin restores => dirtyKeys' = dirtyKeys
         /\ "current"   \notin restores => current'   = current
         /\ "analyses"  \notin restores => analyses'  = analyses
         /\ "params"    \notin restores => \A s \in StepSet : params'[s] = params[s]
  PROVE  CallSettled(Now', call'[t])
<1>1. call'[t] = [pc |-> "begin", dirty |-> d, keys |-> keys, restores |-> restores,
                  next |-> next, before |-> Now]
  BY BeginTypes
<1>2. /\ call'[t].pc = "begin" /\ call'[t].dirty = d /\ call'[t].restores = restores
      /\ call'[t].before = Now
  BY <1>1
<1>3. StepsOf(Now) = StepSet
  BY NowOK, StepsOfNow DEF TInv
<1>4. Restorable(Now', call'[t])
  BY <1>2, <1>3, NowFields, NowFieldsNext DEF Restorable
<1>5. CallFiled(Now', call'[t]) /\ CallTidy(Now', call'[t])
  BY <1>2 DEF CallFiled, CallTidy
<1> QED
  BY <1>2, <1>4, <1>5 DEF CallSettled

LEMMA IdleSettled ==
  ASSUME SInv, NEW t \in Threads, Idle(t)
  PROVE  TInv /\ Settled(Now)
BY DEF SInv, CallSettled, Idle

LEMMA RecomputeSettled ==
  ASSUME SInv, NEW t \in Threads, NEW d, Recompute(t, d)
  PROVE  CallSettled(Now', call'[t])
<1>1. TInv /\ Settled(Now)
  BY IdleSettled DEF Recompute
<1>2. Now' = Now
  BY DEF Recompute, pipeline, Now
<1>3. BeginFiled(Now', d) /\ Tidy(Now')
  BY <1>1, <1>2, NotedBegins DEF Settled
<1> QED
  BY <1>1, <1>3, BegunSettled DEF Recompute, pipeline

LEMMA ReplaceSettled ==
  ASSUME SInv, NEW t \in Threads, NEW x, ReplaceSourceDataset(t, x)
  PROVE  CallSettled(Now', call'[t])
<1>1. TInv /\ Settled(Now)
  BY IdleSettled DEF ReplaceSourceDataset
<1>2. Filed(Now') /\ Tidy(Now')
  BY <1>1, NowFields, NowFieldsNext
  DEF ReplaceSourceDataset, Settled, Noted, Filed, Kept, Tidy, StepsOf
<1>3. BeginFiled(Now', NoOne)
  BY <1>2 DEF BeginFiled
<1> QED
  BY <1>1, <1>2, <1>3, BegunSettled DEF ReplaceSourceDataset, Snapshot, Caches

LEMMA RemoveSettled ==
  ASSUME SInv, NEW t \in Threads, NEW s \in Ids, Remove(t, s)
  PROVE  CallSettled(Now', call'[t])
<1>1. TInv /\ Settled(Now)
  BY IdleSettled DEF Remove
<1>2. steps \in Seq(Ids) /\ Distinct(steps) /\ StepsOf(Now) = StepSet
  BY <1>1, NowOK, NowFields, StepsOfNow DEF TInv, Settled, Noted, Filed
<1>3. StepsOf(Now') = StepSet \ {s} /\ Distinct(steps')
  BY <1>2, WithoutList, NowFieldsNext DEF Remove, StepsOf
<1>4. /\ DOMAIN results' = DOMAIN results \ {s}
      /\ DOMAIN owned' = DOMAIN owned \ {s}
      /\ DOMAIN dirtyKeys' = DOMAIN dirtyKeys \ {s}
      /\ \A u \in DOMAIN results' : results'[u] = results[u]
      /\ \A u \in DOMAIN dirtyKeys' : dirtyKeys'[u] = dirtyKeys[u]
  BY DEF Remove, Without
<1>5. DOMAIN results \subseteq StepSet /\ Kept(Now)
  BY <1>1, <1>2, NowFields DEF Settled, Noted, Filed, Tidy
<1>6. Filed(Now') /\ Tidy(Now')
  BY <1>3, <1>4, <1>5, NowFields, NowFieldsNext DEF Filed, Kept, Tidy
<1>7. BeginFiled(Now', NoOne)
  BY <1>6 DEF BeginFiled
<1> QED
  BY <1>1, <1>6, <1>7, BegunSettled DEF Remove, Snapshot, Caches

LEMMA EditSettled ==
  ASSUME SInv, NEW t \in Threads, NEW s \in Ids, NEW p \in ParamsOf(s), EditParams(t, s, p)
  PROVE  CallSettled(Now', call'[t])
<1>1. TInv /\ Settled(Now)
  BY IdleSettled DEF EditParams
<1>2. steps \in Seq(Ids) /\ DOMAIN params = Ids /\ StepsOf(Now) = StepSet /\ StepSet \subseteq Ids
  BY <1>1, NowOK, NowFields, StepsOfNow DEF TInv
<1>3. \A u \in Ids : u # s => params'[u] = params[u]
  BY <1>2 DEF EditParams
<1>4. /\ Now'.steps = Now.steps /\ Now'.results = Now.results
      /\ Now'.owned = Now.owned /\ Now'.dirtyKeys = Now.dirtyKeys
      /\ \A u \in Ids : u # s => Now'.params[u] = Now.params[u]
  BY <1>3, NowFields, NowFieldsNext DEF EditParams
<1>5. Filed(Now') /\ Tidy(Now')
  BY <1>1, <1>4 DEF Settled, Noted, Filed, Kept, Tidy, StepsOf
<1>6. ASSUME NEW u \in Held(Now') \ {s} PROVE Shaped(Now', u) /\ Recorded(Now', u)
  <2>1. u \in Held(Now) /\ u \in Ids
    BY <1>2, <1>4 DEF Held, StepsOf
  <2>2. /\ Now'.results[u] = Now.results[u] /\ Now'.params[u] = Now.params[u]
        /\ Now'.owned[u] = Now.owned[u] /\ Now'.dirtyKeys[u] = Now.dirtyKeys[u]
    BY <1>4, <2>1
  <2> QED
    BY <1>1, <2>1, <2>2, StepNotes DEF Settled, Noted
<1>7. BeginFiled(Now', s)
  BY <1>5, <1>6 DEF BeginFiled
<1> QED
  BY <1>1, <1>5, <1>7, BegunSettled DEF EditParams, EditRestores, Caches

LEMMA InsertSettled ==
  ASSUME SInv, NEW t \in Threads, NEW s \in Ids, NEW p \in ParamsOf(s), NEW i \in 1..Len(steps),
         InsertAfterAndRecompute(t, i, s, p)
  PROVE  CallSettled(Now', call'[t])
<1>1. TInv /\ Settled(Now)
  BY IdleSettled DEF InsertAfterAndRecompute
<1>2. Settled(Now') /\ \A u \in StepSet : params'[u] = params[u]
  BY <1>1, GrownNow DEF InsertAfterAndRecompute
<1>3. BeginFiled(Now', s) /\ Tidy(Now')
  BY <1>2, NotedBegins DEF Settled
<1> QED
  BY <1>1, <1>2, <1>3, BegunSettled DEF InsertAfterAndRecompute, Snapshot, Caches

LEMMA AddSettled ==
  ASSUME SInv, NEW t \in Threads, NEW s \in Ids, NEW p \in ParamsOf(s),
         \/ Add(t, s, p)
         \/ \E i \in 1..Len(steps) : InsertAfter(t, i, s, p)
  PROVE  CallSettled(Now', call'[t])
<1>1. Idle(t) /\ call' = call
  BY DEF Add, InsertAfter
<1>2. TInv /\ Settled(Now)
  BY <1>1, IdleSettled
<1>3. Settled(Now')
  BY <1>2, GrownNow DEF Add, InsertAfter
<1>4. call'[t].pc \in {"idle", "failed"}
  BY <1>1 DEF Idle
<1> QED
  BY <1>3, <1>4 DEF CallSettled, CallFiled, CallTidy

\* The walk moves on by one step.
LEMMA NextDone ==
  ASSUME NEW p, p.steps \in Seq(Ids), Distinct(p.steps), NEW todo \in Seq(Ids), todo # <<>>,
         Len(todo) <= Len(p.steps),
         \A i \in 1..Len(todo) : todo[i] = p.steps[Len(p.steps) - Len(todo) + i]
  PROVE  LET n == Len(p.steps) - Len(todo)
             s == Head(todo)
         IN  /\ n \in Nat /\ n + 1 \in 1..Len(p.steps) /\ s = p.steps[n + 1]
             /\ s \in StepsOf(p) /\ s \notin Done(p, todo)
             /\ Done(p, Tail(todo)) = Done(p, todo) \union {s}
             /\ Len(Tail(todo)) <= Len(p.steps)
             /\ \A i \in 1..Len(Tail(todo)) :
                  Tail(todo)[i] = p.steps[Len(p.steps) - Len(Tail(todo)) + i]
<1> DEFINE m == Len(p.steps)
           l == Len(todo)
           n == m - l
           s == Head(todo)
<1>1. m \in Nat /\ l \in Nat /\ l >= 1 /\ l <= m
  OBVIOUS
<1>2. Len(Tail(todo)) = l - 1 /\ \A i \in 1..(l - 1) : Tail(todo)[i] = todo[i + 1]
  OBVIOUS
<1>3. s = todo[1]
  OBVIOUS
<1>4. s = p.steps[n + 1]
  <2>1. 1 \in 1..l
    BY <1>1
  <2> QED
    BY <1>3, <2>1
<1>5. n \in Nat /\ n + 1 \in 1..m
  BY <1>1
<1>6. s \in StepsOf(p)
  BY <1>4, <1>5 DEF StepsOf, Elements
<1>7. \A i \in 1..(l - 1) : Tail(todo)[i] = p.steps[(m - (l - 1)) + i]
  <2> TAKE i \in 1..(l - 1)
  <2>1. i + 1 \in 1..l
    BY <1>1
  <2>2. todo[i + 1] = p.steps[n + (i + 1)]
    BY <2>1
  <2>3. n + (i + 1) = (m - (l - 1)) + i
    <3>1. i \in Nat
      BY <1>1
    <3> HIDE DEF m, l
    <3> QED
      BY <1>1, <3>1
  <2> QED
    BY <1>2, <2>2, <2>3
<1>8. FirstOf(p.steps, n + 1) = FirstOf(p.steps, n) \union {s}
  <2> HIDE DEF n
  <2>1. \A i \in 1..(n + 1) : i \in 1..n \/ i = n + 1
    BY <1>5
  <2>2. 1..n \subseteq 1..(n + 1) /\ n + 1 \in 1..(n + 1)
    BY <1>5
  <2> QED
    BY <1>4, <2>1, <2>2 DEF FirstOf
<1>9. s \notin FirstOf(p.steps, n)
  <2> SUFFICES ASSUME NEW i \in 1..n, p.steps[i] = s PROVE FALSE
    BY DEF FirstOf
  <2>1. i \in 1..m /\ i # n + 1
    BY <1>1, <1>5
  <2> QED
    BY <1>4, <1>5, <2>1 DEF Distinct
<1>10. Done(p, todo) = FirstOf(p.steps, n)
  BY DEF Done
<1>11. Done(p, Tail(todo)) = FirstOf(p.steps, n + 1)
  <2>1. m - (l - 1) = n + 1
    BY <1>1
  <2>2. Done(p, Tail(todo)) = FirstOf(p.steps, m - Len(Tail(todo)))
    BY DEF Done
  <2> QED
    BY <1>2, <2>1, <2>2
<1>12. Len(Tail(todo)) <= m
  BY <1>1, <1>2
<1> HIDE DEF s
<1> QED
  BY <1>2, <1>4, <1>5, <1>6, <1>7, <1>8, <1>9, <1>10, <1>11, <1>12 DEF s

LEMMA DoneAtEnd ==
  ASSUME NEW p, p.steps \in Seq(Ids), NEW todo, todo = <<>>
  PROVE  Done(p, todo) = StepsOf(p)
<1>1. Len(todo) = 0 /\ Len(p.steps) \in Nat
  OBVIOUS
<1>2. Len(p.steps) - Len(todo) = Len(p.steps)
  BY <1>1
<1> QED
  BY <1>2 DEF Done, FirstOf, StepsOf, Elements

LEMMA DoneAtStart ==
  ASSUME NEW p, p.steps \in Seq(Ids)
  PROVE  Done(p, p.steps) = {}
<1>1. Len(p.steps) - Len(p.steps) = 0
  OBVIOUS
<1> QED
  BY <1>1 DEF Done, FirstOf

\* What a walk that goes on leaves alone.
GoesOn(t) ==
  LET c == call[t]
      d == call'[t]
  IN  /\ Now' = Now /\ UNCHANGED <<file, pipeline>>
      /\ d.pc = "walk" /\ d.restores = c.restores /\ d.next = c.next /\ d.before = c.before
      /\ DOMAIN call' = Threads /\ \A u \in Threads : u # t => call'[u] = call[u]

LEMMA BegunWalk ==
  ASSUME TInv, NEW t \in Threads, WalkBegin(t), ~Fail(t)
  PROVE  LET c == call[t]
             D == DirtySteps(c.dirty, c.keys)
             d == call'[t]
         IN  /\ GoesOn(t)
             /\ c.pc = "begin" /\ c.dirty \in StepSet \union {NoOne}
             /\ c.dirty = NoOne \/ Readable(c.dirty, file)
             /\ d.dirty = D /\ d.todo = steps /\ d.ds = SourceData /\ d.an = <<>>
             /\ d.results = results /\ d.owned = owned /\ d.dirtyKeys = dirtyKeys
<1> DEFINE c == call[t]
           D == DirtySteps(c.dirty, c.keys)
           d == Started(c, D)
<1>1. /\ c.pc = "begin" /\ c.dirty \in StepSet \union {NoOne}
      /\ c.dirty = NoOne \/ Readable(c.dirty, file)
      /\ call' = [call EXCEPT ![t] = d] /\ UNCHANGED <<file, pipeline>>
  BY DEF WalkBegin, Started
<1>2. /\ d.pc = "walk" /\ d.dirty = D /\ d.todo = steps /\ d.ds = SourceData
      /\ d.an = <<>> /\ d.results = results /\ d.owned = owned /\ d.dirtyKeys = dirtyKeys
      /\ d.restores = c.restores /\ d.next = c.next /\ d.before = c.before
  BY StartedFields
<1> HIDE DEF D, d
<1>3. /\ call'[t] = d /\ Now' = Now
      /\ DOMAIN call' = Threads /\ \A u \in Threads : u # t => call'[u] = call[u]
  BY <1>1 DEF TInv, pipeline, Now
<1> QED
  BY <1>1, <1>2, <1>3 DEF GoesOn, D

LEMMA CachedWalk ==
  ASSUME TInv, NEW t \in Threads, WalkCached(t)
  PROVE  LET c == call[t]
             d == call'[t]
             s == Head(c.todo)
         IN  /\ GoesOn(t)
             /\ c.pc = "walk" /\ c.todo # <<>> /\ s \in DOMAIN c.results \ c.dirty
             /\ d.dirty = c.dirty /\ d.todo = Tail(c.todo)
             /\ d.results = c.results /\ d.owned = c.owned /\ d.dirtyKeys = c.dirtyKeys
             /\ d.ds = WithUpdates(c.ds, c.results[s])
             /\ d.an = WithAnalysis(c.an, s, c.results[s])
<1> DEFINE c == call[t]
           s == Head(c.todo)
           d == Advanced(c, s, c.results[s], c.results, c.owned, c.dirtyKeys)
<1>1. c.pc = "walk" /\ c.todo # <<>> /\ s \in DOMAIN c.results \ c.dirty
      /\ UNCHANGED <<file, pipeline>>
  BY DEF WalkCached
<1>2. call' = [call EXCEPT ![t] = d]
  BY WalkCachedIs
<1>3. /\ d.pc = "walk" /\ d.dirty = c.dirty /\ d.restores = c.restores /\ d.next = c.next
      /\ d.before = c.before
      /\ d.todo = Tail(c.todo) /\ d.results = c.results /\ d.owned = c.owned
      /\ d.dirtyKeys = c.dirtyKeys
      /\ d.ds = WithUpdates(c.ds, c.results[s])
      /\ d.an = WithAnalysis(c.an, s, c.results[s])
  BY <1>1, AdvancedFields
<1> HIDE DEF d
<1>4. /\ call'[t] = d /\ Now' = Now
      /\ DOMAIN call' = Threads /\ \A u \in Threads : u # t => call'[u] = call[u]
  BY <1>1, <1>2 DEF TInv, pipeline, Now
<1> QED
  BY <1>1, <1>3, <1>4 DEF GoesOn

\* The step just computed: p and q are what the walk would publish before and after it.
LEMMA ComputedFacts ==
  ASSUME TInv, NEW t \in Threads, WalkCompute(t), ~Fail(t)
  PROVE  LET c == call[t]
             s == Head(c.todo)
             p == Pending(Now, c)
             r == Compute(s, file, c.ds, c.an)
             d == call'[t]
             q == Pending(Now', d)
         IN  /\ c.pc = "walk" /\ c.todo # <<>> /\ (s \in c.dirty \/ s \notin DOMAIN c.results)
             /\ CanCompute(s, c.ds, c.an) /\ UniqueNow(q.results, q.owned)
             /\ GoesOn(t) /\ d.dirty = c.dirty /\ d.todo = Tail(c.todo)
             /\ d.results = q.results /\ d.owned = q.owned /\ d.dirtyKeys = q.dirtyKeys
             /\ q.source = source /\ q.steps = steps /\ q.params = params
             /\ q.results = Put(p.results, s, r)
             /\ q.owned = Put(p.owned, s, Owned(s, IF s \in Imports THEN r.cols
                                                   ELSE Writes(s, file)))
             /\ q.dirtyKeys = Put(p.dirtyKeys, s, ResultKeys(s, r))
             /\ q.current = WithUpdates(c.ds, r) /\ q.analyses = WithAnalysis(c.an, s, r)
<1> DEFINE c == call[t]
           s == Head(c.todo)
           p == Pending(Now, c)
           r == Compute(s, file, c.ds, c.an)
           res == Put(c.results, s, r)
           own == Put(c.owned, s, Owned(s, IF s \in Imports THEN r.cols ELSE Writes(s, file)))
           dk == Put(c.dirtyKeys, s, ResultKeys(s, r))
           d == Advanced(c, s, r, res, own, dk)
           q == Pending(Now', d)
<1>1. c.pc = "walk" /\ c.todo # <<>> /\ (s \in c.dirty \/ s \notin DOMAIN c.results)
  BY DEF WalkCompute
<1>3. CanCompute(s, c.ds, c.an) /\ UniqueNow(res, own) /\ UNCHANGED <<file, pipeline>>
      /\ call' = [call EXCEPT ![t] = d]
  BY WalkComputeIs
<1> HIDE DEF res, own, dk, s, r
<1>4. Now' = Now
  BY <1>3 DEF pipeline, Now
<1>5. call'[t] = d /\ DOMAIN call' = Threads /\ \A u \in Threads : u # t => call'[u] = call[u]
  <2> HIDE DEF d
  <2> QED
    BY <1>3 DEF TInv
<1>6. /\ d.pc = "walk" /\ d.dirty = c.dirty /\ d.restores = c.restores /\ d.next = c.next
      /\ d.before = c.before
      /\ d.todo = Tail(c.todo) /\ d.results = res /\ d.owned = own /\ d.dirtyKeys = dk
      /\ d.ds = WithUpdates(c.ds, r) /\ d.an = WithAnalysis(c.an, s, r)
  BY <1>1, AdvancedFields
<1> HIDE DEF d
<1>7. /\ q.source = source /\ q.steps = steps /\ q.params = params
      /\ q.results = d.results /\ q.owned = d.owned /\ q.dirtyKeys = d.dirtyKeys
      /\ q.current = d.ds /\ q.analyses = d.an
  BY <1>4, PendingFields
<1>8. p.results = c.results /\ p.owned = c.owned /\ p.dirtyKeys = c.dirtyKeys
  BY PendingFields
<1> HIDE DEF q, p, c
<1>9. /\ q.results = Put(p.results, s, r)
      /\ q.owned = Put(p.owned, s, Owned(s, IF s \in Imports THEN r.cols ELSE Writes(s, file)))
      /\ q.dirtyKeys = Put(p.dirtyKeys, s, ResultKeys(s, r))
      /\ UniqueNow(q.results, q.owned)
  BY <1>3, <1>6, <1>7, <1>8 DEF res, own, dk
<1>10. GoesOn(t)
  BY <1>3, <1>4, <1>5, <1>6 DEF GoesOn, c
<1> QED
  BY <1>1, <1>3, <1>5, <1>6, <1>7, <1>9, <1>10 DEF c, s, r, p, q

\* What a step computes has its form, and is noted.
LEMMA ComputedNotes ==
  ASSUME NEW q, NEW s, NEW ds, NEW an, q.params = params, Readable(s, file), file \in Files,
         q.results[s] = Compute(s, file, ds, an),
         q.owned[s] = Owned(s, IF s \in Imports THEN Compute(s, file, ds, an).cols
                               ELSE Writes(s, file)),
         q.dirtyKeys[s] = ResultKeys(s, Compute(s, file, ds, an))
  PROVE  Shaped(q, s) /\ Recorded(q, s)
<1> DEFINE r == q.results[s]
<1>1. /\ r.cols = IF s \in Analyses THEN {} ELSE Writes(s, file)
      /\ r.vars = r.cols \union Meta(s)
      /\ r = [cols |-> r.cols, vars |-> r.vars, term |-> r.term]
      /\ r.term = [by |-> s, params |-> params[s],
                   from |-> IF s \in Imports THEN file ELSE NoOne,
                   of |-> [k \in Def[s][params[s]].needs |-> Lookup(k, ds, an)]]
  BY ComputeFields
<1> HIDE DEF r
<1>2. s \in Imports => file \in Files \ {Gone}
  BY DEF Readable
<1>3. Shaped(q, s)
  <2>1. r.term.from = (IF s \in Imports THEN file ELSE NoOne)
        /\ r.term.of = [k \in Needs(q, s) |-> Lookup(k, ds, an)]
    BY <1>1 DEF Needs
  <2>2. r.term.of = [k \in Needs(q, s) |-> r.term.of[k]]
    BY <2>1
  <2>3. r.term = [by |-> s, params |-> q.params[s], from |-> r.term.from, of |-> r.term.of]
    BY <1>1
  <2>4. r.cols = IF s \in Analyses THEN {}
                 ELSE IF s \in Imports THEN Columns[r.term.from]
                 ELSE Def[s][q.params[s]].writes
    BY <1>1, <2>1 DEF Writes
  <2> QED
    BY <1>1, <1>2, <2>1, <2>2, <2>3, <2>4 DEF Shaped, Meta, r
<1>4. Recorded(q, s)
  <2>1. q.owned[s] = Owned(s, IF s \in Imports THEN r.cols ELSE Writes(s, file))
    BY DEF r
  <2>2. q.owned[s] = OwnedOf(q, s)
    BY <2>1 DEF OwnedOf, Owned, Writes, Meta, r
  <2>3. q.dirtyKeys[s] = ResultKeys(s, r)
    BY DEF r
  <2>4. s \in Analyses => s \notin Imports
    BY StepsAssumption
  <2>5. r.vars \union (IF s \in Analyses THEN Def[s][q.params[s]].writes ELSE {})
          \subseteq q.dirtyKeys[s]
    BY <2>3, <2>4 DEF ResultKeys, Writes
  <2> QED
    BY <2>2, <2>5 DEF Recorded, r
<1> QED
  BY <1>3, <1>4

\* A walk keeps its three caches together, whoever else uses the pipeline.
LEMMA KeptOn ==
  ASSUME TInv, NEW t \in Threads,
         \/ WalkBegin(t) /\ Kept(Now)
         \/ (WalkCached(t) \/ WalkCompute(t)) /\ Kept(call[t]),
         ~Fail(t)
  PROVE  GoesOn(t) /\ Kept(call'[t])
<1>1. CASE WalkBegin(t) /\ Kept(Now)
  BY <1>1, BegunWalk, NowFields DEF Kept
<1>2. CASE WalkCached(t) /\ Kept(call[t])
  BY <1>2, CachedWalk DEF Kept
<1>3. CASE WalkCompute(t) /\ Kept(call[t])
  <2> DEFINE c == call[t]
             p == Pending(Now, c)
             s == Head(c.todo)
             r == Compute(s, file, c.ds, c.an)
             d == call'[t]
             q == Pending(Now', d)
             o == Owned(s, IF s \in Imports THEN r.cols ELSE Writes(s, file))
             k == ResultKeys(s, r)
  <2>1. /\ GoesOn(t) /\ CanCompute(s, c.ds, c.an)
        /\ d.results = q.results /\ d.owned = q.owned /\ d.dirtyKeys = q.dirtyKeys
        /\ q.results = Put(p.results, s, r) /\ q.owned = Put(p.owned, s, o)
        /\ q.dirtyKeys = Put(p.dirtyKeys, s, k)
    BY <1>3, ComputedFacts
  <2>2. p.results = c.results /\ p.owned = c.owned /\ p.dirtyKeys = c.dirtyKeys
    BY PendingFields
  <2>3. r.cols \subseteq r.vars /\ r.vars \subseteq k
    <3>1. r.vars = r.cols \union Meta(s)
      BY DEF Compute
    <3> HIDE DEF r, s
    <3> QED
      BY <3>1 DEF ResultKeys
  <2>8. /\ d.results = Put(c.results, s, r) /\ d.owned = Put(c.owned, s, o)
        /\ d.dirtyKeys = Put(c.dirtyKeys, s, k)
    BY <2>1, <2>2
  <2> HIDE DEF p, q, d, r, o, k, s, c
  <2>4. /\ DOMAIN d.results = DOMAIN c.results \union {s} /\ d.results[s] = r
        /\ \A u \in DOMAIN c.results : u # s => d.results[u] = c.results[u]
    BY <2>8 DEF Put
  <2>5. DOMAIN d.owned = DOMAIN c.owned \union {s}
    BY <2>8 DEF Put
  <2>6. /\ DOMAIN d.dirtyKeys = DOMAIN c.dirtyKeys \union {s} /\ d.dirtyKeys[s] = k
        /\ \A u \in DOMAIN c.dirtyKeys : u # s => d.dirtyKeys[u] = c.dirtyKeys[u]
    BY <2>8 DEF Put
  <2>7. Kept(d)
    BY <1>3, <2>3, <2>4, <2>5, <2>6 DEF Kept, c
  <2> QED
    BY <2>1, <2>7 DEF d
<1> QED
  BY <1>1, <1>2, <1>3

LEMMA BeginWalkFiled ==
  ASSUME TInv, NEW t \in Threads, CallFiled(Now, call[t]), WalkBegin(t), ~Fail(t)
  PROVE  /\ GoesOn(t) /\ CallFiled(Now', call'[t])
         /\ CallTidy(Now, call[t]) => CallTidy(Now', call'[t])
<1> DEFINE c == call[t]
           D == DirtySteps(c.dirty, c.keys)
           d == call'[t]
           q == Pending(Now', d)
<1>1. /\ GoesOn(t)
      /\ c.pc = "begin" /\ c.dirty \in StepSet \union {NoOne}
      /\ d.dirty = D /\ d.todo = steps
      /\ d.results = results /\ d.owned = owned /\ d.dirtyKeys = dirtyKeys
  BY BegunWalk
<1>2. BeginFiled(Now, c.dirty)
  BY <1>1 DEF CallFiled
<1>3. steps \in Seq(Ids) /\ StepsOf(Now) = StepSet /\ StepSet \subseteq Ids
  BY NowOK, StepsOfNow DEF TInv
<1>4. d.pc = "walk" /\ Now' = Now
  BY <1>1 DEF GoesOn
<1>6. D \subseteq StepSet /\ (c.dirty # NoOne => c.dirty \in D) /\ (c.dirty = NoOne => D = StepSet)
  <2>1. CASE c.dirty = NoOne
    BY <2>1 DEF DirtySteps
  <2>2. CASE c.dirty # NoOne
    <3>1. c.dirty \in StepSet
      BY <1>1, <2>2
    <3> QED
      BY <1>3, <2>2, <3>1, DirtyStepsAre
  <2> QED
    BY <2>1, <2>2
<1> HIDE DEF D, d
<1>7. /\ q.steps = steps /\ q.params = params /\ q.results = results
      /\ q.owned = owned /\ q.dirtyKeys = dirtyKeys
  BY <1>1, <1>4, PendingFields
<1> HIDE DEF q
<1>8. Filed(q) /\ StepsOf(q) = StepSet
  BY <1>2, <1>3, <1>7, NowFields DEF BeginFiled, Filed, Kept, StepsOf
<1>9. Done(q, d.todo) = {}
  BY <1>1, <1>3, <1>7, DoneAtStart
<1>10. \A s \in Held(q) : s \notin D => Shaped(q, s) /\ Recorded(q, s)
  <2> SUFFICES ASSUME NEW s \in Held(q), s \notin D PROVE Shaped(q, s) /\ Recorded(q, s)
    OBVIOUS
  <2>1. s \in StepSet /\ s \in Held(Now)
    BY <1>3, <1>7, <1>8, NowFields DEF Held
  <2>2. c.dirty # NoOne /\ s # c.dirty
    BY <1>6, <2>1
  <2>3. Shaped(Now, s) /\ Recorded(Now, s)
    BY <1>2, <2>1, <2>2 DEF BeginFiled
  <2>4. /\ q.results[s] = Now.results[s] /\ q.params[s] = Now.params[s]
        /\ q.owned[s] = Now.owned[s] /\ q.dirtyKeys[s] = Now.dirtyKeys[s]
    BY <1>7, NowFields
  <2> QED
    BY <2>3, <2>4, StepNotes
<1>11. /\ Len(d.todo) <= Len(q.steps)
       /\ \A i \in 1..Len(d.todo) : d.todo[i] = q.steps[Len(q.steps) - Len(d.todo) + i]
  BY <1>1, <1>3, <1>7
<1>12. WalkFiled(q, d.dirty, d.todo)
  BY <1>1, <1>6, <1>8, <1>9, <1>10, <1>11 DEF WalkFiled
<1>13. Tidy(Now) => Tidy(q)
  BY <1>3, <1>7, <1>8, NowFields DEF Tidy
<1> QED
  BY <1>1, <1>4, <1>12, <1>13 DEF CallFiled, CallTidy, q, d

\* Facts about a call that walks, the pipeline p it would publish and its next step.
LEMMA WalkFacts ==
  ASSUME TInv, NEW t \in Threads, CallFiled(Now, call[t]), call[t].pc = "walk"
  PROVE  LET c == call[t]
             p == Pending(Now, c)
         IN  /\ p.source = source /\ p.steps = steps /\ p.params = params
             /\ p.results = c.results /\ p.owned = c.owned /\ p.dirtyKeys = c.dirtyKeys
             /\ p.current = c.ds /\ p.analyses = c.an
             /\ steps \in Seq(Ids) /\ StepsOf(p) = StepSet /\ StepSet \subseteq Ids
             /\ WalkFiled(p, c.dirty, c.todo) /\ c.todo \in Seq(Ids)
<1>1. WalkFiled(Pending(Now, call[t]), call[t].dirty, call[t].todo)
  BY DEF CallFiled
<1>2. steps \in Seq(Ids)
  BY <1>1, NowOK DEF TInv
<1>3. call[t].todo \in Seq(Ids)
  BY <1>1, WalkFields
<1> DEFINE p == Pending(Now, call[t])
<1>4. /\ p.source = source /\ p.steps = steps /\ p.params = params
      /\ p.results = call[t].results /\ p.owned = call[t].owned
      /\ p.dirtyKeys = call[t].dirtyKeys
      /\ p.current = call[t].ds /\ p.analyses = call[t].an
  BY PendingFields
<1> HIDE DEF p
<1>5. StepsOf(p) = StepSet /\ StepSet \subseteq Ids
  BY <1>2, <1>4, NowFields, StepsOfNow DEF StepsOf
<1> QED
  BY <1>1, <1>2, <1>3, <1>4, <1>5 DEF p

\* The next step of a walk.
LEMMA NextStep ==
  ASSUME TInv, NEW t \in Threads, CallFiled(Now, call[t]), call[t].pc = "walk",
         call[t].todo # <<>>
  PROVE  LET c == call[t]
             p == Pending(Now, c)
             s == Head(c.todo)
             n == Len(steps) - Len(c.todo)
         IN  /\ n \in Nat /\ n + 1 \in 1..Len(steps) /\ s = steps[n + 1]
             /\ s \in StepSet /\ s \in Ids /\ s \notin Done(p, c.todo)
             /\ Done(p, Tail(c.todo)) = Done(p, c.todo) \union {s}
             /\ Len(Tail(c.todo)) <= Len(steps)
             /\ \A i \in 1..Len(Tail(c.todo)) :
                  Tail(c.todo)[i] = steps[Len(steps) - Len(Tail(c.todo)) + i]
<1> DEFINE c == call[t]
           p == Pending(Now, c)
           todo == c.todo
<1>1. /\ p.steps = steps /\ steps \in Seq(Ids) /\ StepsOf(p) = StepSet /\ StepSet \subseteq Ids
      /\ WalkFiled(p, c.dirty, c.todo) /\ c.todo \in Seq(Ids)
  BY WalkFacts
<1>2. Distinct(p.steps) /\ Len(todo) <= Len(p.steps)
      /\ \A i \in 1..Len(todo) : todo[i] = p.steps[Len(p.steps) - Len(todo) + i]
  BY <1>1 DEF WalkFiled, Filed
<1>3. p.steps \in Seq(Ids) /\ todo \in Seq(Ids) /\ todo # <<>>
  BY <1>1
<1> HIDE DEF p, todo
<1>4. LET n == Len(p.steps) - Len(todo)
          s == Head(todo)
      IN  /\ n \in Nat /\ n + 1 \in 1..Len(p.steps) /\ s = p.steps[n + 1]
          /\ s \in StepsOf(p) /\ s \notin Done(p, todo)
          /\ Done(p, Tail(todo)) = Done(p, todo) \union {s}
          /\ Len(Tail(todo)) <= Len(p.steps)
          /\ \A i \in 1..Len(Tail(todo)) :
               Tail(todo)[i] = p.steps[Len(p.steps) - Len(Tail(todo)) + i]
  BY <1>2, <1>3, NextDone
<1> QED
  BY <1>1, <1>4 DEF p, todo

LEMMA CachedWalkFiled ==
  ASSUME TInv, NEW t \in Threads, CallFiled(Now, call[t]), WalkCached(t), ~Fail(t)
  PROVE  /\ GoesOn(t) /\ CallFiled(Now', call'[t])
         /\ CallTidy(Now, call[t]) => CallTidy(Now', call'[t])
<1> DEFINE c == call[t]
           p == Pending(Now, c)
           s == Head(c.todo)
           d == call'[t]
           q == Pending(Now', d)
<1>1. /\ GoesOn(t)
      /\ c.pc = "walk" /\ c.todo # <<>> /\ s \in DOMAIN c.results \ c.dirty
      /\ d.dirty = c.dirty /\ d.todo = Tail(c.todo)
      /\ d.results = c.results /\ d.owned = c.owned /\ d.dirtyKeys = c.dirtyKeys
  BY CachedWalk
<1>2. /\ p.steps = steps /\ p.params = params
      /\ p.results = c.results /\ p.owned = c.owned /\ p.dirtyKeys = c.dirtyKeys
      /\ StepsOf(p) = StepSet
      /\ WalkFiled(p, c.dirty, c.todo)
  BY <1>1, WalkFacts
<1>3. /\ s \in StepSet
      /\ Done(p, Tail(c.todo)) = Done(p, c.todo) \union {s}
      /\ Len(Tail(c.todo)) <= Len(steps)
      /\ \A i \in 1..Len(Tail(c.todo)) :
           Tail(c.todo)[i] = steps[Len(steps) - Len(Tail(c.todo)) + i]
  BY <1>1, NextStep
<1>4. Now' = Now /\ d.pc = "walk"
  BY <1>1 DEF GoesOn
<1> HIDE DEF d
<1>5. /\ q.steps = steps /\ q.params = params /\ q.results = c.results
      /\ q.owned = c.owned /\ q.dirtyKeys = c.dirtyKeys
  BY <1>1, <1>4, PendingFields
<1> HIDE DEF q, p, s
<1>6. Filed(q) /\ StepsOf(q) = StepSet
  BY <1>2, <1>5 DEF WalkFiled, Filed, Kept, StepsOf
<1>7. Done(q, d.todo) = Done(p, c.todo) \union {s}
  BY <1>1, <1>2, <1>3, <1>5 DEF Done
<1>8. ASSUME NEW u \in DOMAIN q.results
      PROVE  (Shaped(q, u) <=> Shaped(p, u)) /\ (Recorded(q, u) <=> Recorded(p, u))
  BY <1>2, <1>5, StepNotes
<1>9. WalkFiled(q, d.dirty, d.todo)
  <2>1. d.dirty \subseteq StepsOf(q) /\ Done(q, d.todo) \subseteq DOMAIN q.results
    BY <1>1, <1>2, <1>5, <1>6, <1>7 DEF WalkFiled
  <2>2. \A u \in Held(q) : u \in Done(q, d.todo) \/ u \notin d.dirty =>
          Shaped(q, u) /\ Recorded(q, u)
    BY <1>1, <1>2, <1>5, <1>6, <1>7, <1>8 DEF WalkFiled, Held
  <2> QED
    BY <1>1, <1>3, <1>5, <1>6, <2>1, <2>2 DEF WalkFiled
<1>10. Tidy(p) => Tidy(q)
  BY <1>2, <1>5, <1>6 DEF Tidy
<1> QED
  BY <1>1, <1>4, <1>9, <1>10 DEF CallFiled, CallTidy, q, p, d

LEMMA ComputeWalkFiled ==
  ASSUME TInv, NEW t \in Threads, CallFiled(Now, call[t]), WalkCompute(t), ~Fail(t)
  PROVE  /\ GoesOn(t) /\ CallFiled(Now', call'[t])
         /\ CallTidy(Now, call[t]) => CallTidy(Now', call'[t])
<1> DEFINE c == call[t]
           p == Pending(Now, c)
           s == Head(c.todo)
           r == Compute(s, file, c.ds, c.an)
           d == call'[t]
           q == Pending(Now', d)
           o == Owned(s, IF s \in Imports THEN r.cols ELSE Writes(s, file))
           k == ResultKeys(s, r)
<1>1. /\ c.pc = "walk" /\ c.todo # <<>> /\ CanCompute(s, c.ds, c.an)
      /\ GoesOn(t) /\ d.dirty = c.dirty /\ d.todo = Tail(c.todo)
      /\ d.results = q.results /\ d.owned = q.owned /\ d.dirtyKeys = q.dirtyKeys
      /\ q.steps = steps /\ q.params = params
      /\ q.results = Put(p.results, s, r) /\ q.owned = Put(p.owned, s, o)
      /\ q.dirtyKeys = Put(p.dirtyKeys, s, k)
  BY ComputedFacts
<1>2. /\ p.steps = steps /\ p.params = params
      /\ p.results = c.results /\ p.owned = c.owned /\ p.dirtyKeys = c.dirtyKeys
      /\ StepsOf(p) = StepSet
      /\ WalkFiled(p, c.dirty, c.todo)
  BY <1>1, WalkFacts
<1>3. /\ s \in StepSet /\ s \notin Done(p, c.todo)
      /\ Done(p, Tail(c.todo)) = Done(p, c.todo) \union {s}
      /\ Len(Tail(c.todo)) <= Len(steps)
      /\ \A i \in 1..Len(Tail(c.todo)) :
           Tail(c.todo)[i] = steps[Len(steps) - Len(Tail(c.todo)) + i]
  BY <1>1, NextStep
<1>4. file \in Files
  BY DEF TInv
<1>5. Kept(p) /\ Kept(c)
  BY <1>2 DEF WalkFiled, Filed, Kept
<1>6. Kept(d)
  BY <1>5, KeptOn
<1>7. /\ DOMAIN q.results = DOMAIN p.results \union {s} /\ q.results[s] = r
      /\ \A u \in DOMAIN p.results : u # s => q.results[u] = p.results[u]
  <2> HIDE DEF r, s, p, q
  <2> QED
    BY <1>1 DEF Put
<1>8. /\ q.owned[s] = o
      /\ \A u \in DOMAIN p.owned : u # s => q.owned[u] = p.owned[u]
  <2>1. q.owned = Put(p.owned, s, o)
    BY <1>1
  <2> HIDE DEF r, s, p, q, o
  <2> QED
    BY <2>1 DEF Put
<1>9. /\ q.dirtyKeys[s] = k
      /\ \A u \in DOMAIN p.dirtyKeys : u # s => q.dirtyKeys[u] = p.dirtyKeys[u]
  <2>1. q.dirtyKeys = Put(p.dirtyKeys, s, k)
    BY <1>1
  <2> HIDE DEF r, s, p, q, k
  <2> QED
    BY <2>1 DEF Put
<1>10. Shaped(q, s) /\ Recorded(q, s)
  <2>1. q.params = params /\ Readable(s, file) /\ file \in Files
    BY <1>1, <1>4 DEF CanCompute
  <2>2. /\ q.results[s] = Compute(s, file, c.ds, c.an)
        /\ q.owned[s] = Owned(s, IF s \in Imports THEN Compute(s, file, c.ds, c.an).cols
                                 ELSE Writes(s, file))
        /\ q.dirtyKeys[s] = ResultKeys(s, Compute(s, file, c.ds, c.an))
    BY <1>7, <1>8, <1>9
  <2> HIDE DEF q, s
  <2> QED
    BY <2>1, <2>2, ComputedNotes
<1> HIDE DEF q, p, s, r, o, k, d
<1>11. Filed(q) /\ StepsOf(q) = StepSet
  BY <1>1, <1>2, <1>6 DEF StepsOf, WalkFiled, Filed, Kept
<1>12. Done(q, d.todo) = Done(p, c.todo) \union {s}
  BY <1>1, <1>2, <1>3 DEF Done
<1>13. ASSUME NEW u \in Held(q), u # s
       PROVE  /\ u \in Held(p)
              /\ Shaped(q, u) <=> Shaped(p, u)
              /\ Recorded(q, u) <=> Recorded(p, u)
  <2>1. u \in DOMAIN p.results /\ u \in DOMAIN p.owned /\ u \in DOMAIN p.dirtyKeys
    BY <1>5, <1>7, <1>13 DEF Held, Kept
  <2>2. /\ q.results[u] = p.results[u] /\ q.owned[u] = p.owned[u]
        /\ q.dirtyKeys[u] = p.dirtyKeys[u] /\ q.params[u] = p.params[u]
    BY <1>1, <1>2, <1>7, <1>8, <1>9, <1>13, <2>1
  <2> QED
    BY <1>2, <1>11, <2>1, <2>2, StepNotes DEF Held
<1>14. WalkFiled(q, d.dirty, d.todo)
  <2>1. d.dirty \subseteq StepsOf(q) /\ Done(q, d.todo) \subseteq DOMAIN q.results
    BY <1>1, <1>2, <1>7, <1>11, <1>12 DEF WalkFiled
  <2>2. ASSUME NEW u \in Held(q), u \in Done(q, d.todo) \/ u \notin d.dirty
        PROVE  Shaped(q, u) /\ Recorded(q, u)
    <3>1. CASE u = s
      BY <1>10, <3>1
    <3>2. CASE u # s
      <4>1. u \in Held(p) /\ (u \in Done(p, c.todo) \/ u \notin c.dirty)
        BY <1>1, <1>12, <1>13, <2>2, <3>2
      <4>2. Shaped(p, u) /\ Recorded(p, u)
        BY <1>2, <4>1 DEF WalkFiled
      <4> QED
        BY <1>13, <3>2, <4>2
    <3> QED
      BY <3>1, <3>2
  <2> QED
    BY <1>1, <1>3, <1>11, <2>1, <2>2 DEF WalkFiled
<1>15. Tidy(p) => Tidy(q)
  BY <1>2, <1>3, <1>7, <1>11 DEF Tidy
<1>16. d.pc = "walk"
  BY <1>1 DEF GoesOn, d
<1> QED
  BY <1>1, <1>14, <1>15, <1>16 DEF CallFiled, CallTidy, q, p, d

LEMMA WalkOn ==
  ASSUME TInv, NEW t \in Threads, CallFiled(Now, call[t]),
         WalkBegin(t) \/ WalkCached(t) \/ WalkCompute(t), ~Fail(t)
  PROVE  /\ GoesOn(t) /\ CallFiled(Now', call'[t])
         /\ CallTidy(Now, call[t]) => CallTidy(Now', call'[t])
BY BeginWalkFiled, CachedWalkFiled, ComputeWalkFiled

\* What a walk has when it ends: every step is computed and noted.
LEMMA EndFacts ==
  ASSUME TInv, NEW t \in Threads, CallFiled(Now, call[t]), Ready(t)
  PROVE  LET c == call[t]
             p == Pending(Now, c)
         IN  /\ Done(p, c.todo) = StepsOf(p) /\ Held(p) = StepsOf(p) /\ Noted(p)
             /\ StepsOf(p) = StepSet
<1> DEFINE c == call[t]
           p == Pending(Now, c)
<1>1. c.pc = "walk" /\ c.todo = <<>>
  BY DEF Ready
<1>2. /\ p.steps = steps /\ steps \in Seq(Ids) /\ StepsOf(p) = StepSet
      /\ WalkFiled(p, c.dirty, c.todo)
  BY <1>1, WalkFacts
<1> HIDE DEF p
<1>3. Done(p, c.todo) = StepsOf(p)
  BY <1>1, <1>2, DoneAtEnd
<1>4. Held(p) = StepsOf(p)
  BY <1>2, <1>3 DEF WalkFiled, Held
<1>5. Noted(p)
  BY <1>2, <1>3, <1>4 DEF WalkFiled, Noted
<1> QED
  BY <1>2, <1>3, <1>4, <1>5 DEF p

LEMMA CommitFacts ==
  ASSUME TInv, NEW t \in Threads, Commit(t), ~Fail(t)
  PROVE  /\ Ready(t) /\ UniqueAtEnd(t) /\ Same(Pending(Now, call[t]), Now')
         /\ call'[t].pc = "idle" /\ Publish(t) /\ steps' = steps
         /\ DOMAIN call' = Threads /\ \A u \in Threads : u # t => call'[u] = call[u]
<1> DEFINE c == call[t]
           p == Pending(Now, c)
<1>1. /\ Ready(t) /\ UniqueAtEnd(t) /\ Publish(t) /\ steps' = steps
      /\ call' = [call EXCEPT ![t] = [pc |-> "idle"]]
  BY DEF Commit
<1>2. /\ p.source = source /\ p.steps = steps /\ p.params = params
      /\ p.results = c.results /\ p.owned = c.owned /\ p.dirtyKeys = c.dirtyKeys
      /\ p.current = c.ds /\ p.analyses = c.an
  BY PendingFields
<1> HIDE DEF p
<1>3. Same(p, Now')
  BY <1>1, <1>2, NowFieldsNext DEF Publish, Same
<1>4. /\ call'[t].pc = "idle" /\ DOMAIN call' = Threads
      /\ \A u \in Threads : u # t => call'[u] = call[u]
  BY <1>1 DEF TInv
<1> QED
  BY <1>1, <1>3, <1>4 DEF p

LEMMA GoesOnSettled ==
  ASSUME SInv, NEW t \in Threads, WalkBegin(t) \/ WalkCached(t) \/ WalkCompute(t), ~Fail(t)
  PROVE  CallSettled(Now', call'[t])
<1>1. call[t].pc \in {"begin", "walk"}
  BY DEF WalkBegin, WalkCached, WalkCompute
<1>2. /\ TInv /\ Settled(call[t].before) /\ Restorable(Now, call[t])
      /\ CallFiled(Now, call[t]) /\ CallTidy(Now, call[t])
  BY <1>1 DEF SInv, CallSettled
<1>3. GoesOn(t) /\ CallFiled(Now', call'[t]) /\ CallTidy(Now', call'[t])
  BY <1>2, WalkOn
<1>4. Settled(call'[t].before) /\ Restorable(Now', call'[t]) /\ call'[t].pc = "walk"
  BY <1>2, <1>3 DEF GoesOn, Restorable
<1> QED
  BY <1>3, <1>4 DEF CallSettled

LEMMA CommitSettled ==
  ASSUME SInv, NEW t \in Threads, Commit(t), ~Fail(t)
  PROVE  CallSettled(Now', call'[t])
<1> DEFINE c == call[t]
           p == Pending(Now, c)
<1>0. TInv /\ c.pc = "walk" /\ CallFiled(Now, c) /\ CallTidy(Now, c)
  BY DEF SInv, CallSettled, Commit, Ready
<1>1. Ready(t) /\ UniqueAtEnd(t) /\ Same(p, Now') /\ call'[t].pc = "idle"
  BY <1>0, CommitFacts
<1>2. Held(p) = StepsOf(p) /\ Noted(p) /\ StepsOf(p) = StepSet /\ p.owned = c.owned
  BY <1>0, <1>1, EndFacts, PendingFields
<1>3. DOMAIN p.owned = StepSet /\ Tidy(p)
  BY <1>0, <1>2 DEF CallTidy, Tidy, Held, Noted, Filed, Kept
<1>4. ASSUME NEW s \in StepSet, NEW u \in StepSet, s # u
      PROVE  p.owned[s] \intersect p.owned[u] = {}
  <2> DEFINE w == [v \in StepSet |-> IF v \in DOMAIN c.owned THEN c.owned[v] ELSE {}]
  <2>1. Unique(StepSet, w)
    BY <1>1 DEF UniqueAtEnd
  <2>2. w[s] = p.owned[s] /\ w[u] = p.owned[u]
    BY <1>2, <1>3
  <2> HIDE DEF w
  <2> QED
    BY <1>4, <2>1, <2>2 DEF Unique
<1> HIDE DEF p
<1>5. \A s \in StepSet : Shaped(p, s) /\ Recorded(p, s)
  BY <1>2 DEF Noted
<1>6. \A s \in StepSet \ Imports : DeclaredOf(p, s) = p.owned[s]
  BY <1>5 DEF Recorded, OwnedOf, DeclaredOf
<1>7. Owners(p)
  BY <1>2, <1>4, <1>6 DEF Owners
<1>8. Settled(p)
  BY <1>2, <1>3, <1>7 DEF Settled
<1>9. Settled(Now')
  BY <1>1, <1>8, SettledSame
<1> QED
  BY <1>1, <1>9 DEF CallSettled, CallFiled, CallTidy

LEMMA FailSettled ==
  ASSUME SInv, NEW t \in Threads, call[t].pc \in {"begin", "walk"}, Fail(t)
  PROVE  CallSettled(Now', call'[t]) /\ Same(call[t].before, Now') /\ call'[t].pc = "failed"
<1>1. TInv /\ Settled(call[t].before) /\ Restorable(Now, call[t])
  BY DEF SInv, CallSettled
<1>2. Same(call[t].before, Now')
  BY <1>1, FailRestores
<1>3. Settled(Now')
  BY <1>1, <1>2, SettledSame
<1>4. call'[t].pc = "failed"
  BY <1>1 DEF Fail, TInv
<1> QED
  BY <1>2, <1>3, <1>4 DEF CallSettled, CallFiled, CallTidy

LEMMA WalkSettled ==
  ASSUME SInv, NEW t \in Threads, Walk(t)
  PROVE  CallSettled(Now', call'[t])
<1>1. CASE Fail(t)
  BY <1>1, FailSettled DEF Walk, WalkBegin, WalkCached, WalkCompute, Commit, Ready
<1>2. CASE ~Fail(t)
  BY <1>2, GoesOnSettled, CommitSettled DEF Walk
<1> QED
  BY <1>1, <1>2

LEMMA InitSettled == Init => SInv
<1> SUFFICES ASSUME Init PROVE SInv
  OBVIOUS
<1>1. TInv
  BY InitTypes
<1>2. Now.steps = <<>> /\ Now.results = <<>> /\ Now.owned = <<>> /\ Now.dirtyKeys = <<>>
  BY NowFields DEF Init
<1>3. Len(<<>>) = 0 /\ DOMAIN <<>> = {}
  OBVIOUS
<1>4. StepsOf(Now) = {} /\ Distinct(Now.steps)
  BY <1>2, <1>3 DEF StepsOf, Elements, Distinct
<1>5. Settled(Now)
  BY <1>2, <1>3, <1>4 DEF Settled, Noted, Filed, Kept, Held, Tidy, Owners
<1>6. \A t \in Threads : call[t].pc = "idle"
  BY DEF Init
<1> QED
  BY <1>1, <1>5, <1>6 DEF SInv, CallSettled, CallFiled, CallTidy

\* One step of the one caller.
LEMMA NextSettled == OneCaller /\ SInv /\ [Next]_vars => SInv'
<1> SUFFICES ASSUME OneCaller, SInv, [Next]_vars PROVE SInv'
  OBVIOUS
<1>1. TInv'
  BY NextTypes DEF SInv
<1>2. ASSUME NEW t \in Threads, CallSettled(Now', call'[t]) PROVE SInv'
  BY <1>1, <1>2 DEF SInv, OneCaller
<1>3. CASE UNCHANGED <<pipeline, call>>
  <2>1. Now' = Now /\ call' = call
    BY <1>3 DEF pipeline, Now
  <2> QED
    BY <1>1, <2>1 DEF SInv
<1>4. ASSUME NEW t \in Threads, Walk(t) PROVE SInv'
  BY <1>2, <1>4, WalkSettled
<1>5. ASSUME NEW t \in Threads, NEW d \in Ids \union {NoOne}, Recompute(t, d) PROVE SInv'
  BY <1>2, <1>5, RecomputeSettled
<1>6. ASSUME NEW t \in Threads, NEW x \in Sources, ReplaceSourceDataset(t, x) PROVE SInv'
  BY <1>2, <1>6, ReplaceSettled
<1>7. ASSUME NEW t \in Threads, NEW s \in Ids, Remove(t, s) PROVE SInv'
  BY <1>2, <1>7, RemoveSettled
<1>8. ASSUME NEW t \in Threads, NEW s \in Ids, NEW p \in ParamsOf(s),
             Add(t, s, p) \/ EditParams(t, s, p)
      PROVE  SInv'
  BY <1>2, <1>8, AddSettled, EditSettled
<1>9. ASSUME NEW t \in Threads, NEW s \in Ids, NEW p \in ParamsOf(s), NEW i \in 1..Len(steps),
             InsertAfter(t, i, s, p) \/ InsertAfterAndRecompute(t, i, s, p)
      PROVE  SInv'
  BY <1>2, <1>9, AddSettled, InsertSettled
<1> QED
  BY <1>3, <1>4, <1>5, <1>6, <1>7, <1>8, <1>9 DEF Next, vars, FileChanges

LEMMA SettledAlways ==
  ASSUME OneCaller
  PROVE  Spec => []SInv
<1>1. SInv /\ [Next]_vars => SInv'
  BY NextSettled
<1> QED
  BY InitSettled, <1>1, PTL DEF Spec

\* When one caller at a time uses the engine, no two steps of a pipeline at rest declare
\* the same key (but an import, whose columns only its file tells), and no two computed
\* steps own the same one (OwnersUnique): the checks of add, insert_after and edit_params
\* and those before, during and after the walk leave no gap between them.
THEOREM OwnersStayUnique ==
  ASSUME OneCaller
  PROVE  Spec => []OwnersUnique
<1>1. SInv => OwnersUnique
  <2> SUFFICES ASSUME SInv, AllIdle, NEW s \in StepSet, NEW u \in StepSet, s # u
               PROVE  /\ s \notin Imports /\ u \notin Imports =>
                           Declared(s) \intersect Declared(u) = {}
                      /\ s \in DOMAIN owned /\ u \in DOMAIN owned =>
                           owned[s] \intersect owned[u] = {}
    BY DEF OwnersUnique
  <2>1. TInv /\ Settled(Now)
    BY IdleSettled DEF AllIdle, OneCaller
  <2>2. StepsOf(Now) = StepSet
    BY <2>1, NowOK, StepsOfNow DEF TInv
  <2>3. /\ s \notin Imports /\ u \notin Imports =>
             DeclaredOf(Now, s) \intersect DeclaredOf(Now, u) = {}
        /\ s \in DOMAIN owned /\ u \in DOMAIN owned => owned[s] \intersect owned[u] = {}
    BY <2>1, <2>2, NowFields DEF Settled, Owners
  <2>4. \A v \in StepSet \ Imports : Declared(v) = DeclaredOf(Now, v)
    BY NowFields DEF DeclaredOf, Declared, Owned, Writes, Meta
  <2> QED
    BY <2>3, <2>4
<1> QED
  BY SettledAlways, <1>1, PTL

\* The only caller, once inside, does nothing but walk.
LEMMA BusyWalks ==
  ASSUME [Next]_vars, NEW t \in Threads, \A u \in Threads : u = t, ~Idle(t)
  PROVE  Walk(t) \/ call' = call
<1>1. CASE UNCHANGED vars
  BY <1>1 DEF vars
<1>2. CASE FileChanges
  BY <1>2 DEF FileChanges
<1>3. ASSUME NEW u \in Threads, Walk(u) PROVE Walk(t)
  <2>1. u = t
    OBVIOUS
  <2> QED
    BY <1>3, <2>1
<1>4. ASSUME NEW u \in Threads, NEW d, Recompute(u, d) PROVE FALSE
  BY <1>4 DEF Recompute
<1>5. ASSUME NEW u \in Threads, NEW x, ReplaceSourceDataset(u, x) PROVE FALSE
  BY <1>5 DEF ReplaceSourceDataset
<1>6. ASSUME NEW u \in Threads, NEW s, Remove(u, s) PROVE FALSE
  BY <1>6 DEF Remove
<1>7. ASSUME NEW u \in Threads, NEW s, NEW p, Add(u, s, p) \/ EditParams(u, s, p) PROVE FALSE
  BY <1>7 DEF Add, EditParams
<1>8. ASSUME NEW u \in Threads, NEW s, NEW p, NEW i,
             InsertAfter(u, i, s, p) \/ InsertAfterAndRecompute(u, i, s, p)
      PROVE  FALSE
  BY <1>8 DEF InsertAfter, InsertAfterAndRecompute
<1> QED
  BY <1>1, <1>2, <1>3, <1>4, <1>5, <1>6, <1>7, <1>8 DEF Next

\* A step of a walk that does not raise goes on or returns.
LEMMA GoodWalksGoOn ==
  ASSUME SInv, NEW t \in Threads, Walk(t), ~Fail(t)
  PROVE  call'[t].pc \in {"walk", "idle"}
<1>1. CASE WalkBegin(t)
  BY <1>1, StartedFields DEF WalkBegin, SInv, TInv
<1>2. CASE WalkCached(t)
  BY <1>2 DEF WalkCached, SInv, TInv
<1>3. CASE WalkCompute(t)
  BY <1>3, ComputedFacts DEF SInv, GoesOn
<1>4. CASE Commit(t)
  BY <1>4, CommitFacts DEF SInv
<1> QED
  BY <1>1, <1>2, <1>3, <1>4 DEF Walk

LEMMA SameIsRestored ==
  ASSUME NEW p, NEW q, PipeOK(p), PipeOK(q), Same(p, q)
  PROVE  OfItsSteps(q) = OfItsSteps(p)
<1> DEFINE P == {p.steps[i] : i \in DOMAIN p.steps}
           f == [s \in P |-> p.params[s]]
           g == [s \in P |-> q.params[s]]
<1>1. P = StepsOf(p)
  BY DEF PipeOK, StepsOf, Elements
<1>2. f = g
  BY <1>1 DEF Same
<1>3. OfItsSteps(p) = [p EXCEPT !.params = f]
  BY DEF OfItsSteps
<1>4. OfItsSteps(q) = [q EXCEPT !.params = g]
  BY DEF OfItsSteps, Same
<1> HIDE DEF f, g
<1>5. [p EXCEPT !.params = f] = [q EXCEPT !.params = f]
  BY DEF PipeOK, Same
<1> QED
  BY <1>2, <1>3, <1>4, <1>5

\* A call that raises, wherever it stops, leaves the pipeline as the call found it
\* (FailureRestores): what each method puts back is all that it and its walk have changed.
THEOREM FailuresRestore ==
  ASSUME OneCaller
  PROVE  Spec => FailureRestores
<1>1. SInv /\ [Next]_vars =>
        [\A t \in Threads : ~Idle(t) /\ Idle(t)' /\ call'[t].pc = "failed" =>
           OfItsSteps(Now)' = OfItsSteps(call[t].before)]_vars
  <2> SUFFICES ASSUME SInv, [Next]_vars, NEW t \in Threads,
                      ~Idle(t), call'[t].pc = "failed"
               PROVE  OfItsSteps(Now)' = OfItsSteps(call[t].before)
    OBVIOUS
  <2>1. call[t].pc \in {"begin", "walk"} /\ PipeOK(call[t].before)
    BY DEF SInv, TInv, CallOK, Idle
  <2>2. \A u \in Threads : u = t
    BY DEF OneCaller
  <2>3. Walk(t) /\ Fail(t)
    <3>1. Walk(t)
      BY <2>1, <2>2, BusyWalks
    <3> QED
      BY <3>1, GoodWalksGoOn
  <2>4. Same(call[t].before, Now')
    BY <2>1, <2>3, FailSettled
  <2>5. PipeOK(Now')
    BY NextTypes DEF SInv, TInv
  <2>6. OfItsSteps(Now') = OfItsSteps(call[t].before)
    BY <2>1, <2>4, <2>5, SameIsRestored
  <2> QED
    BY <2>6 DEF OfItsSteps
<1> QED
  BY SettledAlways, <1>1, PTL DEF FailureRestores, Spec

------------------------------------------------------------------------------
(* What the caches of a pipeline say of a key.                               *)

\* The steps whose cached results give k its column, its metadata, an analysis.
AnalysisKeys(p, v) ==
  IF v \in Analyses THEN Def[v][p.params[v]].writes \union Aliases[v] ELSE {}
Cols(p, k) == {v \in DOMAIN p.results : k \in p.results[v].cols}
Vars(p, k) == {v \in DOMAIN p.results : k \in p.results[v].vars}
Ans(p, k)  == {v \in DOMAIN p.results : k \in AnalysisKeys(p, v)}

LastOne(p, S, v) == v \in S /\ \A w \in S : w = v \/ Comes(p.steps, w, v)
From(p, S, t) ==
  \/ S = {} /\ t = Given(p.source)
  \/ \E v \in S : LastOne(p, S, v) /\ t = p.results[v].term

\* The value of k when the steps B have run.
IsColumn(p, B, k) == k \in Columns[p.source] \/ B \intersect Cols(p, k) # {}
Value(p, B, k, v) ==
  \/ /\ IsColumn(p, B, k)
     /\ v = [col |-> v.col, meta |-> v.meta]
     /\ From(p, B \intersect Cols(p, k), v.col)
     /\ From(p, B \intersect Vars(p, k), v.meta)
  \/ /\ ~IsColumn(p, B, k)
     /\ \E a \in B \intersect Ans(p, k) :
          LastOne(p, B \intersect Ans(p, k), a) /\ v = Whole(p.results[a].term)

\* ds and an are the dataset and the analyses when the steps B have run.
DataIs(p, B, ds) ==
  /\ ds = [k \in DOMAIN ds |-> ds[k]]
  /\ \A k : k \in DOMAIN ds <=> IsColumn(p, B, k)
  /\ \A k \in DOMAIN ds : Value(p, B, k, ds[k])
AnalysesAre(p, B, an) ==
  /\ an = [k \in DOMAIN an |-> an[k]]
  /\ \A k : k \in DOMAIN an <=> B \intersect Ans(p, k) # {}
  /\ \A k \in DOMAIN an : From(p, B \intersect Ans(p, k), an[k])

\* The result of s was computed from what the steps before s give.
Before(p, s) == {w \in DOMAIN p.results : Comes(p.steps, w, s)}
Valued(p, s) == \A k \in Needs(p, s) : Value(p, Before(p, s), k, p.results[s].term.of[k])

------------------------------------------------------------------------------
(* The inductive invariant.                                                  *)

\* The step u, not computed yet, matters to no computed step s.
Harmless(p, u, s) ==
  Comes(p.steps, u, s) => u \notin Imports /\ Needs(p, s) \intersect StaticOf(p, u) = {}

\* Between two calls.
Sourced(p) ==
  /\ \A s \in Held(p) : Valued(p, s)
  /\ \A s \in Held(p), u \in StepsOf(p) \ DOMAIN p.results : Harmless(p, u, s)
  /\ DataIs(p, Held(p), p.current)
  /\ AnalysesAre(p, Held(p), p.analyses)

\* Before a walk from the step d with the dirty keys keys: the keys under which d may
\* make a difference, and what holds of the others.
Touched(p, d, keys) ==
  keys \union (IF d \in DOMAIN p.dirtyKeys THEN p.dirtyKeys[d] ELSE {})
    \union (IF d \in Imports THEN {} ELSE StaticOf(p, d))
BeginSourced(p, d, keys) ==
  d # NoOne =>
    \A s \in Held(p) \ {d} :
      /\ \A k \in Needs(p, s) \ Touched(p, d, keys) :
           Value(p, Before(p, s), k, p.results[s].term.of[k])
      /\ \A u \in StepsOf(p) \ (DOMAIN p.results \union {d}) : Harmless(p, u, s)

\* A step that is still to be computed gives nothing that a clean one behind it needs:
\* neither now nor when it has been computed again.
Apart(p, u, s) ==
  /\ u \notin Imports => Needs(p, s) \intersect StaticOf(p, u) = {}
  /\ u \in Imports => \A f \in Files \ {Gone} :
       Needs(p, s) \intersect Columns[p.source] \intersect Columns[f] = {}
  /\ u \in DOMAIN p.results =>
       Needs(p, s) \intersect (p.results[u].cols \union p.results[u].vars) = {}

\* During the walk over p, which computes the steps D and the ones without a result.
WalkSourced(p, D, todo) ==
  LET B == Done(p, todo)
  IN  /\ \A s \in Held(p) : s \in B \/ s \notin D => Valued(p, s)
      /\ DataIs(p, B, p.current)
      /\ AnalysesAre(p, B, p.analyses)
      /\ \A s \in Held(p) \ (D \union B), u \in StepsOf(p) \ B :
           Comes(p.steps, u, s) /\ (u \in D \/ u \notin DOMAIN p.results) => Apart(p, u, s)

\* What a busy call keeps of the values, whatever other callers do between two calls.
CallValued(p, c) ==
  /\ c.pc = "begin" => BeginSourced(p, c.dirty, c.keys)
  /\ c.pc = "walk" => WalkSourced(Pending(p, c), c.dirty, c.todo)

CallSourced(p, c) ==
  /\ c.pc \in {"idle", "failed"} => Sourced(p)
  /\ c.pc \in {"begin", "walk"} => Sourced(c.before)
  /\ CallValued(p, c)

CInv == SInv /\ \A t \in Threads : CallSourced(Now, call[t])

\* No step needs an analysis by the analysis step's id: the dirty search follows the keys
\* that a step declares, not the names that its result is filed under as well.
NoAliasIsNeeded ==
  \A s \in Ids, a \in Analyses : \A p \in ParamsOf(s), q \in ParamsOf(a) :
    Def[s][p].needs \intersect Aliases[a] \subseteq Def[a][q].writes

------------------------------------------------------------------------------
(* Two pipelines that agree on the steps B.                                  *)

Alike(p, q, B) ==
  /\ q.source = p.source
  /\ B \subseteq DOMAIN p.results /\ B \subseteq DOMAIN q.results
  /\ \A w \in B : q.results[w] = p.results[w] /\ q.params[w] = p.params[w]
  /\ \A v, w \in B : Comes(q.steps, v, w) <=> Comes(p.steps, v, w)

LEMMA SameFrom ==
  ASSUME NEW p, NEW q, NEW S, q.source = p.source, \A w \in S : q.results[w] = p.results[w],
         \A v, w \in S : Comes(q.steps, v, w) <=> Comes(p.steps, v, w), NEW t
  PROVE  From(q, S, t) <=> From(p, S, t)
BY DEF From, LastOne

\* What k is depends on the steps that give it alone.
LEMMA SameValue ==
  ASSUME NEW p, NEW q, NEW B, NEW C, NEW k, NEW v, q.source = p.source,
         C \intersect Cols(q, k) = B \intersect Cols(p, k),
         C \intersect Vars(q, k) = B \intersect Vars(p, k),
         C \intersect Ans(q, k) = B \intersect Ans(p, k),
         \A w \in B : w \in Cols(p, k) \union Vars(p, k) \union Ans(p, k) =>
           q.results[w] = p.results[w],
         \A u, w \in B : Comes(q.steps, u, w) <=> Comes(p.steps, u, w)
  PROVE  Value(q, C, k, v) <=> Value(p, B, k, v)
<1> DEFINE X == B \intersect Cols(p, k)
           Y == B \intersect Vars(p, k)
           Z == B \intersect Ans(p, k)
<1>1. From(q, X, v.col) <=> From(p, X, v.col)
  BY SameFrom
<1>2. From(q, Y, v.meta) <=> From(p, Y, v.meta)
  BY SameFrom
<1>3. \A a \in Z : /\ LastOne(q, Z, a) <=> LastOne(p, Z, a)
                   /\ q.results[a] = p.results[a]
  BY DEF LastOne
<1> HIDE DEF X, Y, Z
<1>4. IsColumn(q, C, k) <=> IsColumn(p, B, k)
  BY DEF IsColumn
<1>5. Value(p, B, k, v) <=>
        \/ /\ IsColumn(p, B, k) /\ v = [col |-> v.col, meta |-> v.meta]
           /\ From(p, X, v.col) /\ From(p, Y, v.meta)
        \/ ~IsColumn(p, B, k) /\ \E a \in Z : LastOne(p, Z, a) /\ v = Whole(p.results[a].term)
  BY DEF Value, X, Y, Z
<1>6. Value(q, C, k, v) <=>
        \/ /\ IsColumn(q, C, k) /\ v = [col |-> v.col, meta |-> v.meta]
           /\ From(q, X, v.col) /\ From(q, Y, v.meta)
        \/ ~IsColumn(q, C, k) /\ \E a \in Z : LastOne(q, Z, a) /\ v = Whole(q.results[a].term)
  BY DEF Value, X, Y, Z
<1> QED
  BY <1>1, <1>2, <1>3, <1>4, <1>5, <1>6

LEMMA AlikeGives ==
  ASSUME NEW p, NEW q, NEW B, Alike(p, q, B), NEW k
  PROVE  /\ B \intersect Cols(q, k) = B \intersect Cols(p, k)
         /\ B \intersect Vars(q, k) = B \intersect Vars(p, k)
         /\ B \intersect Ans(q, k) = B \intersect Ans(p, k)
         /\ IsColumn(q, B, k) <=> IsColumn(p, B, k)
<1>1. B \intersect Cols(q, k) = B \intersect Cols(p, k)
  BY DEF Alike, Cols
<1>2. B \intersect Vars(q, k) = B \intersect Vars(p, k)
  BY DEF Alike, Vars
<1>3. \A w \in B : AnalysisKeys(q, w) = AnalysisKeys(p, w)
  BY DEF Alike, AnalysisKeys
<1>4. B \intersect Ans(q, k) = B \intersect Ans(p, k)
  BY <1>3 DEF Alike, Ans
<1>5. IsColumn(q, B, k) <=> IsColumn(p, B, k)
  BY <1>1 DEF Alike, IsColumn
<1> QED
  BY <1>1, <1>2, <1>4, <1>5

LEMMA AlikeValue ==
  ASSUME NEW p, NEW q, NEW B, Alike(p, q, B), NEW k, NEW v
  PROVE  Value(q, B, k, v) <=> Value(p, B, k, v)
<1>1. /\ B \intersect Cols(q, k) = B \intersect Cols(p, k)
      /\ B \intersect Vars(q, k) = B \intersect Vars(p, k)
      /\ B \intersect Ans(q, k) = B \intersect Ans(p, k)
  BY AlikeGives
<1> QED
  BY <1>1, SameValue DEF Alike

LEMMA AlikeData ==
  ASSUME NEW p, NEW q, NEW B, Alike(p, q, B), NEW ds, NEW an
  PROVE  /\ DataIs(p, B, ds) => DataIs(q, B, ds)
         /\ AnalysesAre(p, B, an) => AnalysesAre(q, B, an)
<1>1. \A k : IsColumn(q, B, k) <=> IsColumn(p, B, k)
  BY AlikeGives
<1>2. \A k : B \intersect Ans(q, k) = B \intersect Ans(p, k)
  BY AlikeGives
<1>3. \A k : Value(q, B, k, ds[k]) <=> Value(p, B, k, ds[k])
  BY AlikeValue
<1>4. DataIs(p, B, ds) => DataIs(q, B, ds)
  BY <1>1, <1>3 DEF DataIs
<1>5. \A k : From(q, B \intersect Ans(p, k), an[k]) <=> From(p, B \intersect Ans(p, k), an[k])
  BY SameFrom DEF Alike
<1>6. AnalysesAre(p, B, an) => AnalysesAre(q, B, an)
  BY <1>2, <1>5 DEF AnalysesAre
<1> QED
  BY <1>4, <1>6

------------------------------------------------------------------------------
(* One more step.                                                            *)

\* The step s runs after the steps B.
LEMMA ExtendData ==
  ASSUME NEW q, NEW B, NEW s, B \union {s} \subseteq DOMAIN q.results, s \notin B,
         \A w \in B : Comes(q.steps, w, s),
         NEW r, r = q.results[s], r.cols \subseteq r.vars,
         NEW ds, DataIs(q, B, ds), r.vars \ r.cols \subseteq DOMAIN ds
  PROVE  DataIs(q, B \union {s}, WithUpdates(ds, r))
<1> DEFINE C == B \union {s}
           ns == WithUpdates(ds, r)
<1>1. /\ DOMAIN ns = DOMAIN ds \union r.vars
      /\ ns = [k \in DOMAIN ns |-> ns[k]]
      /\ \A k \in DOMAIN ns :
           /\ ns[k].col = IF k \in r.cols THEN r.term ELSE ds[k].col
           /\ ns[k].meta = IF k \in r.vars THEN r.term ELSE ds[k].meta
           /\ ns[k] = [col |-> ns[k].col, meta |-> ns[k].meta]
  BY DEF WithUpdates
<1> HIDE DEF ns
<1>2. \A k : k \in DOMAIN ds <=> IsColumn(q, B, k)
  BY DEF DataIs
<1>3. \A k : C \intersect Cols(q, k)
               = (B \intersect Cols(q, k)) \union (IF k \in r.cols THEN {s} ELSE {})
  BY DEF Cols
<1>4. \A k : C \intersect Vars(q, k)
               = (B \intersect Vars(q, k)) \union (IF k \in r.vars THEN {s} ELSE {})
  BY DEF Vars
<1> HIDE DEF C
<1>5. \A k : IsColumn(q, C, k) <=> IsColumn(q, B, k) \/ k \in r.cols
  BY <1>3 DEF IsColumn
<1>6. ASSUME NEW S \in SUBSET B PROVE From(q, S \union {s}, r.term)
  BY DEF From, LastOne
<1>7. ASSUME NEW k \in DOMAIN ns PROVE Value(q, C, k, ns[k])
  <2>1. IsColumn(q, C, k)
    BY <1>1, <1>2, <1>5
  <2>2. From(q, C \intersect Cols(q, k), ns[k].col)
    <3>1. CASE k \in r.cols
      <4>1. From(q, (B \intersect Cols(q, k)) \union {s}, r.term)
        BY <1>6
      <4> QED
        BY <1>1, <1>3, <3>1, <4>1
    <3>2. CASE k \notin r.cols
      <4>1. k \in DOMAIN ds
        BY <1>1, <3>2
      <4>2. From(q, B \intersect Cols(q, k), ds[k].col)
        BY <1>2, <4>1 DEF DataIs, Value
      <4> QED
        BY <1>1, <1>3, <3>2, <4>1, <4>2
    <3> QED
      BY <3>1, <3>2
  <2>3. From(q, C \intersect Vars(q, k), ns[k].meta)
    <3>1. CASE k \in r.vars
      <4>1. From(q, (B \intersect Vars(q, k)) \union {s}, r.term)
        BY <1>6
      <4> QED
        BY <1>1, <1>4, <3>1, <4>1
    <3>2. CASE k \notin r.vars
      <4>1. k \in DOMAIN ds
        BY <1>1, <3>2
      <4>2. From(q, B \intersect Vars(q, k), ds[k].meta)
        BY <1>2, <4>1 DEF DataIs, Value
      <4> QED
        BY <1>1, <1>4, <3>2, <4>1, <4>2
    <3> QED
      BY <3>1, <3>2
  <2>4. ns[k] = [col |-> ns[k].col, meta |-> ns[k].meta]
    BY <1>1
  <2> QED
    BY <2>1, <2>2, <2>3, <2>4 DEF Value
<1>8. DataIs(q, C, ns)
  BY <1>1, <1>2, <1>5, <1>7 DEF DataIs
<1> QED
  BY <1>8 DEF C, ns

LEMMA ExtendAnalyses ==
  ASSUME NEW q, NEW B, NEW s, B \union {s} \subseteq DOMAIN q.results, s \notin B,
         \A w \in B : Comes(q.steps, w, s), q.params = params,
         NEW r, r = q.results[s],
         NEW an, AnalysesAre(q, B, an)
  PROVE  AnalysesAre(q, B \union {s}, WithAnalysis(an, s, r))
<1> DEFINE C == B \union {s}
           na == WithAnalysis(an, s, r)
           K == AnalysisKeys(q, s)
<1>1. /\ DOMAIN na = DOMAIN an \union K
      /\ \A k \in DOMAIN an \union K : na[k] = IF k \in K THEN r.term ELSE an[k]
      /\ na = [k \in DOMAIN na |-> na[k]]
  BY StepsAssumption DEF WithAnalysis, AnalysisKeys, Writes
<1>2. \A k : k \in DOMAIN an <=> B \intersect Ans(q, k) # {}
  BY DEF AnalysesAre
<1>3. \A k : C \intersect Ans(q, k)
               = (B \intersect Ans(q, k)) \union (IF k \in K THEN {s} ELSE {})
  BY DEF Ans
<1> HIDE DEF na, K, C
<1>4. ASSUME NEW S \in SUBSET B PROVE From(q, S \union {s}, r.term)
  BY DEF From, LastOne
<1>5. ASSUME NEW k \in DOMAIN na PROVE From(q, C \intersect Ans(q, k), na[k])
  <2>1. CASE k \in K
    <3>1. From(q, (B \intersect Ans(q, k)) \union {s}, r.term)
      BY <1>4
    <3> QED
      BY <1>1, <1>3, <2>1, <3>1
  <2>2. CASE k \notin K
    <3>1. k \in DOMAIN an
      BY <1>1, <2>2
    <3>2. From(q, B \intersect Ans(q, k), an[k])
      BY <3>1 DEF AnalysesAre
    <3> QED
      BY <1>1, <1>3, <2>2, <3>1, <3>2
  <2> QED
    BY <2>1, <2>2
<1>6. \A k : k \in DOMAIN na <=> C \intersect Ans(q, k) # {}
  BY <1>1, <1>2, <1>3
<1>7. AnalysesAre(q, C, na)
  BY <1>1, <1>5, <1>6 DEF AnalysesAre
<1> QED
  BY <1>7 DEF C, na

\* Before anything has run there is the source dataset.
LEMMA NothingRun ==
  ASSUME NEW p, p.source = source
  PROVE  DataIs(p, {}, SourceData) /\ AnalysesAre(p, {}, <<>>)
<1>1. \A k : IsColumn(p, {}, k) <=> k \in Columns[source]
  BY DEF IsColumn
<1>2. From(p, {}, Given(source))
  BY DEF From
<1>3. /\ DOMAIN SourceData = Columns[source]
      /\ SourceData = [k \in DOMAIN SourceData |-> SourceData[k]]
  BY DEF SourceData
<1>4. \A k \in Columns[source] : SourceData[k] = [col |-> Given(source), meta |-> Given(source)]
  BY DEF SourceData, Whole
<1>5. \A k \in Columns[source] : Value(p, {}, k, SourceData[k])
  <2> TAKE k \in Columns[source]
  <2>1. {} \intersect Cols(p, k) = {} /\ {} \intersect Vars(p, k) = {}
    OBVIOUS
  <2> QED
    BY <1>1, <1>2, <1>4, <2>1 DEF Value
<1>6. DataIs(p, {}, SourceData)
  BY <1>1, <1>3, <1>5 DEF DataIs
<1>7. DOMAIN <<>> = {} /\ <<>> = [k \in {} |-> <<>>[k]]
  OBVIOUS
<1>8. AnalysesAre(p, {}, <<>>)
  BY <1>7 DEF AnalysesAre
<1> QED
  BY <1>6, <1>8

\* The first n steps are those that come before the next one.
LEMMA FirstComeBefore ==
  ASSUME NEW L, Len(L) \in Nat, Distinct(L), NEW n \in Nat, n + 1 \in 1..Len(L)
  PROVE  LET s == L[n + 1]
         IN  /\ s \notin FirstOf(L, n) /\ FirstOf(L, n) \subseteq Elements(L)
             /\ \A w : w \in FirstOf(L, n) <=> Comes(L, w, s)
             /\ \A w \in FirstOf(L, n) : ~Comes(L, s, w)
             /\ \A w \in Elements(L) : w = s \/ w \in FirstOf(L, n) \/ Comes(L, s, w)
<1> DEFINE s == L[n + 1]
           m == Len(L)
<1>1. \A i \in 1..n : i \in 1..m /\ i < n + 1
  OBVIOUS
<1>2. \A i \in 1..m : i \in 1..n \/ i = n + 1 \/ n + 1 < i
  OBVIOUS
<1>3. \A i \in 1..m : L[i] = s => i = n + 1
  BY DEF Distinct
<1>4. s \notin FirstOf(L, n) /\ FirstOf(L, n) \subseteq Elements(L)
  BY <1>1, <1>3 DEF FirstOf, Elements
<1>5. ASSUME NEW w PROVE w \in FirstOf(L, n) <=> Comes(L, w, s)
  <2>1. ASSUME w \in FirstOf(L, n) PROVE Comes(L, w, s)
    BY <1>1, <2>1 DEF FirstOf, Comes
  <2>2. ASSUME Comes(L, w, s) PROVE w \in FirstOf(L, n)
    <3>1. PICK i \in 1..m, j \in 1..m : i < j /\ L[i] = w /\ L[j] = s
      BY <2>2 DEF Comes
    <3>2. j = n + 1
      BY <1>3, <3>1
    <3>3. i \in 1..n
      BY <3>1, <3>2
    <3> QED
      BY <3>1, <3>3 DEF FirstOf
  <2> QED
    BY <2>1, <2>2
<1>6. ASSUME NEW w \in FirstOf(L, n), Comes(L, s, w) PROVE FALSE
  <2>1. PICK i \in 1..m, j \in 1..m : i < j /\ L[i] = s /\ L[j] = w
    BY <1>6 DEF Comes
  <2>2. PICK k \in 1..n : L[k] = w
    BY DEF FirstOf
  <2>3. i = n + 1 /\ j = k
    BY <1>1, <1>3, <2>1, <2>2 DEF Distinct
  <2> QED
    BY <2>1, <2>2, <2>3
<1>7. ASSUME NEW w \in Elements(L), w # s, w \notin FirstOf(L, n) PROVE Comes(L, s, w)
  <2>1. PICK i \in 1..m : L[i] = w
    BY DEF Elements
  <2>2. n + 1 < i
    BY <1>2, <1>7, <2>1 DEF FirstOf
  <2> QED
    BY <2>1, <2>2 DEF Comes
<1> QED
  BY <1>4, <1>5, <1>6, <1>7

------------------------------------------------------------------------------
(* Calls that change the list of steps, the parameters or the source.        *)

LEMMA ComesIn ==
  ASSUME NEW L, NEW v, NEW w, Comes(L, v, w)
  PROVE  v \in Elements(L) /\ w \in Elements(L)
BY DEF Comes, Elements

LEMMA BeforeIn ==
  ASSUME NEW p, NEW s
  PROVE  /\ Before(p, s) \subseteq Held(p) /\ (Before(p, s) # {} => s \in StepsOf(p))
         /\ \A w : w \in Before(p, s) <=> w \in Held(p) /\ Comes(p.steps, w, s)
BY ComesIn DEF Before, Held, StepsOf

LEMMA AlikeValued ==
  ASSUME NEW p, NEW q, NEW s, Alike(p, q, Before(p, s)), Before(q, s) = Before(p, s),
         q.results[s] = p.results[s], q.params[s] = p.params[s]
  PROVE  Valued(q, s) <=> Valued(p, s)
<1>1. Needs(q, s) = Needs(p, s)
  BY DEF Needs
<1>2. \A k, v : Value(q, Before(p, s), k, v) <=> Value(p, Before(p, s), k, v)
  BY AlikeValue
<1> QED
  BY <1>1, <1>2 DEF Valued

\* What a key is when some steps have run, it has from one of them or from the source.
LEMMA Provided ==
  ASSUME NEW p, NEW B, NEW k, NEW v, Value(p, B, k, v), k \notin Columns[p.source]
  PROVE  \E w \in B : w \in Cols(p, k) \/ w \in Ans(p, k)
BY DEF Value, IsColumn

\* A step of p gives what it declares, or what the file had.
LEMMA GivenKeys ==
  ASSUME NEW p, NEW w, Shaped(p, w), NEW k
  PROVE  /\ w \in Cols(p, k) => \/ w \notin Imports /\ k \in Def[w][p.params[w]].writes
                                \/ w \in Imports /\ \E f \in Files \ {Gone} : k \in Columns[f]
         /\ w \in Ans(p, k) => w \in Analyses /\ k \in Def[w][p.params[w]].writes \union Aliases[w]
<1>1. ASSUME w \in Cols(p, k)
      PROVE  \/ w \notin Imports /\ k \in Def[w][p.params[w]].writes
             \/ w \in Imports /\ \E f \in Files \ {Gone} : k \in Columns[f]
  BY <1>1 DEF Cols, Shaped
<1>2. ASSUME w \in Ans(p, k)
      PROVE  w \in Analyses /\ k \in Def[w][p.params[w]].writes \union Aliases[w]
  BY <1>2 DEF Ans, AnalysisKeys
<1> QED
  BY <1>1, <1>2

\* A step x that is new makes no difference to what is computed.
LEMMA GrowSourced ==
  ASSUME NEW p, NEW q, Sourced(p), NEW x, x \notin StepsOf(p),
         q.source = p.source, q.results = p.results,
         q.current = p.current, q.analyses = p.analyses,
         StepsOf(q) = StepsOf(p) \union {x},
         \A u \in StepsOf(p) : q.params[u] = p.params[u],
         \A a, b \in StepsOf(p) : Comes(q.steps, a, b) <=> Comes(p.steps, a, b)
  PROVE  /\ x \notin DOMAIN p.results =>
              /\ \A s \in Held(q) : Valued(q, s)
              /\ DataIs(q, Held(q), q.current) /\ AnalysesAre(q, Held(q), q.analyses)
         /\ \A s \in Held(q) \ {x} : ~Comes(q.steps, x, s) => Valued(q, s)
         /\ \A s \in Held(q) \ {x}, u \in StepsOf(q) \ (DOMAIN q.results \union {x}) :
              Harmless(q, u, s)
<1>1. \A L, v, w : Comes(L, v, w) => v \in Elements(L) /\ w \in Elements(L)
  BY ComesIn
<1>2. Held(q) \ {x} = Held(p) /\ (x \notin DOMAIN p.results => Held(q) = Held(p))
  BY DEF Held
<1>3. Alike(p, q, Held(p))
  BY DEF Alike, Held
<1>4. DataIs(q, Held(p), q.current) /\ AnalysesAre(q, Held(p), q.analyses)
  BY <1>3, AlikeData DEF Sourced
<1>5. ASSUME NEW s \in Held(p), x \notin DOMAIN p.results \/ ~Comes(q.steps, x, s)
      PROVE  Valued(q, s)
  <2>1. Before(q, s) = Before(p, s) /\ Before(p, s) \subseteq Held(p)
    <3>1. \A w : Comes(p.steps, w, s) => w \in StepsOf(p)
      BY <1>1 DEF StepsOf
    <3>2. \A w : Comes(q.steps, w, s) => w \in StepsOf(p) \union {x}
      BY <1>1 DEF StepsOf
    <3>3. s \in StepsOf(p)
      BY DEF Held
    <3> QED
      BY <1>5, <3>1, <3>2, <3>3 DEF Before, Held
  <2>2. Alike(p, q, Before(p, s))
    BY <1>3, <2>1 DEF Alike
  <2>3. q.results[s] = p.results[s] /\ q.params[s] = p.params[s]
    BY DEF Held
  <2>4. Valued(q, s) <=> Valued(p, s)
    BY <2>1, <2>2, <2>3, AlikeValued
  <2> QED
    BY <2>4 DEF Sourced
<1>6. ASSUME NEW s \in Held(p), NEW u \in StepsOf(p) \ DOMAIN p.results
      PROVE  Harmless(q, u, s)
  <2>1. Harmless(p, u, s) /\ s \in StepsOf(p)
    BY DEF Sourced, Held
  <2>2. Needs(q, s) = Needs(p, s) /\ StaticOf(q, u) = StaticOf(p, u)
    BY <2>1 DEF Needs, StaticOf
  <2> QED
    BY <2>1, <2>2 DEF Harmless
<1> QED
  BY <1>2, <1>4, <1>5, <1>6

\* What insert_after may insert matters to nothing that is computed.
LEMMA InsertedIsHarmless ==
  ASSUME NoAliasIsNeeded, NEW p, PipeOK(p), Noted(p), Sourced(p), NEW x \in Inserted, NEW y,
         y \in ParamsOf(x), x \notin StepsOf(p), NEW s \in Held(p),
         NEW k \in Needs(p, s)
  PROVE  k \notin Def[x][y].writes \union Def[x][y].meta
<1> SUFFICES ASSUME k \in Def[x][y].writes \union Def[x][y].meta PROVE FALSE
  OBVIOUS
<1>1. s \in Ids /\ p.params[s] \in ParamsOf(s) /\ s # x /\ x \in Ids
  BY StepsAssumption DEF Held, PipeOK, ResultsOK
<1>2. k \in Def[s][p.params[s]].needs
  BY DEF Needs
<1>3. /\ \A z \in Sources \union Files : k \notin Columns[z]
      /\ \A u \in Ids \ {x} : \A q \in ParamsOf(u) : k \notin Def[u][q].writes
  BY <1>1, <1>2, OriginsAssumption
<1>4. k \notin Columns[p.source]
  BY <1>3 DEF PipeOK
<1>5. PICK w \in Before(p, s) : w \in Cols(p, k) \/ w \in Ans(p, k)
  BY <1>4, Provided DEF Sourced, Valued
<1>6. /\ w \in DOMAIN p.results /\ w \in Ids /\ w # x
      /\ p.params[w] \in ParamsOf(w) /\ Shaped(p, w)
  <2>1. w \in Held(p)
    BY BeforeIn
  <2> QED
    BY <2>1 DEF Held, Noted, PipeOK, ResultsOK
<1>7. k \notin Def[w][p.params[w]].writes
  BY <1>3, <1>6
<1>8. w \notin Cols(p, k)
  BY <1>3, <1>6, <1>7, GivenKeys
<1>9. w \in Analyses /\ k \in Aliases[w]
  BY <1>5, <1>6, <1>7, <1>8, GivenKeys
<1> QED
  BY <1>1, <1>2, <1>6, <1>7, <1>9 DEF NoAliasIsNeeded

LEMMA CalledIdle ==
  ASSUME CInv, NEW t \in Threads, Idle(t)
  PROVE  SInv /\ TInv /\ PipeOK(Now) /\ Settled(Now) /\ Sourced(Now)
BY IdleSettled DEF CInv, CallSourced, Idle, TInv

LEMMA AddSourced ==
  ASSUME NoAliasIsNeeded, CInv, NEW t \in Threads, NEW s \in Ids, NEW p \in ParamsOf(s),
         \/ Add(t, s, p)
         \/ \E i \in 1..Len(steps) : InsertAfter(t, i, s, p)
  PROVE  CallSourced(Now', call'[t])
<1>1. Idle(t) /\ MayAdd(StepSet, s, p) /\ params' = [params EXCEPT ![s] = p]
      /\ UNCHANGED <<source, results, owned, dirtyKeys, current, analyses, call>>
  BY DEF Add, InsertAfter
<1>2. SInv /\ TInv /\ PipeOK(Now) /\ Settled(Now) /\ Sourced(Now)
  BY <1>1, CalledIdle
<1>3. \/ steps' = Append(steps, s)
      \/ s \in Inserted /\ \E i \in 1..Len(steps) : steps' = InsertAt(i, s)
  BY DEF Add, InsertAfter
<1>4. /\ s \notin StepSet /\ s \notin DOMAIN results
      /\ StepsOf(Now') = StepSet \union {s}
      /\ \A u \in StepSet : params'[u] = params[u]
      /\ \A a, b \in StepSet : Comes(steps', a, b) <=> Comes(steps, a, b)
  BY <1>1, <1>2, <1>3, GrownNow
<1>5. StepsOf(Now) = StepSet
  BY <1>2, NowOK, StepsOfNow
<1> DEFINE q == Now'
<1>6. /\ q.source = source /\ q.steps = steps' /\ q.params = params' /\ q.results = results
      /\ q.current = current /\ q.analyses = analyses
  BY <1>1, NowFieldsNext
<1>7. Noted(Now) /\ Filed(Now)
  BY <1>2 DEF Settled, Noted
<1> HIDE DEF q
<1>8. /\ \A v \in Held(q) : Valued(q, v)
      /\ \A v \in Held(q) \ {s}, u \in StepsOf(q) \ (DOMAIN q.results \union {s}) :
           Harmless(q, u, v)
      /\ DataIs(q, Held(q), q.current) /\ AnalysesAre(q, Held(q), q.analyses)
  BY <1>2, <1>4, <1>5, <1>6, NowFields, GrowSourced DEF q
<1>9. ASSUME NEW v \in Held(q) PROVE Harmless(q, s, v) /\ v # s
  <2>1. v \in StepSet /\ v # s /\ v \in DOMAIN results
    BY <1>4, <1>6 DEF Held, q
  <2>2. CASE steps' = Append(steps, s)
    <3>1. steps \in Seq(Ids) /\ Distinct(steps) /\ s \notin Elements(steps)
      BY <1>2, <1>4, <1>7, NowOK, NowFields, StepsOfNow DEF Filed
    <3>2. ~Comes(steps', s, v)
      BY <2>2, <3>1, AppendList
    <3> QED
      BY <1>6, <2>1, <3>2 DEF Harmless
  <2>3. CASE s \in Inserted
    <3>1. s \notin Imports
      BY <2>3, OriginsAssumption
    <3>2. params'[s] = p
      BY <1>1, <1>2, NowOK
    <3>3. v \in Held(Now)
      BY <1>5, <2>1, NowFields DEF Held
    <3>4. \A k \in Needs(Now, v) : k \notin Def[s][p].writes \union Def[s][p].meta
      BY <1>2, <1>4, <1>5, <1>7, <2>3, <3>3, InsertedIsHarmless
    <3>5. Needs(q, v) = Needs(Now, v)
      BY <1>4, <1>6, <2>1, NowFields DEF Needs
    <3>6. StaticOf(q, s) = Def[s][p].writes \union Def[s][p].meta
      BY <1>6, <3>2 DEF StaticOf
    <3> QED
      BY <2>1, <3>1, <3>4, <3>5, <3>6 DEF Harmless
  <2> QED
    BY <1>3, <2>2, <2>3
<1>10. Sourced(q)
  BY <1>6, <1>8, <1>9 DEF Sourced
<1>11. call'[t] = call[t] /\ call[t].pc \in {"idle", "failed"}
  BY <1>1 DEF Idle
<1> QED
  BY <1>10, <1>11 DEF CallSourced, CallValued, q

\* A call that has begun to recompute.
LEMMA BegunSourced ==
  ASSUME TInv, NEW t \in Threads, NEW d, NEW keys, NEW restores, NEW next,
         Begin(t, d, keys, restores, next), Sourced(Now), BeginSourced(Now', d, keys)
  PROVE  CallSourced(Now', call'[t])
<1>1. call'[t] = [pc |-> "begin", dirty |-> d, keys |-> keys, restores |-> restores,
                  next |-> next, before |-> Now]
  BY BeginTypes
<1>2. /\ call'[t].pc = "begin" /\ call'[t].dirty = d /\ call'[t].keys = keys
      /\ call'[t].before = Now
  BY <1>1
<1> QED
  BY <1>2 DEF CallSourced, CallValued

LEMMA SourcedBegins ==
  ASSUME NEW p, Sourced(p), NEW d, NEW keys
  PROVE  BeginSourced(p, d, keys)
BY DEF BeginSourced, Sourced, Valued, Held

LEMMA RecomputeSourced ==
  ASSUME CInv, NEW t \in Threads, NEW d, Recompute(t, d)
  PROVE  CallSourced(Now', call'[t])
<1>1. TInv /\ Settled(Now) /\ Sourced(Now)
  BY CalledIdle DEF Recompute
<1>2. Now' = Now
  BY DEF Recompute, pipeline, Now
<1>3. BeginSourced(Now', d, {})
  BY <1>1, <1>2, SourcedBegins
<1> QED
  BY <1>1, <1>3, BegunSourced DEF Recompute

\* Everything will be computed again.
LEMMA ReplaceRemoveSourced ==
  ASSUME CInv, NEW t \in Threads, NEW s,
         ReplaceSourceDataset(t, s) \/ Remove(t, s)
  PROVE  CallSourced(Now', call'[t])
<1>1. TInv /\ Sourced(Now)
  BY CalledIdle DEF ReplaceSourceDataset, Remove
<1>2. BeginSourced(Now', NoOne, {})
  BY DEF BeginSourced
<1> QED
  BY <1>1, <1>2, BegunSourced DEF ReplaceSourceDataset, Remove

LEMMA InsertSourced ==
  ASSUME CInv, NEW t \in Threads, NEW s \in Ids, NEW p \in ParamsOf(s), NEW i \in 1..Len(steps),
         InsertAfterAndRecompute(t, i, s, p)
  PROVE  CallSourced(Now', call'[t])
<1>1. TInv /\ PipeOK(Now) /\ Settled(Now) /\ Sourced(Now)
  BY CalledIdle DEF InsertAfterAndRecompute
<1>2. /\ MayAdd(StepSet, s, p) /\ params' = [params EXCEPT ![s] = p]
      /\ steps' = InsertAt(i, s)
      /\ UNCHANGED <<source, results, owned, dirtyKeys, current, analyses>>
      /\ Begin(t, s, {}, Snapshot, "return")
  BY DEF InsertAfterAndRecompute
<1>3. /\ s \notin StepSet /\ s \notin DOMAIN results
      /\ StepsOf(Now') = StepSet \union {s}
      /\ \A u \in StepSet : params'[u] = params[u]
      /\ \A a, b \in StepSet : Comes(steps', a, b) <=> Comes(steps, a, b)
  BY <1>1, <1>2, GrownNow
<1>4. StepsOf(Now) = StepSet
  BY <1>1, NowOK, StepsOfNow
<1> DEFINE q == Now'
<1>5. /\ q.source = source /\ q.steps = steps' /\ q.params = params' /\ q.results = results
      /\ q.current = current /\ q.analyses = analyses
  BY <1>2, NowFieldsNext
<1> HIDE DEF q
<1>6. /\ \A v \in Held(q) : Valued(q, v)
      /\ \A v \in Held(q) \ {s}, u \in StepsOf(q) \ (DOMAIN q.results \union {s}) :
           Harmless(q, u, v)
  BY <1>1, <1>3, <1>4, <1>5, NowFields, GrowSourced DEF q
<1>7. BeginSourced(q, s, {})
  BY <1>6 DEF BeginSourced, Valued
<1> QED
  BY <1>1, <1>2, <1>7, BegunSourced DEF q

\* An edited step gives something else, if at all, under the keys it had or now declares.
LEMMA EditBegins ==
  ASSUME NEW p, NEW q, PipeOK(p), Noted(p), Sourced(p), NEW s \in Ids, NEW keys,
         q.source = p.source, q.steps = p.steps, q.results = p.results,
         q.dirtyKeys = p.dirtyKeys, \A u \in Ids : u # s => q.params[u] = p.params[u]
  PROVE  BeginSourced(q, s, keys)
<1>1. /\ StepsOf(q) = StepsOf(p) /\ StepsOf(p) \subseteq Ids /\ Held(q) = Held(p)
      /\ DOMAIN p.dirtyKeys = DOMAIN p.results /\ Held(p) \subseteq Ids
  BY DEF PipeOK, StepsOf, Held, Elements, Noted, Filed, Kept
<1>2. ASSUME NEW k, k \notin Touched(q, s, keys), NEW B \in SUBSET Held(p)
      PROVE  B \intersect Ans(q, k) = B \intersect Ans(p, k)
  <2>1. \A w \in Held(p) : w # s => AnalysisKeys(q, w) = AnalysisKeys(p, w)
    BY <1>1 DEF AnalysisKeys
  <2>2. ASSUME s \in Held(p) PROVE k \in AnalysisKeys(q, s) <=> k \in AnalysisKeys(p, s)
    <3>1. k \notin p.dirtyKeys[s]
      BY <1>1, <1>2, <2>2 DEF Touched, Held
    <3>2. s \in Analyses => k \notin Def[s][p.params[s]].writes
      <4>1. Recorded(p, s)
        BY <2>2 DEF Noted
      <4> QED
        BY <3>1, <4>1 DEF Recorded
    <3>3. s \in Analyses => k \notin Def[s][q.params[s]].writes
      BY <1>2, StepsAssumption DEF Touched, StaticOf
    <3> QED
      BY <3>2, <3>3 DEF AnalysisKeys
  <2>3. \A w \in B : k \in AnalysisKeys(q, w) <=> k \in AnalysisKeys(p, w)
    BY <2>1, <2>2
  <2> QED
    BY <2>3 DEF Ans
<1>3. ASSUME NEW v \in Held(q) \ {s}, NEW k \in Needs(q, v) \ Touched(q, s, keys)
      PROVE  Value(q, Before(q, v), k, q.results[v].term.of[k])
  <2>1. v \in Held(p) /\ v \in Ids /\ Needs(q, v) = Needs(p, v)
    BY <1>1 DEF Needs
  <2>2. Before(q, v) = Before(p, v) /\ Before(p, v) \subseteq Held(p)
    BY BeforeIn DEF Before
  <2>3. Value(p, Before(p, v), k, p.results[v].term.of[k])
    BY <2>1 DEF Sourced, Valued
  <2>4. /\ \A B : B \intersect Cols(q, k) = B \intersect Cols(p, k)
        /\ \A B : B \intersect Vars(q, k) = B \intersect Vars(p, k)
    BY DEF Cols, Vars
  <2>5. Before(p, v) \intersect Ans(q, k) = Before(p, v) \intersect Ans(p, k)
    BY <1>2, <2>2
  <2> QED
    BY <2>2, <2>3, <2>4, <2>5, SameValue
<1>4. ASSUME NEW v \in Held(q) \ {s}, NEW u \in StepsOf(q) \ (DOMAIN q.results \union {s})
      PROVE  Harmless(q, u, v)
  <2>1. Harmless(p, u, v)
    BY <1>1 DEF Sourced
  <2>2. Needs(q, v) = Needs(p, v) /\ StaticOf(q, u) = StaticOf(p, u)
    BY <1>1 DEF Needs, StaticOf
  <2> QED
    BY <2>1, <2>2 DEF Harmless
<1> QED
  BY <1>3, <1>4 DEF BeginSourced

LEMMA EditSourced ==
  ASSUME CInv, NEW t \in Threads, NEW s \in Ids, NEW p \in ParamsOf(s), EditParams(t, s, p)
  PROVE  CallSourced(Now', call'[t])
<1> DEFINE keys == IF s \in DOMAIN dirtyKeys THEN dirtyKeys[s] ELSE StaticKeys(s)
           q == Now'
<1>1. TInv /\ PipeOK(Now) /\ Settled(Now) /\ Sourced(Now)
  BY CalledIdle DEF EditParams
<1>2. DOMAIN params = Ids
  BY <1>1, NowOK
<1>3. /\ params' = [params EXCEPT ![s] = p] /\ Begin(t, s, keys, EditRestores, "return")
      /\ UNCHANGED <<source, steps, results, owned, dirtyKeys, current, analyses>>
  BY DEF EditParams
<1>4. /\ q.source = source /\ q.steps = steps /\ q.results = results
      /\ q.dirtyKeys = dirtyKeys /\ q.params = params'
      /\ \A u \in Ids : u # s => q.params[u] = params[u]
  BY <1>2, <1>3, NowFieldsNext
<1> HIDE DEF q, keys
<1>5. Noted(Now)
  BY <1>1 DEF Settled
<1>6. BeginSourced(q, s, keys)
  BY <1>1, <1>4, <1>5, NowFields, EditBegins
<1> QED
  BY <1>1, <1>3, <1>6, BegunSourced DEF q

------------------------------------------------------------------------------
(* The walk gives every step its value.                                      *)

\* No step that is clean reads what a dirty one gives or gave.
LEMMA DirtyAreApart ==
  ASSUME TInv, NEW d \in StepSet, NEW keys, BeginFiled(Now, d), BeginSourced(Now, d, keys),
         Readable(d, file), NEW s \in Held(Now) \ DirtySteps(d, keys)
  PROVE  /\ Valued(Now, s)
         /\ \A u \in StepSet :
              Comes(steps, u, s) /\ (u \in DirtySteps(d, keys) \/ u \notin DOMAIN results) =>
                Apart(Now, u, s)
<1> DEFINE D == DirtySteps(d, keys)
<1>1. /\ source \in Sources /\ steps \in Seq(Ids) /\ file \in Files
      /\ \A u \in Ids : params[u] \in ParamsOf(u)
      /\ StepsOf(Now) = StepSet /\ StepSet \subseteq Ids
  BY NowOK, StepsOfNow DEF TInv
<1>2. /\ d # NoOne /\ Held(Now) = DOMAIN results \intersect StepSet /\ Kept(Now)
      /\ \A v \in Held(Now) \ {d} : Shaped(Now, v)
  BY <1>1, NowFields, StepsAssumption DEF BeginFiled, Filed, Held
<1>3. /\ d \in D /\ D \subseteq StepSet
      /\ \A v \in StepSet \ D : \A k \in Def[v][params[v]].reads :
           /\ k \notin keys /\ k \notin CachedKeys(d)
           /\ \A u \in D : k \notin StaticKeys(u)
      /\ \A v \in D : v # d => \/ Def[v][params[v]].inputs # {}
                               \/ Def[v][params[v]].reads # {}
  BY <1>1, DirtyStepsAre
<1> HIDE DEF D
<1>4. s \in StepSet \ D /\ s # d
  BY <1>2, <1>3 DEF D
<1>5. ASSUME NEW k \in Needs(Now, s)
      PROVE  /\ k \notin keys /\ k \notin CachedKeys(d)
             /\ \A u \in D : k \notin StaticKeys(u)
  <2>1. k \in Def[s][params[s]].reads
    BY <1>1, <1>4, NowFields, ReadsAssumption DEF Needs
  <2> QED
    BY <1>3, <1>4, <2>1
<1>6. \A u \in Ids \ Imports : StaticKeys(u) = StaticOf(Now, u)
  BY NowFields DEF StaticKeys, StaticOf, Writes, Meta
<1>7. Needs(Now, s) \intersect Touched(Now, d, keys) = {}
  <2> SUFFICES ASSUME NEW k \in Needs(Now, s), k \in Touched(Now, d, keys) PROVE FALSE
    OBVIOUS
  <2>1. k \notin keys /\ k \notin CachedKeys(d) /\ k \notin StaticKeys(d)
    BY <1>3, <1>5
  <2> QED
    BY <1>1, <1>6, <2>1, NowFields DEF Touched, CachedKeys
<1>8. Valued(Now, s)
  BY <1>2, <1>4, <1>7, NowFields DEF BeginSourced, Valued
<1>9. ASSUME NEW u \in StepSet, Comes(steps, u, s), u \in D PROVE Apart(Now, u, s)
  <2>1. u \in Imports => u = d
    BY <1>1, <1>3, <1>9, ReadsAssumption
  <2>2. u \notin Imports => Needs(Now, s) \intersect StaticOf(Now, u) = {}
    BY <1>1, <1>5, <1>6, <1>9
  <2>3. ASSUME u \in Imports, NEW f \in Files \ {Gone}
        PROVE  Needs(Now, s) \intersect Columns[source] \intersect Columns[f] = {}
    <3>1. u = d /\ file \in Files \ {Gone}
      BY <1>1, <2>1, <2>3 DEF Readable
    <3>2. Columns[file] \subseteq StaticKeys(d)
      BY <2>3, <3>1 DEF StaticKeys, Writes
    <3>3. Columns[source] \intersect Columns[f] \subseteq Columns[file]
      BY <1>1, <2>3, <3>1, OriginsAssumption
    <3> QED
      BY <1>3, <1>5, <3>2, <3>3
  <2>4. ASSUME u \in DOMAIN results
        PROVE  Needs(Now, s) \intersect (results[u].cols \union results[u].vars) = {}
    <3>1. CASE u = d
      <4>1. /\ results[d].cols \subseteq results[d].vars /\ d \in DOMAIN dirtyKeys
            /\ results[d].vars \subseteq dirtyKeys[d]
        BY <1>2, <2>4, <3>1, NowFields DEF Kept
      <4> QED
        BY <1>5, <3>1, <4>1 DEF CachedKeys
    <3>2. CASE u # d
      <4>1. Shaped(Now, u) /\ u \notin Imports
        BY <1>2, <2>1, <2>4, <3>2
      <4>2. results[u].cols \union results[u].vars \subseteq StaticOf(Now, u)
        BY <4>1, NowFields DEF Shaped, StaticOf
      <4> QED
        BY <2>2, <4>1, <4>2
    <3> QED
      BY <3>1, <3>2
  <2> QED
    BY <2>2, <2>3, <2>4, NowFields DEF Apart
<1>10. ASSUME NEW u \in StepSet, Comes(steps, u, s), u \notin D, u \notin DOMAIN results
       PROVE  Apart(Now, u, s)
  <2>1. Harmless(Now, u, s)
    BY <1>1, <1>2, <1>3, <1>4, <1>10, NowFields DEF BeginSourced
  <2> QED
    BY <1>10, <2>1, NowFields DEF Harmless, Apart
<1> QED
  BY <1>8, <1>9, <1>10 DEF D

LEMMA BeginWalkSourced ==
  ASSUME TInv, NEW t \in Threads, CallFiled(Now, call[t]), CallValued(Now, call[t]),
         WalkBegin(t), ~Fail(t)
  PROVE  CallValued(Now', call'[t])
<1> DEFINE c == call[t]
           D == DirtySteps(c.dirty, c.keys)
           d == call'[t]
           q == Pending(Now', d)
<1>1. /\ c.pc = "begin" /\ c.dirty \in StepSet \union {NoOne}
      /\ c.dirty = NoOne \/ Readable(c.dirty, file)
      /\ d.dirty = D /\ d.todo = steps /\ d.ds = SourceData
      /\ d.an = <<>> /\ d.results = results
      /\ d.pc = "walk" /\ Now' = Now
  BY BegunWalk DEF GoesOn
<1>2. BeginFiled(Now, c.dirty) /\ BeginSourced(Now, c.dirty, c.keys)
  BY <1>1 DEF CallFiled, CallValued
<1>3. steps \in Seq(Ids) /\ StepsOf(Now) = StepSet /\ StepSet \subseteq Ids
  BY NowOK, StepsOfNow DEF TInv
<1>4. ASSUME NEW s \in Held(Now) \ D
      PROVE  /\ Valued(Now, s)
             /\ \A u \in StepSet :
                  Comes(steps, u, s) /\ (u \in D \/ u \notin DOMAIN results) => Apart(Now, u, s)
  <2>1. c.dirty # NoOne
    BY <1>3 DEF DirtySteps, Held
  <2>2. c.dirty \in StepSet /\ Readable(c.dirty, file)
    BY <1>1, <2>1
  <2> QED
    BY <1>2, <2>2, DirtyAreApart
<1> HIDE DEF D, d
<1>5. /\ q.source = source /\ q.steps = steps /\ q.params = params /\ q.results = results
      /\ q.current = SourceData /\ q.analyses = <<>>
  BY <1>1, PendingFields
<1> HIDE DEF q
<1>6. Done(q, d.todo) = {}
  BY <1>1, <1>3, <1>5, DoneAtStart
<1>7. StepsOf(q) = StepSet /\ Held(q) = Held(Now)
  BY <1>3, <1>5, NowFields DEF StepsOf, Held
<1>8. DataIs(q, {}, q.current) /\ AnalysesAre(q, {}, q.analyses)
  BY <1>5, NothingRun
<1>9. ASSUME NEW s \in Held(Now) PROVE Valued(q, s) <=> Valued(Now, s)
  <2>1. Before(q, s) = Before(Now, s)
    BY <1>5, NowFields DEF Before
  <2>2. Alike(Now, q, Before(Now, s))
    BY <1>5, NowFields DEF Alike, Before
  <2> QED
    BY <1>5, <2>1, <2>2, NowFields, AlikeValued
<1>10. ASSUME NEW s, NEW u, Apart(Now, u, s) PROVE Apart(q, u, s)
  BY <1>5, <1>10, NowFields DEF Apart, Needs, StaticOf
<1>11. WalkSourced(q, d.dirty, d.todo)
  BY <1>1, <1>4, <1>5, <1>6, <1>7, <1>8, <1>9, <1>10 DEF WalkSourced
<1> QED
  BY <1>1, <1>11 DEF CallValued, q, d

\* What is done comes before the next step s of the walk, and all else behind s.
LEMMA NextComes ==
  ASSUME TInv, NEW t \in Threads, CallFiled(Now, call[t]), call[t].pc = "walk",
         call[t].todo # <<>>
  PROVE  LET c == call[t]
             p == Pending(Now, c)
             s == Head(c.todo)
             B == Done(p, c.todo)
         IN  /\ s \in StepSet /\ s \in Ids /\ s \notin B /\ B \subseteq DOMAIN p.results
             /\ Done(p, Tail(c.todo)) = B \union {s}
             /\ \A w : w \in B <=> Comes(steps, w, s)
             /\ \A w \in B : ~Comes(steps, s, w)
             /\ \A w \in StepSet : w = s \/ w \in B \/ Comes(steps, s, w)
<1> DEFINE c == call[t]
           p == Pending(Now, c)
           s == Head(c.todo)
           B == Done(p, c.todo)
           n == Len(steps) - Len(c.todo)
<1>1. /\ p.steps = steps /\ steps \in Seq(Ids) /\ StepsOf(p) = StepSet
      /\ WalkFiled(p, c.dirty, c.todo)
  BY WalkFacts
<1>2. /\ n \in Nat /\ n + 1 \in 1..Len(steps) /\ s = steps[n + 1]
      /\ s \in StepSet /\ s \in Ids
      /\ Done(p, Tail(c.todo)) = Done(p, c.todo) \union {s}
  BY NextStep
<1>3. Distinct(steps) /\ B \subseteq DOMAIN p.results
  BY <1>1 DEF WalkFiled, Filed
<1>4. Len(steps) \in Nat /\ Elements(steps) = StepSet
  BY <1>1, StepsOfNow
<1>5. B = FirstOf(steps, n)
  BY <1>1 DEF Done
<1> HIDE DEF n, c, p, s, B
<1>6. /\ s \notin FirstOf(steps, n)
      /\ \A w : w \in FirstOf(steps, n) <=> Comes(steps, w, s)
      /\ \A w \in FirstOf(steps, n) : ~Comes(steps, s, w)
      /\ \A w \in Elements(steps) : w = s \/ w \in FirstOf(steps, n) \/ Comes(steps, s, w)
  BY <1>2, <1>3, <1>4, FirstComeBefore
<1> QED
  BY <1>2, <1>3, <1>4, <1>5, <1>6 DEF c, p, s, B

\* The metadata that a step replaces are of columns, not of analyses.
LEMMA MetaOfColumns ==
  ASSUME NEW p, PipeOK(p), NEW B, B \subseteq DOMAIN p.results,
         NEW ds, NEW an, DataIs(p, B, ds), AnalysesAre(p, B, an), NEW s \in Ids,
         Needs(p, s) \subseteq DOMAIN ds \union DOMAIN an
  PROVE  Def[s][p.params[s]].meta \subseteq DOMAIN ds
<1> SUFFICES ASSUME NEW k \in Def[s][p.params[s]].meta, k \in DOMAIN an PROVE FALSE
  BY ReadsAssumption DEF Needs, PipeOK
<1>1. PICK w \in B : w \in Ans(p, k)
  BY DEF AnalysesAre
<1>2. w \in Analyses /\ k \in Def[w][p.params[w]].writes \union Aliases[w]
  BY <1>1 DEF Ans, AnalysisKeys
<1>3. w \in Ids /\ p.params[w] \in ParamsOf(w) /\ p.params[s] \in ParamsOf(s)
  BY <1>2, StepsAssumption DEF PipeOK
<1> QED
  BY <1>2, <1>3, ReadsAssumption

\* A step that was computed found what it needs.
LEMMA ValuedFinds ==
  ASSUME NEW p, NEW s, Valued(p, s), NEW ds, NEW an,
         DataIs(p, Before(p, s), ds), AnalysesAre(p, Before(p, s), an)
  PROVE  Needs(p, s) \subseteq DOMAIN ds \union DOMAIN an
<1> SUFFICES ASSUME NEW k \in Needs(p, s), k \notin DOMAIN ds, k \notin DOMAIN an PROVE FALSE
  OBVIOUS
<1>1. ~IsColumn(p, Before(p, s), k) /\ Before(p, s) \intersect Ans(p, k) = {}
  BY DEF DataIs, AnalysesAre
<1> QED
  BY <1>1 DEF Valued, Value

LEMMA PendingOK ==
  ASSUME TInv, NEW t \in Threads, call[t].pc = "walk"
  PROVE  PipeOK(Pending(Now, call[t]))
<1> DEFINE c == call[t]
           p == Pending(Now, c)
<1>1. DOMAIN p = DOMAIN Now
  BY DEF Pending
<1>2. /\ p.source = source /\ p.steps = steps /\ p.params = params
      /\ p.results = c.results /\ p.owned = c.owned /\ p.dirtyKeys = c.dirtyKeys
      /\ p.current = c.ds /\ p.analyses = c.an
  BY PendingFields
<1>3. /\ source \in Sources /\ steps \in Seq(Ids)
      /\ DOMAIN params = Ids /\ \A s \in Ids : params[s] \in ParamsOf(s)
      /\ PipeOK(Now)
  BY NowOK DEF TInv
<1>4. /\ DOMAIN c.ds \subseteq Keys /\ DOMAIN c.an \subseteq Keys
      /\ ResultsOK(c.results)
      /\ PartialOn(c.owned, Ids, OwnerKeys) /\ PartialOn(c.dirtyKeys, Ids, Keys)
  BY WalkFields
<1> HIDE DEF p, c
<1> QED
  BY <1>1, <1>2, <1>3, <1>4 DEF PipeOK, p, c

LEMMA CachedWalkSourced ==
  ASSUME TInv, NEW t \in Threads, CallFiled(Now, call[t]), CallValued(Now, call[t]),
         WalkCached(t)
  PROVE  CallValued(Now', call'[t])
<1> DEFINE c == call[t]
           p == Pending(Now, c)
           s == Head(c.todo)
           d == call'[t]
           q == Pending(Now', d)
           B == Done(p, c.todo)
           r == p.results[s]
<1>1. /\ c.pc = "walk" /\ c.todo # <<>> /\ s \in DOMAIN c.results \ c.dirty
      /\ d.pc = "walk" /\ Now' = Now
      /\ d.dirty = c.dirty /\ d.todo = Tail(c.todo) /\ d.results = c.results
      /\ d.ds = WithUpdates(c.ds, c.results[s]) /\ d.an = WithAnalysis(c.an, s, c.results[s])
  BY CachedWalk DEF GoesOn
<1>2. WalkSourced(p, c.dirty, c.todo)
  BY <1>1 DEF CallValued
<1>3. /\ p.source = source /\ p.steps = steps /\ p.params = params
      /\ p.results = c.results /\ p.current = c.ds /\ p.analyses = c.an
      /\ StepsOf(p) = StepSet /\ WalkFiled(p, c.dirty, c.todo)
  BY <1>1, WalkFacts
<1>4. /\ s \in StepSet /\ s \in Ids /\ s \notin B /\ B \subseteq DOMAIN p.results
      /\ Done(p, Tail(c.todo)) = B \union {s}
      /\ \A w : w \in B <=> Comes(steps, w, s)
  BY <1>1, NextComes
<1> HIDE DEF d
<1>8. /\ q.source = source /\ q.steps = steps /\ q.params = params /\ q.results = p.results
      /\ q.current = WithUpdates(p.current, r) /\ q.analyses = WithAnalysis(p.analyses, s, r)
  BY <1>1, <1>3, PendingFields
<1>9. PipeOK(p)
  BY <1>1, PendingOK
<1> HIDE DEF q, p, c, s, B, r
<1>10. Before(p, s) = B /\ s \in Held(p)
  BY <1>1, <1>3, <1>4 DEF Before, Held
<1>11. DataIs(p, B, p.current) /\ AnalysesAre(p, B, p.analyses) /\ Valued(p, s) /\ Shaped(p, s)
  BY <1>1, <1>2, <1>3, <1>10 DEF WalkSourced, WalkFiled, B
<1>12. Def[s][p.params[s]].meta \subseteq DOMAIN p.current
  BY <1>4, <1>9, <1>10, <1>11, MetaOfColumns, ValuedFinds
<1>13. r.cols \subseteq r.vars /\ r.vars \ r.cols \subseteq DOMAIN p.current
  BY <1>11, <1>12 DEF Shaped, r
<1>14. B \union {s} \subseteq DOMAIN p.results /\ \A w \in B : Comes(p.steps, w, s)
  BY <1>1, <1>3, <1>4
<1>15. DataIs(p, B \union {s}, WithUpdates(p.current, r))
  BY <1>4, <1>11, <1>13, <1>14, ExtendData DEF r
<1>16. AnalysesAre(p, B \union {s}, WithAnalysis(p.analyses, s, r))
  BY <1>3, <1>4, <1>11, <1>14, ExtendAnalyses DEF r
<1>17. Alike(p, q, DOMAIN p.results) /\ Alike(p, q, B \union {s})
  BY <1>1, <1>3, <1>4, <1>8 DEF Alike
<1>18. DataIs(q, B \union {s}, q.current) /\ AnalysesAre(q, B \union {s}, q.analyses)
  BY <1>8, <1>15, <1>16, <1>17, AlikeData
<1>19. ASSUME NEW u \in Held(p) PROVE Valued(q, u) <=> Valued(p, u)
  <2>1. Before(q, u) = Before(p, u)
    BY <1>3, <1>8 DEF Before
  <2>2. Alike(p, q, Before(p, u))
    BY <1>17 DEF Alike, Before
  <2> QED
    BY <1>3, <1>8, <2>1, <2>2, AlikeValued
<1>20. \A u, v : Apart(p, u, v) => Apart(q, u, v)
  BY <1>3, <1>8 DEF Apart, Needs, StaticOf
<1>21. Done(q, d.todo) = B \union {s} /\ StepsOf(q) = StepsOf(p) /\ Held(q) = Held(p)
  BY <1>1, <1>3, <1>4, <1>8 DEF Done, StepsOf, Held
<1>22. \A u \in Held(p) : u \in B \/ u \notin c.dirty => Valued(p, u)
  BY <1>2 DEF WalkSourced, B
<1>23. \A v \in Held(p) \ (c.dirty \union B), u \in StepsOf(p) \ B :
         Comes(p.steps, u, v) /\ (u \in c.dirty \/ u \notin DOMAIN p.results) => Apart(p, u, v)
  BY <1>2 DEF WalkSourced, B
<1>24. WalkSourced(q, d.dirty, d.todo)
  BY <1>1, <1>3, <1>8, <1>18, <1>19, <1>20, <1>21, <1>22, <1>23 DEF WalkSourced
<1> QED
  BY <1>1, <1>24 DEF CallValued, q, d, c

\* The inputs of a computed step are what the walk has so far.
LEMMA LookupValue ==
  ASSUME NEW p, NEW B, NEW ds, NEW an, DataIs(p, B, ds), AnalysesAre(p, B, an),
         NEW k \in DOMAIN ds \union DOMAIN an
  PROVE  Value(p, B, k, Lookup(k, ds, an))
<1>1. CASE k \in DOMAIN ds
  BY <1>1 DEF DataIs, Lookup
<1>2. CASE k \notin DOMAIN ds
  <2>1. ~IsColumn(p, B, k) /\ Lookup(k, ds, an) = Whole(an[k])
    BY <1>2 DEF DataIs, Lookup
  <2>2. B \intersect Ans(p, k) # {} /\ From(p, B \intersect Ans(p, k), an[k])
    BY <1>2 DEF AnalysesAre
  <2>3. PICK a \in B \intersect Ans(p, k) :
          LastOne(p, B \intersect Ans(p, k), a) /\ an[k] = p.results[a].term
    BY <2>2 DEF From
  <2> QED
    BY <2>1, <2>3 DEF Value
<1> QED
  BY <1>1, <1>2

\* What a walk that has done B of the steps D knows: the notes of the results that are
\* done or clean, and that what w was computed from is one of them or gives w nothing.
NotesHold(p, D, B) ==
  \A v \in Held(p) : v \in B \/ v \notin D => Shaped(p, v) /\ Recorded(p, v)
OthersApart(p, D, B, w) == \A v \in Before(p, w) : v \in B \/ v \notin D \/ Apart(p, v, w)
\* What s owns when it is computed now, and what others have computed, are apart.
OwnedNow(s) == Owned(s, IF s \in Imports THEN Columns[file] ELSE Writes(s, file))
OwnsAlone(p, s) == \A v \in Held(p) : v # s => p.owned[v] \intersect OwnedNow(s) = {}

\* The clean step w, which the walk has not reached, needs nothing that s gave before or
\* gives now.  If s is an import its file may have new columns: then they have no other
\* owner, and w cannot have needed them.
LEMMA NotNeeded ==
  ASSUME NoAliasIsNeeded, NEW p, PipeOK(p), p.params = params, p.source = source,
         NEW D, NEW B, NEW s \in StepSet, s \in Ids, file \in Files, Readable(s, file),
         NotesHold(p, D, B), StepsOf(p) = StepSet,
         NEW w \in Held(p), Valued(p, w), Apart(p, s, w),
         OthersApart(p, D, B, w), OwnsAlone(p, s), NEW k \in Needs(p, w)
  PROVE  /\ k \notin AnalysisKeys(p, s)
         /\ s \in DOMAIN p.results => k \notin p.results[s].cols \union p.results[s].vars
         /\ k \notin Writes(s, file) \union Meta(s)
<1>1. /\ \A v \in Ids : p.params[v] \in ParamsOf(v)
      /\ DOMAIN p.results \subseteq Ids /\ source \in Sources
  BY DEF PipeOK, ResultsOK
<1>2. ASSUME NEW v \in Ids, v \in Imports \/ Needs(p, w) \intersect StaticOf(p, v) = {}
      PROVE  k \notin AnalysisKeys(p, v)
  <2> SUFFICES ASSUME v \in Analyses, k \in AnalysisKeys(p, v) PROVE FALSE
    BY DEF AnalysisKeys
  <2>1. v \notin Imports /\ k \notin Def[v][p.params[v]].writes
    BY <1>2, StepsAssumption DEF StaticOf
  <2>2. k \in Aliases[v]
    BY <2>1 DEF AnalysisKeys
  <2> QED
    <3>1. w \in Ids /\ p.params[w] \in ParamsOf(w) /\ p.params[v] \in ParamsOf(v)
      BY <1>1 DEF Held
    <3> QED
      BY <2>1, <2>2, <3>1 DEF NoAliasIsNeeded, Needs
<1>3. s \in Imports \/ Needs(p, w) \intersect StaticOf(p, s) = {}
  BY DEF Apart
<1>4. k \notin AnalysisKeys(p, s)
  BY <1>2, <1>3
<1>5. s \in DOMAIN p.results => k \notin p.results[s].cols \union p.results[s].vars
  BY DEF Apart
<1>6. CASE s \notin Imports
  <2>1. Writes(s, file) \union Meta(s) = StaticOf(p, s)
    BY <1>6 DEF Writes, Meta, StaticOf
  <2> QED
    BY <1>3, <1>4, <1>5, <1>6, <2>1
<1>7. CASE s \in Imports
  <2>1. Meta(s) = {} /\ Writes(s, file) = Columns[file] /\ file \in Files \ {Gone}
    BY <1>1, <1>7, ReadsAssumption DEF Meta, Writes, Readable
  <2>2. ASSUME k \in Columns[file] PROVE FALSE
    <3>1. k \notin Columns[p.source]
      BY <1>7, <2>1, <2>2 DEF Apart
    <3>2. PICK v \in Before(p, w) : v \in Cols(p, k) \/ v \in Ans(p, k)
      BY <3>1, Provided DEF Valued
    <3>3. v \in Held(p) /\ v \in DOMAIN p.results /\ v \in Ids
      BY <1>1, BeforeIn DEF Held
    <3>4. v # s
      BY <1>4, <1>5, <3>2, <3>3 DEF Cols, Ans
    <3>5. CASE v \in B \/ v \notin D
      <4>1. Shaped(p, v) /\ Recorded(p, v)
        BY <3>3, <3>5 DEF NotesHold
      <4>2. <<"key", k>> \in OwnedOf(p, v)
        <5>1. CASE v \in Cols(p, k)
          <6>1. k \in p.results[v].cols
            BY <5>1 DEF Cols
          <6>2. k \in IF v \in Imports THEN p.results[v].cols ELSE Def[v][p.params[v]].writes
            BY <4>1, <6>1 DEF Shaped
          <6> QED
            BY <6>2 DEF OwnedOf
        <5>2. CASE v \in Ans(p, k)
          <6>1. v \in Analyses /\ k \in Def[v][p.params[v]].writes \union Aliases[v]
            BY <5>2 DEF Ans, AnalysisKeys
          <6>2. v \notin Imports
            BY <6>1, StepsAssumption
          <6> QED
            BY <6>1, <6>2 DEF OwnedOf
        <5> QED
          BY <3>2, <5>1, <5>2
      <4>3. <<"key", k>> \in OwnedNow(s)
        BY <1>7, <2>2 DEF Owned, OwnedNow
      <4> QED
        BY <3>3, <3>4, <4>1, <4>2, <4>3 DEF Recorded, OwnsAlone
    <3>6. CASE Apart(p, v, w)
      <4>1. k \notin p.results[v].cols
        BY <3>3, <3>6 DEF Apart
      <4>2. k \notin AnalysisKeys(p, v)
        BY <1>2, <3>3, <3>6 DEF Apart
      <4> QED
        BY <3>2, <4>1, <4>2 DEF Cols, Ans
    <3> QED
      BY <3>5, <3>6 DEF OthersApart
  <2> QED
    BY <1>4, <1>5, <2>1, <2>2
<1> QED
  BY <1>6, <1>7

LEMMA ComputeWalkSourced ==
  ASSUME NoAliasIsNeeded, TInv, NEW t \in Threads, CallFiled(Now, call[t]),
         CallValued(Now, call[t]), WalkCompute(t), ~Fail(t)
  PROVE  CallValued(Now', call'[t])
<1> DEFINE c == call[t]
           p == Pending(Now, c)
           s == Head(c.todo)
           r == Compute(s, file, c.ds, c.an)
           d == call'[t]
           q == Pending(Now', d)
           B == Done(p, c.todo)
           D == c.dirty
           o == Owned(s, IF s \in Imports THEN r.cols ELSE Writes(s, file))
           of == [k \in Def[s][params[s]].needs |-> Lookup(k, c.ds, c.an)]
<1>1. /\ c.pc = "walk" /\ c.todo # <<>> /\ (s \in D \/ s \notin DOMAIN c.results)
      /\ CanCompute(s, c.ds, c.an) /\ UniqueNow(q.results, q.owned)
      /\ Now' = Now /\ d.pc = "walk" /\ d.dirty = D /\ d.todo = Tail(c.todo)
      /\ q.source = source /\ q.steps = steps /\ q.params = params
      /\ q.results = Put(p.results, s, r) /\ q.owned = Put(p.owned, s, o)
      /\ q.current = WithUpdates(c.ds, r) /\ q.analyses = WithAnalysis(c.an, s, r)
  BY ComputedFacts DEF GoesOn
<1>2. WalkSourced(p, D, c.todo)
  BY <1>1 DEF CallValued
<1>3. /\ p.source = source /\ p.steps = steps /\ p.params = params
      /\ p.results = c.results /\ p.current = c.ds /\ p.analyses = c.an
      /\ StepsOf(p) = StepSet /\ WalkFiled(p, D, c.todo)
  BY <1>1, WalkFacts
<1>4. /\ s \in StepSet /\ s \in Ids /\ s \notin B /\ B \subseteq DOMAIN p.results
      /\ Done(p, Tail(c.todo)) = B \union {s}
      /\ \A w : w \in B <=> Comes(steps, w, s)
      /\ \A w \in B : ~Comes(steps, s, w)
      /\ \A w \in StepSet : w = s \/ w \in B \/ Comes(steps, s, w)
  BY <1>1, NextComes
<1>5. PipeOK(p) /\ file \in Files
  BY <1>1, PendingOK DEF TInv
<1>6. /\ r.cols = IF s \in Analyses THEN {} ELSE Writes(s, file)
      /\ r.vars = r.cols \union Meta(s) /\ r.term.of = of
  <2> HIDE DEF s
  <2>1. r.term = [by |-> s, params |-> params[s],
                  from |-> IF s \in Imports THEN file ELSE NoOne, of |-> of]
    BY ComputeFields
  <2> QED
    BY <2>1, ComputeFields
<1>7. /\ Needs(p, s) = Def[s][params[s]].needs
      /\ Needs(p, s) \subseteq DOMAIN p.current \union DOMAIN p.analyses
      /\ Readable(s, file)
  BY <1>1, <1>3 DEF CanCompute, Needs
<1>8. \A k \in Needs(p, s) : r.term.of[k] = Lookup(k, p.current, p.analyses)
  BY <1>3, <1>6, <1>7
<1> HIDE DEF r, of
<1>9. /\ DOMAIN q.results = DOMAIN p.results \union {s} /\ q.results[s] = r
      /\ \A u \in DOMAIN p.results : u # s => q.results[u] = p.results[u]
  <2> HIDE DEF s, p, q
  <2> QED
    BY <1>1 DEF Put
<1>10. /\ DOMAIN q.owned = DOMAIN p.owned \union {s} /\ q.owned[s] = o
       /\ \A u \in DOMAIN p.owned : u # s => q.owned[u] = p.owned[u]
  <2> HIDE DEF s, p, q, o
  <2> QED
    BY <1>1 DEF Put
<1> HIDE DEF q, p, c, s, B, D, d
<1>11. /\ Held(p) \subseteq StepSet /\ Held(p) \subseteq DOMAIN p.results
       /\ DOMAIN p.owned = DOMAIN p.results /\ B \subseteq Held(p)
       /\ Held(q) = Held(p) \union {s}
  <2>1. B \subseteq StepSet
    BY <1>3, <1>4, ComesIn, StepsOfNow, NowOK DEF TInv
  <2> QED
    BY <1>1, <1>3, <1>4, <1>9, <2>1 DEF WalkFiled, Filed, Kept, Held, StepsOf
<1>12. \A v \in Held(p) : v # s => p.owned[v] \intersect q.owned[s] = {}
  <2>1. ASSUME NEW v \in Held(p), v # s PROVE p.owned[v] \intersect q.owned[s] = {}
    <3> DEFINE w == [u \in StepSet |->
                       IF u \notin DOMAIN q.results THEN Declared(u)
                       ELSE IF u \in DOMAIN q.owned THEN q.owned[u] ELSE {}]
    <3>1. Unique(StepSet, w)
      BY <1>1 DEF UniqueNow
    <3>2. w[v] = p.owned[v] /\ w[s] = q.owned[s]
      BY <1>4, <1>9, <1>10, <1>11, <2>1
    <3> HIDE DEF w
    <3> QED
      BY <1>4, <1>11, <2>1, <3>1, <3>2 DEF Unique
  <2> QED
    BY <2>1
<1>13. DataIs(p, B, p.current) /\ AnalysesAre(p, B, p.analyses)
  BY <1>2 DEF WalkSourced, B
<1>14. \A u \in Held(p) : u \in B \/ u \notin D => Valued(p, u)
  BY <1>2 DEF WalkSourced, B
<1>15. \A v \in Held(p) \ (D \union B), u \in StepSet \ B :
         Comes(steps, u, v) /\ (u \in D \/ u \notin DOMAIN p.results) => Apart(p, u, v)
  BY <1>2, <1>3 DEF WalkSourced, B
<1>16. Alike(p, q, B)
  BY <1>1, <1>3, <1>4, <1>9 DEF Alike
<1>17. Before(q, s) = B
  BY <1>1, <1>4, <1>9 DEF Before
<1>18. Valued(q, s)
  <2>1. ASSUME NEW k \in Needs(p, s) PROVE Value(q, B, k, q.results[s].term.of[k])
    <3>1. Value(p, B, k, Lookup(k, p.current, p.analyses))
      BY <1>7, <1>13, LookupValue
    <3>2. q.results[s].term.of[k] = Lookup(k, p.current, p.analyses)
      BY <1>8, <1>9
    <3> QED
      BY <1>16, <3>1, <3>2, AlikeValue
  <2>2. Needs(q, s) = Needs(p, s)
    BY <1>1, <1>3 DEF Needs
  <2> QED
    BY <1>17, <2>1, <2>2 DEF Valued
<1>19. ASSUME NEW w \in B PROVE Valued(q, w)
  <2>1. w \in Held(p) /\ w \in DOMAIN p.results /\ w # s /\ w \in StepSet /\ ~Comes(steps, s, w)
    BY <1>4, <1>11
  <2>2. Before(q, w) = Before(p, w) /\ s \notin Before(p, w)
    BY <1>1, <1>3, <1>9, <2>1 DEF Before
  <2>3. Alike(p, q, Before(p, w))
    BY <1>1, <1>3, <1>9, <2>2 DEF Alike, Before
  <2>4. q.results[w] = p.results[w] /\ q.params[w] = p.params[w]
    BY <1>1, <1>3, <1>9, <2>1
  <2> QED
    BY <1>14, <2>1, <2>2, <2>3, <2>4, AlikeValued
<1>20. ASSUME NEW w \in Held(p) \ (D \union B), w # s PROVE Valued(q, w)
  <2>1. Comes(steps, s, w) /\ w \in StepSet /\ Valued(p, w)
    BY <1>4, <1>11, <1>14, <1>20
  <2>2. Apart(p, s, w)
    BY <1>1, <1>3, <1>4, <1>15, <2>1 DEF D
  <2>3. OthersApart(p, D, B, w)
    <3> SUFFICES ASSUME NEW v \in Before(p, w), v \notin B, v \in D PROVE Apart(p, v, w)
      BY DEF OthersApart
    <3>1. v \in StepSet \ B /\ Comes(steps, v, w)
      BY <1>3, <1>11, BeforeIn
    <3> QED
      BY <1>15, <1>20, <3>1
  <2>4. OwnsAlone(p, s)
    <3>1. q.owned[s] = OwnedNow(s)
      BY <1>6, <1>10, StepsAssumption DEF Writes, OwnedNow
    <3> QED
      BY <1>12, <3>1 DEF OwnsAlone
  <2>5. NotesHold(p, D, B)
    BY <1>3 DEF WalkFiled, B, NotesHold
  <2>6. ASSUME NEW k \in Needs(p, w)
        PROVE  /\ k \notin AnalysisKeys(p, s)
               /\ s \in DOMAIN p.results => k \notin p.results[s].cols \union p.results[s].vars
               /\ k \notin Writes(s, file) \union Meta(s)
    BY <1>3, <1>4, <1>5, <1>7, <1>11, <2>1, <2>2, <2>3, <2>4, <2>5, NotNeeded
  <2>7. ASSUME NEW k \in Needs(p, w)
        PROVE  /\ Before(q, w) \intersect Cols(q, k) = Before(p, w) \intersect Cols(p, k)
               /\ Before(q, w) \intersect Vars(q, k) = Before(p, w) \intersect Vars(p, k)
               /\ Before(q, w) \intersect Ans(q, k) = Before(p, w) \intersect Ans(p, k)
               /\ s \notin Cols(p, k) \union Vars(p, k) \union Ans(p, k)
    <3>1. /\ s \notin Cols(p, k) /\ s \notin Vars(p, k) /\ s \notin Ans(p, k)
      BY <2>6 DEF Cols, Vars, Ans
    <3>2. s \notin Cols(q, k) /\ s \notin Vars(q, k)
      BY <1>6, <1>9, <2>6 DEF Cols, Vars
    <3>3. \A u : AnalysisKeys(q, u) = AnalysisKeys(p, u)
      BY <1>1, <1>3 DEF AnalysisKeys
    <3>4. \A u : u # s => (u \in Before(q, w) <=> u \in Before(p, w))
      BY <1>1, <1>3, <1>9 DEF Before
    <3>5. \A u : u # s => /\ u \in Cols(q, k) <=> u \in Cols(p, k)
                          /\ u \in Vars(q, k) <=> u \in Vars(p, k)
      BY <1>9 DEF Cols, Vars
    <3>6. \A u : u # s => (u \in Ans(q, k) <=> u \in Ans(p, k))
      BY <1>9, <3>3 DEF Ans
    <3>7. s \notin Ans(q, k)
      BY <2>6, <3>3 DEF Ans
    <3> QED
      BY <3>1, <3>2, <3>4, <3>5, <3>6, <3>7
  <2>8. ASSUME NEW k \in Needs(p, w)
        PROVE  Value(q, Before(q, w), k, q.results[w].term.of[k])
    <3>1. Value(p, Before(p, w), k, p.results[w].term.of[k])
      BY <2>1 DEF Valued
    <3>2. \A u \in Before(p, w) : u \in Cols(p, k) \union Vars(p, k) \union Ans(p, k) =>
            q.results[u] = p.results[u]
      BY <1>9, <2>7 DEF Before
    <3>3. q.results[w] = p.results[w]
      BY <1>9, <1>11, <1>20
    <3>4. q.source = p.source /\ q.steps = p.steps
      BY <1>1, <1>3
    <3> QED
      BY <2>7, <3>1, <3>2, <3>3, <3>4, SameValue
  <2>9. Needs(q, w) = Needs(p, w)
    BY <1>1, <1>3 DEF Needs
  <2> QED
    BY <2>8, <2>9 DEF Valued
<1>21. Def[s][p.params[s]].meta \subseteq DOMAIN p.current
  BY <1>4, <1>5, <1>7, <1>13, MetaOfColumns
<1>22. DataIs(q, B, p.current) /\ AnalysesAre(q, B, p.analyses)
  BY <1>13, <1>16, AlikeData
<1>23. B \union {s} \subseteq DOMAIN q.results /\ \A w \in B : Comes(q.steps, w, s)
  BY <1>1, <1>4, <1>9
<1>24. r.cols \subseteq r.vars /\ r.vars \ r.cols \subseteq DOMAIN p.current
  BY <1>3, <1>6, <1>21 DEF Meta
<1>25. DataIs(q, B \union {s}, WithUpdates(p.current, r))
  BY <1>4, <1>9, <1>22, <1>23, <1>24, ExtendData
<1>26. AnalysesAre(q, B \union {s}, WithAnalysis(p.analyses, s, r))
  BY <1>1, <1>4, <1>9, <1>22, <1>23, ExtendAnalyses
<1>27. Done(q, d.todo) = B \union {s} /\ StepsOf(q) = StepSet
  BY <1>1, <1>3, <1>4 DEF Done, StepsOf
<1>28. ASSUME NEW u \in Held(q), u \in B \union {s} \/ u \notin D PROVE Valued(q, u)
  BY <1>11, <1>18, <1>19, <1>20, <1>28
<1>29. ASSUME NEW v \in Held(q) \ (D \union (B \union {s})),
              NEW u \in StepSet \ (B \union {s}),
              Comes(steps, u, v), u \in D \/ u \notin DOMAIN q.results
       PROVE  Apart(q, u, v)
  <2>1. Apart(p, u, v)
    BY <1>9, <1>11, <1>15, <1>29
  <2>2. Needs(q, v) = Needs(p, v) /\ StaticOf(q, u) = StaticOf(p, u)
    BY <1>1, <1>3 DEF Needs, StaticOf
  <2>3. u \in DOMAIN q.results => u \in DOMAIN p.results /\ q.results[u] = p.results[u]
    BY <1>9, <1>29
  <2> QED
    BY <1>1, <1>3, <2>1, <2>2, <2>3 DEF Apart
<1>30. WalkSourced(q, d.dirty, d.todo)
  BY <1>1, <1>3, <1>25, <1>26, <1>27, <1>28, <1>29 DEF WalkSourced
<1> QED
  BY <1>1, <1>30 DEF CallValued, q, d, c

\* The end of a call.
LEMMA SameSourced ==
  ASSUME NEW p, NEW q, Sourced(p), Same(p, q)
  PROVE  Sourced(q)
<1>1. /\ StepsOf(q) = StepsOf(p) /\ Held(q) = Held(p) /\ Held(p) \subseteq StepsOf(p)
      /\ Held(p) \subseteq DOMAIN p.results /\ DOMAIN q.results = DOMAIN p.results
  BY DEF Same, StepsOf, Held
<1>2. Alike(p, q, Held(p))
  BY <1>1 DEF Same, Alike
<1>3. DataIs(q, Held(q), q.current) /\ AnalysesAre(q, Held(q), q.analyses)
  BY <1>1, <1>2, AlikeData DEF Sourced, Same
<1>4. ASSUME NEW s \in Held(p) PROVE Valued(q, s)
  <2>1. Before(q, s) = Before(p, s) /\ Before(p, s) \subseteq Held(p)
    BY BeforeIn DEF Before, Same
  <2>2. Alike(p, q, Before(p, s))
    BY <1>2, <2>1 DEF Alike
  <2>3. q.results[s] = p.results[s] /\ q.params[s] = p.params[s]
    BY <1>1 DEF Same
  <2>4. Valued(q, s) <=> Valued(p, s)
    BY <2>1, <2>2, <2>3, AlikeValued
  <2> QED
    BY <2>4 DEF Sourced
<1>5. ASSUME NEW s \in Held(p), NEW u \in StepsOf(p) \ DOMAIN p.results
      PROVE  Harmless(q, u, s)
  <2>1. Harmless(p, u, s)
    BY DEF Sourced
  <2>2. Needs(q, s) = Needs(p, s) /\ StaticOf(q, u) = StaticOf(p, u)
    BY <1>1 DEF Same, Needs, StaticOf
  <2> QED
    BY <2>1, <2>2 DEF Harmless, Same
<1> QED
  BY <1>1, <1>3, <1>4, <1>5 DEF Sourced

\* What a walk that ends would publish.
LEMMA EndSourced ==
  ASSUME TInv, NEW t \in Threads, CallFiled(Now, call[t]), CallValued(Now, call[t]), Ready(t)
  PROVE  Sourced(Pending(Now, call[t]))
<1> DEFINE c == call[t]
           p == Pending(Now, c)
<1>1. Done(p, c.todo) = StepsOf(p) /\ Held(p) = StepsOf(p)
  BY EndFacts
<1>2. WalkSourced(p, c.dirty, c.todo)
  BY DEF CallValued, Ready
<1> HIDE DEF p
<1>3. StepsOf(p) \ DOMAIN p.results = {}
  BY <1>1 DEF Held
<1> QED
  BY <1>1, <1>2, <1>3 DEF WalkSourced, Sourced, p

LEMMA CommitSourced ==
  ASSUME CInv, NEW t \in Threads, Commit(t), ~Fail(t)
  PROVE  CallSourced(Now', call'[t])
<1> DEFINE c == call[t]
           p == Pending(Now, c)
<1>1. TInv /\ c.pc = "walk" /\ CallFiled(Now, c) /\ CallValued(Now, c)
  BY DEF CInv, SInv, CallSettled, CallSourced, Commit, Ready
<1>2. Ready(t) /\ Same(p, Now') /\ call'[t].pc = "idle"
  BY <1>1, CommitFacts
<1>3. Sourced(Now')
  BY <1>1, <1>2, EndSourced, SameSourced
<1> QED
  BY <1>2, <1>3 DEF CallSourced, CallValued

LEMMA FailSourced ==
  ASSUME CInv, NEW t \in Threads, call[t].pc \in {"begin", "walk"}, Fail(t)
  PROVE  CallSourced(Now', call'[t])
<1>1. Sourced(call[t].before)
  BY DEF CInv, CallSourced
<1>2. Same(call[t].before, Now') /\ call'[t].pc = "failed"
  BY FailSettled DEF CInv
<1>3. Sourced(Now')
  BY <1>1, <1>2, SameSourced
<1> QED
  BY <1>2, <1>3 DEF CallSourced, CallValued

\* A walk that goes on.
LEMMA WalkValued ==
  ASSUME NoAliasIsNeeded, TInv, NEW t \in Threads, CallFiled(Now, call[t]),
         CallValued(Now, call[t]), WalkBegin(t) \/ WalkCached(t) \/ WalkCompute(t), ~Fail(t)
  PROVE  CallValued(Now', call'[t])
BY BeginWalkSourced, CachedWalkSourced, ComputeWalkSourced

LEMMA GoesOnSourced ==
  ASSUME NoAliasIsNeeded, CInv, NEW t \in Threads,
         WalkBegin(t) \/ WalkCached(t) \/ WalkCompute(t), ~Fail(t)
  PROVE  CallSourced(Now', call'[t])
<1>1. call[t].pc \in {"begin", "walk"}
  BY DEF WalkBegin, WalkCached, WalkCompute
<1>2. /\ TInv /\ CallFiled(Now, call[t]) /\ CallValued(Now, call[t])
      /\ Sourced(call[t].before)
  BY <1>1 DEF CInv, SInv, CallSettled, CallSourced
<1>3. CallValued(Now', call'[t])
  BY <1>2, WalkValued
<1>4. GoesOn(t)
  BY <1>2, WalkOn
<1> QED
  BY <1>2, <1>3, <1>4 DEF GoesOn, CallSourced

LEMMA WalkSourcedOn ==
  ASSUME NoAliasIsNeeded, CInv, NEW t \in Threads, Walk(t)
  PROVE  CallSourced(Now', call'[t])
<1>1. CASE Fail(t)
  BY <1>1, FailSourced DEF Walk, WalkBegin, WalkCached, WalkCompute, Commit, Ready
<1>2. CASE ~Fail(t)
  BY <1>2, GoesOnSourced, CommitSourced DEF Walk
<1> QED
  BY <1>1, <1>2

LEMMA InitSourced == Init => CInv
<1> SUFFICES ASSUME Init PROVE CInv
  OBVIOUS
<1>1. SInv
  BY InitSettled
<1>2. /\ Now.source = source /\ Held(Now) = {}
      /\ Now.current = SourceData /\ Now.analyses = <<>>
  BY NowFields DEF Init, Held
<1>3. DataIs(Now, {}, SourceData) /\ AnalysesAre(Now, {}, <<>>)
  BY <1>2, NothingRun
<1>4. Sourced(Now)
  BY <1>2, <1>3 DEF Sourced
<1>5. \A t \in Threads : call[t].pc = "idle"
  BY DEF Init
<1> QED
  BY <1>1, <1>4, <1>5 DEF CInv, CallSourced, CallValued

LEMMA NextSourced == OneCaller /\ NoAliasIsNeeded /\ CInv /\ [Next]_vars => CInv'
<1> SUFFICES ASSUME OneCaller, NoAliasIsNeeded, CInv, [Next]_vars PROVE CInv'
  OBVIOUS
<1>1. SInv'
  BY NextSettled DEF CInv
<1>2. ASSUME NEW t \in Threads, CallSourced(Now', call'[t]) PROVE CInv'
  BY <1>1, <1>2 DEF CInv, OneCaller
<1>3. CASE UNCHANGED <<pipeline, call>>
  <2>1. Now' = Now /\ call' = call
    BY <1>3 DEF pipeline, Now
  <2> QED
    BY <1>1, <2>1 DEF CInv
<1>4. ASSUME NEW t \in Threads, Walk(t) PROVE CInv'
  BY <1>2, <1>4, WalkSourcedOn
<1>5. ASSUME NEW t \in Threads, NEW d \in Ids \union {NoOne}, Recompute(t, d) PROVE CInv'
  BY <1>2, <1>5, RecomputeSourced
<1>6. ASSUME NEW t \in Threads, NEW x, ReplaceSourceDataset(t, x) \/ Remove(t, x) PROVE CInv'
  BY <1>2, <1>6, ReplaceRemoveSourced
<1>7. ASSUME NEW t \in Threads, NEW s \in Ids, NEW p \in ParamsOf(s),
             Add(t, s, p) \/ EditParams(t, s, p)
      PROVE  CInv'
  BY <1>2, <1>7, AddSourced, EditSourced
<1>8. ASSUME NEW t \in Threads, NEW s \in Ids, NEW p \in ParamsOf(s), NEW i \in 1..Len(steps),
             InsertAfter(t, i, s, p) \/ InsertAfterAndRecompute(t, i, s, p)
      PROVE  CInv'
  BY <1>2, <1>8, AddSourced, InsertSourced
<1> QED
  BY <1>3, <1>4, <1>5, <1>6, <1>7, <1>8 DEF Next, vars, FileChanges

LEMMA SourcedAlways ==
  ASSUME OneCaller, NoAliasIsNeeded
  PROVE  Spec => []CInv
<1>1. CInv /\ [Next]_vars => CInv'
  BY NextSourced
<1> QED
  BY InitSourced, <1>1, PTL DEF Spec

------------------------------------------------------------------------------
(* The properties: the same said by positions in the list.                   *)

\* The computed ones of the first n steps, the last of them that is in C, and its result.
Computed(n) == {steps[i] : i \in {j \in Cached : j <= n}}
LastIn(n, C) ==
  LET P == {i \in Cached : i <= n /\ steps[i] \in C} IN {i \in P : \A j \in P : j <= i}
TermAt(S) == IF S = {} THEN Given(source) ELSE results[steps[CHOOSE i \in S : TRUE]].term

LEMMA TermAtLast ==
  ASSUME steps \in Seq(Ids), Distinct(steps), NEW n, NEW C, NEW t,
         From(Now, Computed(n) \intersect C, t)
  PROVE  /\ TermAt(LastIn(n, C)) = t
         /\ LastIn(n, C) # {} <=> Computed(n) \intersect C # {}
<1> DEFINE P == {i \in Cached : i <= n /\ steps[i] \in C}
           L == LastIn(n, C)
<1>1. Cached \subseteq 1..Len(steps) /\ Len(steps) \in Nat
  BY DEF Cached
<1>2. L = {i \in P : \A j \in P : j <= i}
  BY DEF LastIn
<1>3. Computed(n) \intersect C = {steps[i] : i \in P}
  BY DEF Computed
<1> HIDE DEF L, P
<1>4. P \subseteq 1..Len(steps)
  BY <1>1 DEF P
<1>5. CASE Computed(n) \intersect C = {}
  <2>1. P = {}
    BY <1>3, <1>5
  <2>2. L = {} /\ t = Given(source)
    BY <1>2, <1>5, <2>1, NowFields DEF From
  <2> QED
    BY <1>5, <2>2 DEF TermAt, L
<1>6. CASE Computed(n) \intersect C # {}
  <2>1. PICK v \in Computed(n) \intersect C :
          LastOne(Now, Computed(n) \intersect C, v) /\ t = results[v].term
    BY <1>6, NowFields DEF From
  <2>2. PICK i \in P : v = steps[i]
    BY <1>3, <2>1
  <2>3. ASSUME NEW j \in P PROVE j <= i
    <3>1. steps[j] = v \/ Comes(steps, steps[j], v)
      BY <1>3, <2>1, NowFields DEF LastOne
    <3>2. CASE steps[j] = v
      <4>1. i = j
        BY <1>4, <2>2, <3>2 DEF Distinct
      <4> QED
        BY <1>4, <4>1
    <3>3. CASE Comes(steps, steps[j], v)
      <4>1. PICK a \in 1..Len(steps), b \in 1..Len(steps) :
              a < b /\ steps[a] = steps[j] /\ steps[b] = v
        BY <3>3 DEF Comes
      <4>2. a = j /\ b = i
        BY <1>4, <2>2, <4>1 DEF Distinct
      <4> QED
        BY <1>4, <4>1, <4>2
    <3> QED
      BY <3>1, <3>2, <3>3
  <2>4. ASSUME NEW j \in P, \A k \in P : k <= j PROVE j = i
    <3>1. j <= i /\ i <= j
      BY <2>3, <2>4
    <3> QED
      BY <1>4, <3>1
  <2>5. L = {i}
    BY <1>2, <2>2, <2>3, <2>4
  <2>6. (CHOOSE j \in L : TRUE) = i
    BY <2>5
  <2>7. L # {}
    BY <2>5
  <2> HIDE DEF L
  <2>8. TermAt(L) = t
    BY <2>1, <2>2, <2>6, <2>7 DEF TermAt
  <2> QED
    BY <1>6, <2>7, <2>8 DEF L
<1> QED
  BY <1>5, <1>6

\* DataAfter and AnalysesAfter in these terms.
LEMMA AfterIs ==
  ASSUME NEW n
  PROVE  /\ \A k : k \in DOMAIN DataAfter(n) <=> IsColumn(Now, Computed(n), k)
         /\ \A k \in DOMAIN DataAfter(n) :
              DataAfter(n)[k] = [col  |-> TermAt(LastIn(n, Cols(Now, k))),
                                 meta |-> TermAt(LastIn(n, Vars(Now, k)))]
         /\ DataAfter(n) = [k \in DOMAIN DataAfter(n) |-> DataAfter(n)[k]]
         /\ \A k : k \in DOMAIN AnalysesAfter(n) <=>
                     k \in Keys /\ LastIn(n, Ans(Now, k)) # {}
         /\ \A k \in DOMAIN AnalysesAfter(n) :
              AnalysesAfter(n)[k] = results[steps[CHOOSE i \in LastIn(n, Ans(Now, k)) : TRUE]].term
         /\ AnalysesAfter(n) = [k \in DOMAIN AnalysesAfter(n) |-> AnalysesAfter(n)[k]]
<1>1. \A i \in Cached : steps[i] \in DOMAIN results
  BY DEF Cached
<1> DEFINE K ==
             Columns[source] \union UNION {results[steps[i]].cols : i \in {j \in Cached : j <= n}}
           A == {x \in Keys : LastIn(n, Ans(Now, x)) # {}}
           Last(P) == {i \in P : \A j \in P : j <= i}
           C(k) == {i \in Cached : i <= n /\ k \in results[steps[i]].cols}
           V(k) == {i \in Cached : i <= n /\ k \in results[steps[i]].vars}
           N(k) == {i \in Cached : i <= n /\ steps[i] \in Analyses
                                   /\ k \in Def[steps[i]][params[steps[i]]].writes
                                              \union Aliases[steps[i]]}
<1>2. ASSUME NEW k
      PROVE  /\ LastIn(n, Cols(Now, k)) = Last(C(k)) /\ LastIn(n, Vars(Now, k)) = Last(V(k))
             /\ LastIn(n, Ans(Now, k)) = Last(N(k))
  <2>1. C(k) = {i \in Cached : i <= n /\ steps[i] \in Cols(Now, k)}
    BY <1>1, NowFields DEF Cols
  <2>2. V(k) = {i \in Cached : i <= n /\ steps[i] \in Vars(Now, k)}
    BY <1>1, NowFields DEF Vars
  <2>3. N(k) = {i \in Cached : i <= n /\ steps[i] \in Ans(Now, k)}
    BY <1>1, NowFields DEF Ans, AnalysisKeys
  <2> HIDE DEF C, V, N
  <2> QED
    BY <2>1, <2>2, <2>3 DEF LastIn
<1>3. DOMAIN DataAfter(n) = K /\ DataAfter(n) = [k \in K |-> DataAfter(n)[k]]
  BY DEF DataAfter, LastOf
<1>4. ASSUME NEW k \in DOMAIN DataAfter(n)
      PROVE  DataAfter(n)[k] = [col  |-> TermAt(LastIn(n, Cols(Now, k))),
                                meta |-> TermAt(LastIn(n, Vars(Now, k)))]
  <2>1. DataAfter(n)[k] = [col |-> TermAt(Last(C(k))), meta |-> TermAt(Last(V(k)))]
    BY DEF DataAfter, LastOf, TermAt
  <2> HIDE DEF Last, C, V
  <2> QED
    BY <1>2, <2>1
<1>5. ASSUME NEW k PROVE k \in DOMAIN AnalysesAfter(n) <=> k \in A
  <2>1. k \in DOMAIN AnalysesAfter(n) <=> k \in Keys /\ Last(N(k)) # {}
    BY DEF AnalysesAfter, LastOf
  <2> HIDE DEF Last, N
  <2> QED
    BY <1>2, <2>1
<1>6. ASSUME NEW k \in DOMAIN AnalysesAfter(n)
      PROVE  AnalysesAfter(n)[k]
               = results[steps[CHOOSE i \in LastIn(n, Ans(Now, k)) : TRUE]].term
  <2>1. AnalysesAfter(n)[k] = results[steps[CHOOSE i \in Last(N(k)) : TRUE]].term
    BY DEF AnalysesAfter, LastOf
  <2>2. Last(N(k)) = LastIn(n, Ans(Now, k))
    BY <1>2
  <2> HIDE DEF Last, N
  <2> QED
    BY <2>1, <2>2
<1>7. AnalysesAfter(n) = [k \in DOMAIN AnalysesAfter(n) |-> AnalysesAfter(n)[k]]
  <2> DEFINE E == {x \in Keys : Last(N(x)) # {}}
             F(k) == results[steps[CHOOSE i \in Last(N(k)) : TRUE]].term
  <2>1. AnalysesAfter(n) = [k \in E |-> F(k)]
    BY DEF AnalysesAfter, LastOf
  <2> HIDE DEF E, F
  <2> QED
    BY <2>1
<1>8. \A k : k \in K <=> IsColumn(Now, Computed(n), k)
  BY <1>1, NowFields DEF IsColumn, Computed, Cols
<1> HIDE DEF K
<1> QED
  BY <1>3, <1>4, <1>5, <1>6, <1>7, <1>8

\* The dataset and the analyses after n steps are the ones DataIs and AnalysesAre speak of.
LEMMA AfterHolds ==
  ASSUME PipeOK(Now), Distinct(steps), NEW n
  PROVE  /\ \A ds : DataIs(Now, Computed(n), ds) => ds = DataAfter(n)
         /\ \A an : AnalysesAre(Now, Computed(n), an) => an = AnalysesAfter(n)
         /\ \A k, v : Value(Now, Computed(n), k, v) =>
              /\ k \in DOMAIN DataAfter(n) \union DOMAIN AnalysesAfter(n)
              /\ v = Lookup(k, DataAfter(n), AnalysesAfter(n))
<1> DEFINE B == Computed(n)
           ds0 == DataAfter(n)
           an0 == AnalysesAfter(n)
<1>1. steps \in Seq(Ids) /\ DOMAIN results \subseteq Ids /\ \A s \in Ids : params[s] \in ParamsOf(s)
  BY NowOK DEF ResultsOK
<1>2. /\ \A k : k \in DOMAIN ds0 <=> IsColumn(Now, B, k)
      /\ \A k \in DOMAIN ds0 : ds0[k] = [col  |-> TermAt(LastIn(n, Cols(Now, k))),
                                         meta |-> TermAt(LastIn(n, Vars(Now, k)))]
      /\ ds0 = [k \in DOMAIN ds0 |-> ds0[k]]
      /\ \A k : k \in DOMAIN an0 <=> k \in Keys /\ LastIn(n, Ans(Now, k)) # {}
      /\ \A k \in DOMAIN an0 :
           an0[k] = results[steps[CHOOSE i \in LastIn(n, Ans(Now, k)) : TRUE]].term
      /\ an0 = [k \in DOMAIN an0 |-> an0[k]]
  BY AfterIs
<1> HIDE DEF B, ds0, an0
<1>3. ASSUME NEW C, NEW x, From(Now, B \intersect C, x)
      PROVE  TermAt(LastIn(n, C)) = x /\ (LastIn(n, C) # {} <=> B \intersect C # {})
  BY <1>1, <1>3, TermAtLast DEF B
<1>4. ASSUME NEW k, NEW v, IsColumn(Now, B, k), Value(Now, B, k, v) PROVE v = ds0[k]
  <2>1. /\ v = [col |-> v.col, meta |-> v.meta]
        /\ From(Now, B \intersect Cols(Now, k), v.col)
        /\ From(Now, B \intersect Vars(Now, k), v.meta)
    BY <1>4 DEF Value
  <2>2. TermAt(LastIn(n, Cols(Now, k))) = v.col /\ TermAt(LastIn(n, Vars(Now, k))) = v.meta
    BY <1>3, <2>1
  <2> QED
    BY <1>2, <1>4, <2>1, <2>2
<1>5. ASSUME NEW k, NEW x, B \intersect Ans(Now, k) # {}, From(Now, B \intersect Ans(Now, k), x)
      PROVE  k \in DOMAIN an0 /\ an0[k] = x
  <2>1. TermAt(LastIn(n, Ans(Now, k))) = x /\ LastIn(n, Ans(Now, k)) # {}
    BY <1>3, <1>5
  <2>2. PICK a \in DOMAIN results : k \in AnalysisKeys(Now, a)
    BY <1>5, NowFields DEF Ans
  <2>3. k \in Keys
    BY <1>1, <2>2, StepsAssumption, NowFields DEF AnalysisKeys
  <2> QED
    BY <1>2, <2>1, <2>3 DEF TermAt
<1>6. ASSUME NEW k, k \in DOMAIN an0, B \intersect Ans(Now, k) = {} PROVE FALSE
  <2>1. From(Now, B \intersect Ans(Now, k), Given(source))
    BY <1>6, NowFields DEF From
  <2> QED
    BY <1>2, <1>3, <1>6, <2>1
<1>7. ASSUME NEW ds, DataIs(Now, B, ds) PROVE ds = ds0
  <2>1. DOMAIN ds = DOMAIN ds0
    BY <1>2, <1>7 DEF DataIs
  <2>2. \A k \in DOMAIN ds : ds[k] = ds0[k]
    BY <1>4, <1>7 DEF DataIs
  <2>3. ds = [k \in DOMAIN ds |-> ds[k]]
    BY <1>7 DEF DataIs
  <2> QED
    BY <1>2, <2>1, <2>2, <2>3
<1>8. ASSUME NEW an, AnalysesAre(Now, B, an) PROVE an = an0
  <2>1. /\ an = [k \in DOMAIN an |-> an[k]]
        /\ \A k : k \in DOMAIN an <=> B \intersect Ans(Now, k) # {}
        /\ \A k \in DOMAIN an : From(Now, B \intersect Ans(Now, k), an[k])
    BY <1>8 DEF AnalysesAre
  <2>2. DOMAIN an = DOMAIN an0
    BY <1>5, <1>6, <2>1
  <2>3. \A k \in DOMAIN an : an[k] = an0[k]
    BY <1>5, <2>1
  <2> QED
    BY <1>2, <2>1, <2>2, <2>3
<1>9. ASSUME NEW k, NEW v, Value(Now, B, k, v)
      PROVE  k \in DOMAIN ds0 \union DOMAIN an0 /\ v = Lookup(k, ds0, an0)
  <2>1. CASE IsColumn(Now, B, k)
    BY <1>2, <1>4, <1>9, <2>1 DEF Lookup
  <2>2. CASE ~IsColumn(Now, B, k)
    <3>1. PICK a \in B \intersect Ans(Now, k) :
            LastOne(Now, B \intersect Ans(Now, k), a) /\ v = Whole(results[a].term)
      BY <1>9, <2>2, NowFields DEF Value
    <3>2. From(Now, B \intersect Ans(Now, k), results[a].term)
      BY <3>1, NowFields DEF From
    <3>3. k \in DOMAIN an0 /\ an0[k] = results[a].term
      BY <1>5, <3>1, <3>2
    <3> QED
      BY <1>2, <2>2, <3>1, <3>3 DEF Lookup
  <2> QED
    BY <2>1, <2>2
<1> QED
  BY <1>7, <1>8, <1>9 DEF B, ds0, an0

LEMMA ComputedIs ==
  ASSUME steps \in Seq(Ids), Distinct(steps)
  PROVE  /\ \A i \in Cached : Computed(i - 1) = Before(Now, steps[i])
         /\ Computed(Len(steps)) = Held(Now)
<1>1. Cached = {i \in 1..Len(steps) : steps[i] \in DOMAIN results} /\ Len(steps) \in Nat
  BY DEF Cached
<1>2. ASSUME NEW i \in Cached PROVE Computed(i - 1) = Before(Now, steps[i])
  <2>1. ASSUME NEW w \in Computed(i - 1) PROVE w \in Before(Now, steps[i])
    <3>1. PICK j \in Cached : j <= i - 1 /\ w = steps[j]
      BY DEF Computed
    <3>2. j \in 1..Len(steps) /\ i \in 1..Len(steps) /\ j < i
      BY <1>1, <3>1
    <3>3. Comes(steps, w, steps[i])
      BY <3>1, <3>2 DEF Comes
    <3> QED
      BY <1>1, <3>1, <3>3, NowFields DEF Before
  <2>2. ASSUME NEW w \in Before(Now, steps[i]) PROVE w \in Computed(i - 1)
    <3>1. w \in DOMAIN results /\ Comes(steps, w, steps[i])
      BY NowFields DEF Before
    <3>2. PICK a \in 1..Len(steps), b \in 1..Len(steps) :
            a < b /\ steps[a] = w /\ steps[b] = steps[i]
      BY <3>1 DEF Comes
    <3>3. b = i
      BY <1>1, <3>2 DEF Distinct
    <3>4. a \in Cached /\ a <= i - 1
      BY <1>1, <3>1, <3>2, <3>3
    <3> QED
      BY <3>2, <3>4 DEF Computed
  <2> QED
    BY <2>1, <2>2
<1>3. Computed(Len(steps)) = Held(Now)
  <2>1. ASSUME NEW w \in Held(Now) PROVE w \in Computed(Len(steps))
    <3>1. PICK i \in 1..Len(steps) : w = steps[i]
      BY NowFields DEF Held, StepsOf, Elements
    <3>2. w \in DOMAIN results
      BY NowFields DEF Held
    <3> QED
      BY <1>1, <3>1, <3>2 DEF Computed
  <2>2. ASSUME NEW w \in Computed(Len(steps)) PROVE w \in Held(Now)
    <3>1. PICK i \in 1..Len(steps) : w = steps[i] /\ w \in DOMAIN results
      BY <1>1 DEF Computed
    <3> QED
      BY <3>1, NowFields DEF Held, StepsOf, Elements
  <2> QED
    BY <2>1, <2>2
<1> QED
  BY <1>2, <1>3

\* Every cached result is what a recomputation from scratch would give ...
LEMMA CoherentAtRest ==
  ASSUME PipeOK(Now), Noted(Now), Sourced(Now), NEW i \in Cached
  PROVE  LET s == steps[i]
             ds == DataAfter(i - 1)
             an == AnalysesAfter(i - 1)
         IN  /\ Def[s][params[s]].needs \subseteq DOMAIN ds \union DOMAIN an
             /\ results[s] = Compute(s, results[s].term.from, ds, an)
<1> DEFINE s == steps[i]
           ds == DataAfter(i - 1)
           an == AnalysesAfter(i - 1)
           r == results[s]
           f == r.term.from
           v == Compute(s, f, ds, an)
           of == [k \in Def[s][params[s]].needs |-> Lookup(k, ds, an)]
<1>1. steps \in Seq(Ids) /\ Distinct(steps)
  BY NowOK, NowFields DEF Noted, Filed
<1>2. s \in Held(Now)
  <2>1. Len(steps) \in Nat /\ DOMAIN steps = 1..Len(steps)
    BY <1>1
  <2> QED
    BY <2>1, NowFields DEF Cached, Held, StepsOf, Elements
<1>3. Computed(i - 1) = Before(Now, s)
  BY <1>1, ComputedIs
<1>4. Valued(Now, s) /\ Shaped(Now, s)
  BY <1>2 DEF Sourced, Noted
<1>5. \A k, x : Value(Now, Computed(i - 1), k, x) =>
        k \in DOMAIN ds \union DOMAIN an /\ x = Lookup(k, ds, an)
  BY <1>1, AfterHolds
<1> HIDE DEF ds, an, s
<1>6. ASSUME NEW k \in Def[s][params[s]].needs
      PROVE  k \in DOMAIN ds \union DOMAIN an /\ r.term.of[k] = Lookup(k, ds, an)
  <2>1. Value(Now, Computed(i - 1), k, r.term.of[k])
    BY <1>3, <1>4, NowFields DEF Valued, Needs
  <2> QED
    BY <1>5, <2>1
<1>7. r.term.of = of
  <2>1. r.term.of = [k \in Def[s][params[s]].needs |-> r.term.of[k]]
    BY <1>4, NowFields DEF Shaped, Needs
  <2> QED
    BY <1>6, <2>1
<1>8. /\ r.cols = IF s \in Analyses THEN {} ELSE Writes(s, f)
      /\ r.vars = r.cols \union Meta(s)
      /\ r = [cols |-> r.cols, vars |-> r.vars, term |-> r.term]
      /\ r.term = [by |-> s, params |-> params[s], from |-> f, of |-> of]
      /\ f = IF s \in Imports THEN f ELSE NoOne
  BY <1>4, <1>7, NowFields DEF Shaped, Writes, Meta
<1>9. /\ v.cols = IF s \in Analyses THEN {} ELSE Writes(s, f)
      /\ v.vars = v.cols \union Meta(s)
      /\ v = [cols |-> v.cols, vars |-> v.vars, term |-> v.term]
      /\ v.term = [by |-> s, params |-> params[s],
                   from |-> IF s \in Imports THEN f ELSE NoOne, of |-> of]
  BY ComputeFields
<1>10. r = v
  <2> HIDE DEF r, v, f, of
  <2>1. r.cols = v.cols /\ r.vars = v.vars /\ r.term = v.term
    BY <1>8, <1>9
  <2> QED
    BY <1>8, <1>9, <2>1
<1> QED
  BY <1>6, <1>10 DEF s, ds, an

\* ... and what is shown is what the cached results give.
LEMMA PublishedAtRest ==
  ASSUME PipeOK(Now), Noted(Now), Sourced(Now)
  PROVE  /\ current = DataAfter(Len(steps))
         /\ analyses = AnalysesAfter(Len(steps))
<1>1. steps \in Seq(Ids) /\ Distinct(steps)
  BY NowOK, NowFields DEF Noted, Filed
<1>2. Computed(Len(steps)) = Held(Now)
  BY <1>1, ComputedIs
<1>3. /\ DataIs(Now, Computed(Len(steps)), current)
      /\ AnalysesAre(Now, Computed(Len(steps)), analyses)
  BY <1>2, NowFields DEF Sourced
<1> QED
  BY <1>1, <1>3, AfterHolds

LEMMA AtRest ==
  ASSUME OneCaller, CInv, AllIdle
  PROVE  PipeOK(Now) /\ Noted(Now) /\ Sourced(Now)
BY CalledIdle DEF AllIdle, OneCaller, Settled

\* When one caller at a time uses the engine and no step needs an analysis by the id of the
\* analysis step, every cached result of a pipeline at rest is the one that a recomputation
\* from scratch would give (CachesCoherent): whatever was added, inserted, removed, edited or
\* replaced, whichever calls failed and however the file changed, the dirty-step search has
\* reached every step whose inputs changed.
THEOREM CachesStayCoherent ==
  ASSUME OneCaller, NoAliasIsNeeded
  PROVE  Spec => []CachesCoherent
<1>1. CInv => CachesCoherent
  BY AtRest, CoherentAtRest DEF CachesCoherent
<1> QED
  BY SourcedAlways, <1>1, PTL

\* Under the same conditions the dataset and the analyses that a pipeline at rest shows are
\* those of its cached results (PublishedIsCached): nothing of a removed step, of an older
\* walk or of a failed one is left in them.
THEOREM PublishedStaysCached ==
  ASSUME OneCaller, NoAliasIsNeeded
  PROVE  Spec => []PublishedIsCached
<1>1. CInv => PublishedIsCached
  BY AtRest, PublishedAtRest DEF PublishedIsCached
<1> QED
  BY SourcedAlways, <1>1, PTL

==============================================================================
