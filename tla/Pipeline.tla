------------------------------ MODULE Pipeline ------------------------------
(***************************************************************************)
(* The analysis pipeline: an ordered list of steps, the results cached for *)
(* them, and the incremental recomputation that keeps the two together.    *)
(*                                                                         *)
(*   src/src/modori/core/pipeline.py   Pipeline                            *)
(*   src/src/modori/core/model.py      Step, Dataset.with_updates          *)
(*                                                                         *)
(* A method of Pipeline is a call of a thread: it changes the steps, then  *)
(* walks over them (_recompute_dirty), one action per step computed, and   *)
(* at the end publishes what it computed or undoes what it changed.  The   *)
(* engine itself takes no lock; PipelineOps lets two threads in.           *)
(*                                                                         *)
(* Data: a value is the term of how it was computed (which step, which     *)
(* parameters, from which values), so that two results are equal when and  *)
(* only when they were computed from the same inputs.  A step is its id;   *)
(* what it reads, writes and computes is looked up in Def.  step_results   *)
(* is always a copy of _result_cache and has no variable of its own.  Step *)
(* results have the shape their step declares (_validate_step_result),     *)
(* which the step classes of steps/*.py ensure.                            *)
(***************************************************************************)
EXTENDS Naturals, Sequences, FiniteSets

CONSTANTS
  Ids,        \* step ids
  Def,        \* Def[id][params]: what the step reads, needs and writes, the steps
              \* it names as inputs (input_step_ids), and whether it computes
  Aliases,    \* Aliases[id]: the keys id and "analysis:id" of an analysis step
  Imports,    \* steps whose writes are known only from the data file
  Analyses,   \* steps with produces_analysis
  Keys,       \* names of columns and of analysis results
  Columns,    \* Columns[x]: the columns of a source dataset or data file x
  Sources,    \* source datasets
  Files,      \* states of the imported file on disk
  Gone,       \* the state of a file that cannot be read
  Inserted,   \* steps that callers insert_after without a recompute: only steps
              \* whose keys no computed step reads, since nothing marks it dirty
  Threads     \* callers

NoOne == "none"    \* dirty_step_id None, and the file a step that reads none has read
ParamsOf(s) == DOMAIN Def[s]

ASSUME StepsAssumption ==
  /\ Imports \subseteq Ids /\ Analyses \subseteq Ids /\ Inserted \subseteq Ids
  /\ Imports \intersect Analyses = {}
  /\ NoOne \notin Ids /\ Sources \intersect Files = {}
  /\ \A x \in Sources \union Files : Columns[x] \subseteq Keys
  /\ \A s \in Ids :
       /\ Aliases[s] \subseteq Keys
       /\ ParamsOf(s) # {}
       /\ \A p \in ParamsOf(s) :
            /\ Def[s][p].reads \subseteq Keys /\ Def[s][p].needs \subseteq Keys
            /\ Def[s][p].writes \subseteq Keys /\ Def[s][p].meta \subseteq Keys
            /\ Def[s][p].inputs \subseteq Ids

\* What the step classes declare: a step reads what it needs and needs the columns whose
\* metadata it replaces; an import reads nothing, and no metadata is of an analysis.
ASSUME ReadsAssumption ==
  \A s \in Ids : \A p \in ParamsOf(s) :
    /\ Def[s][p].meta \subseteq Def[s][p].needs
    /\ Def[s][p].needs \subseteq Def[s][p].reads
    /\ s \in Imports => Def[s][p].reads = {} /\ Def[s][p].inputs = {}
    /\ \A a \in Analyses : \A q \in ParamsOf(a) :
         Def[s][p].meta \intersect (Def[a][q].writes \union Aliases[a]) = {}

\* A column of a source dataset that a file has too is in every file (imports begin with
\* an empty dataset).  A key of a step that is inserted without a recompute is needed by
\* no step, or comes from this step only.
ASSUME OriginsAssumption ==
  /\ \A x \in Sources, f \in Files \ {Gone}, g \in Files \ {Gone} :
       Columns[x] \intersect Columns[f] \subseteq Columns[g]
  /\ Inserted \intersect Imports = {}
  /\ \A s \in Inserted : \A p \in ParamsOf(s) :
       \A k \in Def[s][p].writes \union Def[s][p].meta :
         \/ \A u \in Ids \ {s} : \A q \in ParamsOf(u) : k \notin Def[u][q].needs
         \/ /\ \A x \in Sources \union Files : k \notin Columns[x]
            /\ \A u \in Ids \ {s} : \A q \in ParamsOf(u) :
                 k \notin Def[u][q].writes \union Def[u][q].meta

VARIABLES
  file,      \* the imported file as it is on disk now
  source,    \* source_dataset
  steps,     \* the list of steps
  params,    \* params of every step
  results,   \* _result_cache (and step_results)
  owned,     \* _writes_cache
  dirtyKeys, \* _dirty_keys_cache
  current,   \* current_dataset
  analyses,  \* analysis_objects
  call       \* what each thread is doing inside the pipeline

pipeline == <<source, steps, params, results, owned, dirtyKeys, current, analyses>>
vars == <<file, pipeline, call>>

StepSet == {steps[i] : i \in DOMAIN steps}

------------------------------------------------------------------------------
(* Values, datasets and steps.                                             *)

\* The value of a key: where its column and its Variable metadata come from.
Whole(term) == [col |-> term, meta |-> term]
Given(x)    == [by |-> x, params |-> NoOne, from |-> NoOne, of |-> <<>>]
SourceData  == [k \in Columns[source] |-> Whole(Given(source))]

\* Step.writes(): an import reads the header of the file for it.
Writes(s, f) == IF s \in Imports THEN Columns[f] ELSE Def[s][params[s]].writes
Meta(s)      == Def[s][params[s]].meta
Readable(s, f) == s \in Imports => f # Gone

\* The keys a step owns: those it writes, as "key" and, where it replaces only
\* the metadata of a column, as "metadata".
Owned(s, keys) ==
  ({"key"} \X (keys \union (IF s \in Analyses THEN Aliases[s] ELSE {})))
    \union ({"metadata"} \X Meta(s))
Declared(s) == Owned(s, Writes(s, file))

\* Mutant: only metadata owners are compared.
MutUnique(S, w) ==
  \A s, t \in S : s = t \/ w[s] \intersect w[t] \subseteq {"key"} \X Keys

Unique(S, w) == \A s, t \in S : s = t \/ w[s] \intersect w[t] = {}

\* Step.compute in a dataset and a set of analyses: whether it raises, and what
\* it returns.
CanCompute(s, ds, an) ==
  /\ Readable(s, file)
  /\ Def[s][params[s]].ok
  /\ Def[s][params[s]].needs \subseteq DOMAIN ds \union DOMAIN an

Lookup(k, ds, an) == IF k \in DOMAIN ds THEN ds[k] ELSE Whole(an[k])

Compute(s, f, ds, an) ==
  LET cols == IF s \in Analyses THEN {} ELSE Writes(s, f)
  IN  [cols |-> cols,
       vars |-> cols \union Meta(s),
       term |-> [by |-> s, params |-> params[s],
                 from |-> IF s \in Imports THEN f ELSE NoOne,
                 of |-> [k \in Def[s][params[s]].needs |-> Lookup(k, ds, an)]]]

\* Mutant: metadata comes only with its column.
MutWithUpdates(ds, r) ==
  [k \in DOMAIN ds \union r.vars |->
     IF k \in r.cols THEN Whole(r.term) ELSE ds[k]]

\* Dataset.with_updates
WithUpdates(ds, r) ==
  [k \in DOMAIN ds \union r.vars |->
     [col  |-> IF k \in r.cols THEN r.term ELSE ds[k].col,
      meta |-> IF k \in r.vars THEN r.term ELSE ds[k].meta]]

\* _apply_analysis_writes
WithAnalysis(an, s, r) ==
  LET keys == IF s \in Analyses THEN Writes(s, file) \union Aliases[s] ELSE {}
  IN  [k \in DOMAIN an \union keys |-> IF k \in keys THEN r.term ELSE an[k]]

\* Mutant: every step's id is a key, not only an analysis step's.
MutResultKeys(s, r) == r.vars \union {s} \union Aliases[s]

\* _result_dirty_keys
ResultKeys(s, r) ==
  r.vars \union (IF s \in Analyses THEN Writes(s, file) \union Aliases[s] ELSE {})

\* The keys the dirty-step search knows before a step has run.
CachedKeys(s) == IF s \in DOMAIN dirtyKeys THEN dirtyKeys[s] ELSE {}

\* Mutant: metadata writes do not count.
MutStaticKeys(s) == Writes(s, file)

StaticKeys(s) == Writes(s, file) \union Meta(s)

\* Mutant: the keys the dirty step wrote before the edit are forgotten.
MutDirtySteps(d, keys) ==
  IF d = NoOne THEN StepSet
  ELSE LET Reached(D) ==
             {t \in StepSet :
                \/ Def[t][params[t]].inputs \intersect D # {}
                \/ Def[t][params[t]].reads \intersect UNION {StaticKeys(u) : u \in D} # {}}
           round[n \in 0..Len(steps)] ==
             IF n = 0 THEN {d} ELSE round[n - 1] \union Reached(round[n - 1])
       IN  round[Len(steps)]

\* _dirty_step_ids: the dirty step, and round by round every step that reads what a
\* dirty one writes, or wrote.
DirtySteps(d, keys) ==
  IF d = NoOne THEN StepSet
  ELSE LET Output(D)  == keys \union CachedKeys(d) \union UNION {StaticKeys(t) : t \in D}
           Reached(D) == {t \in StepSet : \/ Def[t][params[t]].inputs \intersect D # {}
                                          \/ Def[t][params[t]].reads
                                               \intersect Output(D) # {}}
           round[n \in 0..Len(steps)] ==
             IF n = 0 THEN {d} ELSE round[n - 1] \union Reached(round[n - 1])
       IN  round[Len(steps)]

Put(f, x, v) == [y \in DOMAIN f \union {x} |-> IF y = x THEN v ELSE f[y]]
Without(f, S) == [y \in DOMAIN f \ S |-> f[y]]

------------------------------------------------------------------------------
(* Calls.                                                                  *)

\* What a thread found when its call began.
Now == [source |-> source, steps |-> steps, params |-> params, results |-> results,
        owned |-> owned, dirtyKeys |-> dirtyKeys, current |-> current,
        analyses |-> analyses]

Idle(t) == call[t].pc \in {"idle", "failed"}

\* A call that will recompute from step d, with more dirty keys; if it fails it
\* restores the named attributes, and if it succeeds it goes on with next.
Begin(t, d, keys, restores, next) ==
  call' = [call EXCEPT ![t] = [pc |-> "begin", dirty |-> d, keys |-> keys,
                               restores |-> restores, next |-> next, before |-> Now]]

Restored(t, name, now) == IF name \in call[t].restores THEN call[t].before[name] ELSE now

\* The call raises.
Fail(t) ==
  /\ source'    = Restored(t, "source", source)
  /\ steps'     = Restored(t, "steps", steps)
  /\ params'    = Restored(t, "params", params)
  /\ results'   = Restored(t, "results", results)
  /\ owned'     = Restored(t, "owned", owned)
  /\ dirtyKeys' = Restored(t, "dirtyKeys", dirtyKeys)
  /\ current'   = Restored(t, "current", current)
  /\ analyses'  = Restored(t, "analyses", analyses)
  /\ call' = [call EXCEPT ![t] = [pc |-> "failed"]]
  /\ UNCHANGED file

Caches == {"results", "owned", "dirtyKeys"}
Snapshot == Caches \union {"source", "steps", "current", "analyses"}

------------------------------------------------------------------------------
(* The initial state: Pipeline.__init__.                                   *)
Init ==
  /\ file \in Files \ {Gone}
  /\ source \in Sources
  /\ steps = <<>>
  /\ params \in [Ids -> UNION {ParamsOf(s) : s \in Ids}]
  /\ \A s \in Ids : params[s] = CHOOSE p \in ParamsOf(s) : TRUE
  /\ results = <<>> /\ owned = <<>> /\ dirtyKeys = <<>>
  /\ current = SourceData
  /\ analyses = <<>>
  /\ call = [t \in Threads |-> [pc |-> "idle"]]

------------------------------------------------------------------------------
(* The walk: _recompute_dirty.                                             *)

\* _preflight_write_sets: the steps' writes as far as they are known before
\* anything is computed.
Preflight(D) ==
  LET Known(s) == s \notin D /\ s \in DOMAIN owned
  IN  /\ \A s \in StepSet : Known(s) \/ Readable(s, file)
      /\ Unique(StepSet, [s \in StepSet |-> IF Known(s) THEN owned[s] ELSE Declared(s)])

WalkBegin(t) ==
  LET c == call[t]
      D == DirtySteps(c.dirty, c.keys)
  IN  /\ c.pc = "begin"
      /\ IF /\ c.dirty \in StepSet \union {NoOne}
            /\ c.dirty = NoOne \/ Readable(c.dirty, file)
            /\ Preflight(D)
           THEN /\ call' = [call EXCEPT ![t] =
                     [pc |-> "walk", dirty |-> D, todo |-> steps, ds |-> SourceData,
                      an |-> <<>>, results |-> results, owned |-> owned,
                      dirtyKeys |-> dirtyKeys, restores |-> c.restores,
                      next |-> c.next, before |-> c.before]]
                /\ UNCHANGED <<file, pipeline>>
           ELSE Fail(t)

\* The walk takes the next step from its cache.
WalkCached(t) ==
  LET c == call[t]
      s == Head(c.todo)
  IN  /\ c.pc = "walk" /\ c.todo # <<>>
      /\ s \in DOMAIN c.results \ c.dirty
      /\ call' = [call EXCEPT ![t].todo = Tail(@),
                              ![t].ds = WithUpdates(@, c.results[s]),
                              ![t].an = WithAnalysis(@, s, c.results[s])]
      /\ UNCHANGED <<file, pipeline>>

\* The writes of the steps computed so far, and the declared ones of the others.
UniqueNow(res, own) ==
  /\ \A s \in StepSet : s \in DOMAIN res \/ Readable(s, file)
  /\ Unique(StepSet, [s \in StepSet |->
       IF s \notin DOMAIN res THEN Declared(s) ELSE IF s \in DOMAIN own THEN own[s] ELSE {}])

\* The walk computes the next step.
WalkCompute(t) ==
  LET c == call[t]
      s == Head(c.todo)
      r == Compute(s, file, c.ds, c.an)
      res == Put(c.results, s, r)
      own == Put(c.owned, s,
                 Owned(s, IF s \in Imports THEN r.cols ELSE Writes(s, file)))
  IN  /\ c.pc = "walk" /\ c.todo # <<>>
      /\ s \in c.dirty \/ s \notin DOMAIN c.results
      /\ IF CanCompute(s, c.ds, c.an) /\ UniqueNow(res, own)
           THEN /\ call' = [call EXCEPT ![t].todo = Tail(@),
                     ![t].results = res, ![t].owned = own,
                     ![t].dirtyKeys = Put(@, s, ResultKeys(s, r)),
                     ![t].ds = WithUpdates(@, r), ![t].an = WithAnalysis(@, s, r)]
                /\ UNCHANGED <<file, pipeline>>
           ELSE Fail(t)

Ready(t) == call[t].pc = "walk" /\ call[t].todo = <<>>
UniqueAtEnd(t) ==
  Unique(StepSet, [s \in StepSet |->
                     IF s \in DOMAIN call[t].owned THEN call[t].owned[s] ELSE {}])

\* Mutant: analyses of steps that are gone stay.
MutPublish(t) ==
  /\ current'   = call[t].ds
  /\ analyses'  = [k \in DOMAIN analyses \union DOMAIN call[t].an |->
                     IF k \in DOMAIN call[t].an THEN call[t].an[k] ELSE analyses[k]]
  /\ results'   = call[t].results
  /\ owned'     = call[t].owned
  /\ dirtyKeys' = call[t].dirtyKeys
  /\ UNCHANGED <<file, source, params>>

Publish(t) ==
  /\ current'   = call[t].ds
  /\ analyses'  = call[t].an
  /\ results'   = call[t].results
  /\ owned'     = call[t].owned
  /\ dirtyKeys' = call[t].dirtyKeys
  /\ UNCHANGED <<file, source, params>>

\* The end of the walk: everything computed is published at once.
Commit(t) ==
  /\ Ready(t) /\ call[t].next = "return"
  /\ IF UniqueAtEnd(t)
       THEN /\ Publish(t)
            /\ call' = [call EXCEPT ![t] = [pc |-> "idle"]]
            /\ UNCHANGED steps
       ELSE Fail(t)

Walk(t) == WalkBegin(t) \/ WalkCached(t) \/ WalkCompute(t) \/ Commit(t)

------------------------------------------------------------------------------
(* The methods.                                                            *)

\* Mutant: only the ids are compared.
MutMayAdd(S, s, p) == s \notin S

\* The checks of add and insert_after to the steps S: a new id, and no key that a
\* step with static writes already declares.
MayAdd(S, s, p) ==
  /\ s \notin S
  /\ s \notin Imports =>
       LET own == ({"key"} \X (Def[s][p].writes
                                \union (IF s \in Analyses THEN Aliases[s] ELSE {})))
                    \union ({"metadata"} \X Def[s][p].meta)
       IN  \A u \in S \ Imports : Declared(u) \intersect own = {}

InsertAt(i, s) == SubSeq(steps, 1, i) \o <<s>> \o SubSeq(steps, i + 1, Len(steps))

\* The list without s; ids are unique in it.
StepsWithout(s) ==
  LET i == CHOOSE j \in DOMAIN steps : steps[j] = s
  IN  SubSeq(steps, 1, i - 1) \o SubSeq(steps, i + 1, Len(steps))

Add(t, s, p) ==
  /\ Idle(t)
  /\ MayAdd(StepSet, s, p)
  /\ steps' = Append(steps, s)
  /\ params' = [params EXCEPT ![s] = p]
  /\ UNCHANGED <<file, source, results, owned, dirtyKeys, current, analyses, call>>

InsertAfter(t, i, s, p) ==
  /\ Idle(t)
  /\ s \in Inserted
  /\ MayAdd(StepSet, s, p)
  /\ steps' = InsertAt(i, s)
  /\ params' = [params EXCEPT ![s] = p]
  /\ UNCHANGED <<file, source, results, owned, dirtyKeys, current, analyses, call>>

InsertAfterAndRecompute(t, i, s, p) ==
  /\ Idle(t)
  /\ MayAdd(StepSet, s, p)
  /\ steps' = InsertAt(i, s)
  /\ params' = [params EXCEPT ![s] = p]
  /\ Begin(t, s, {}, Snapshot, "return")
  /\ UNCHANGED <<file, source, results, owned, dirtyKeys, current, analyses>>

Remove(t, s) ==
  /\ Idle(t)
  /\ s \in StepSet
  /\ steps' = StepsWithout(s)
  /\ results' = Without(results, {s})
  /\ owned' = Without(owned, {s})
  /\ dirtyKeys' = Without(dirtyKeys, {s})
  /\ Begin(t, NoOne, {}, Snapshot \ {"source"}, "return")
  /\ UNCHANGED <<file, source, params, current, analyses>>

\* Mutant: a failed edit leaves the new parameters in the step.
MutEditRestores == Caches

\* What edit_params puts back when it fails; the walk has published nothing.
EditRestores == Caches \union {"params"}

\* edit_params changes the step in place.  Its own check of the new writes is
\* part of the preflight check, which reads the same declarations.
EditParams(t, s, p) ==
  /\ Idle(t)
  /\ s \in StepSet
  /\ Readable(s, file)
  /\ params' = [params EXCEPT ![s] = p]
  /\ Begin(t, s, IF s \in DOMAIN dirtyKeys THEN dirtyKeys[s] ELSE StaticKeys(s),
           EditRestores, "return")
  /\ UNCHANGED <<file, source, steps, results, owned, dirtyKeys, current, analyses>>

ReplaceSourceDataset(t, x) ==
  /\ Idle(t)
  /\ x # source
  /\ source' = x
  /\ Begin(t, NoOne, {}, Snapshot \ {"steps"}, "return")
  /\ UNCHANGED <<file, steps, params, results, owned, dirtyKeys, current, analyses>>

Recompute(t, d) ==
  /\ Idle(t)
  /\ d \in StepSet \union {NoOne}
  /\ Begin(t, d, {}, {}, "return")
  /\ UNCHANGED <<file, pipeline>>

\* The environment: the data file is edited, deleted or restored.
FileChanges ==
  /\ file' \in Files \ {file}
  /\ UNCHANGED <<pipeline, call>>

Next ==
  \/ FileChanges
  \/ \E t \in Threads :
       \/ Walk(t)
       \/ \E d \in Ids \union {NoOne} : Recompute(t, d)
       \/ \E x \in Sources : ReplaceSourceDataset(t, x)
       \/ \E s \in Ids :
            \/ Remove(t, s)
            \/ \E p \in ParamsOf(s) :
                 \/ Add(t, s, p)
                 \/ EditParams(t, s, p)
                 \/ \E i \in 1..Len(steps) : InsertAfter(t, i, s, p)
                                              \/ InsertAfterAndRecompute(t, i, s, p)

Spec == Init /\ [][Next]_vars

------------------------------------------------------------------------------
(* Properties.                                                             *)

OwnerKeys == {"key", "metadata"} \X Keys
PartialOn(f, S, T) == DOMAIN f \subseteq S /\ \A x \in DOMAIN f : f[x] \subseteq T

TypeOK ==
  /\ file \in Files /\ source \in Sources
  /\ steps \in Seq(Ids)
  /\ \A s \in Ids : params[s] \in ParamsOf(s)
  /\ DOMAIN results \subseteq Ids
  /\ \A s \in DOMAIN results : results[s].cols \union results[s].vars \subseteq Keys
  /\ PartialOn(owned, Ids, OwnerKeys) /\ PartialOn(dirtyKeys, Ids, Keys)
  /\ DOMAIN current \subseteq Keys /\ DOMAIN analyses \subseteq Keys
  /\ \A t \in Threads : call[t].pc \in {"idle", "failed", "begin", "walk"}

AllIdle == \A t \in Threads : Idle(t)
Cached == {i \in DOMAIN steps : steps[i] \in DOMAIN results}

\* The last of the first n steps, if any, whose cached result provides k.
LastOf(n, Provides(_)) ==
  LET P == {i \in Cached : i <= n /\ Provides(steps[i])}
  IN  {i \in P : \A j \in P : j <= i}

\* What a key was when the first n steps had run, read off the cached results:
\* the last writer's value, else the source dataset's.
DataAfter(n) ==
  LET Col(k)  == LastOf(n, LAMBDA s : k \in results[s].cols)
      Var(k)  == LastOf(n, LAMBDA s : k \in results[s].vars)
      Term(S) == IF S = {} THEN Given(source) ELSE results[steps[CHOOSE i \in S : TRUE]].term
  IN  [k \in Columns[source]
               \union UNION {results[steps[i]].cols : i \in {j \in Cached : j <= n}} |->
         [col |-> Term(Col(k)), meta |-> Term(Var(k))]]

AnalysesAfter(n) ==
  LET Provides(s, k) == s \in Analyses /\ k \in Def[s][params[s]].writes \union Aliases[s]
      At(k) == LastOf(n, LAMBDA s : Provides(s, k))
  IN  [k \in {x \in Keys : At(x) # {}} |-> results[steps[CHOOSE i \in At(k) : TRUE]].term]

\* Between two calls every cached result is the one a recomputation from scratch
\* would give: each step was computed with its present parameters from the present
\* results of the steps before it (the import from the file as it was when read).
CachesCoherent ==
  AllIdle => \A i \in Cached :
    LET s == steps[i]
        ds == DataAfter(i - 1)
        an == AnalysesAfter(i - 1)
    IN  /\ Def[s][params[s]].needs \subseteq DOMAIN ds \union DOMAIN an
        /\ results[s] = Compute(s, results[s].term.from, ds, an)

\* ... and the published dataset and analyses are those of the cached results:
\* nothing of a removed step, of an older walk or of a failed one is left in them.
PublishedIsCached ==
  AllIdle => /\ current = DataAfter(Len(steps))
             /\ analyses = AnalysesAfter(Len(steps))

\* docs/specs/01-core-verification-matrix.md:19, "Each output key has a single
\* Step owner": no two steps declare the same key, unless one is an import whose
\* columns are not known yet, and no two computed steps own the same key.
OwnersUnique ==
  AllIdle => \A s, t \in StepSet : s # t =>
    /\ s \notin Imports /\ t \notin Imports => Declared(s) \intersect Declared(t) = {}
    /\ s \in DOMAIN owned /\ t \in DOMAIN owned => owned[s] \intersect owned[t] = {}

\* A call that raises, wherever it stops, leaves the pipeline as it found it (a
\* step that was never in it has parameters of its own).
OfItsSteps(p) ==
  [p EXCEPT !.params = [s \in {p.steps[i] : i \in DOMAIN p.steps} |-> @[s]]]
FailureRestores ==
  [][\A t \in Threads :
       ~Idle(t) /\ Idle(t)' /\ call'[t].pc = "failed" =>
         OfItsSteps(Now)' = OfItsSteps(call[t].before)]_vars

==============================================================================
