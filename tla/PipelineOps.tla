---------------------------- MODULE PipelineOps ----------------------------
(***************************************************************************)
(* What the application does with the pipeline: the main thread edits it   *)
(* through PipelineOperations, the engine worker recomputes it for rerun.  *)
(* Both work on the same Pipeline object, and nothing makes one wait for   *)
(* the other: the panels are disabled while the status is "running", but   *)
(* the commands themselves do not look at it.                              *)
(*                                                                         *)
(*   src/src/modori/ui/pipeline_ops.py   PipelineOperations                *)
(*                                                                         *)
(* A call of the main thread is atomic up to the start of its walk and     *)
(* again at its end.  A walk goes over the steps it found when it began,   *)
(* and reads each with the parameters its id has when it is reached.  (A   *)
(* report that an export appends to the very list the worker walks over is *)
(* not seen by that walk.)                                                 *)
(***************************************************************************)
EXTENDS Pipeline

CONSTANTS
  Managed,    \* step ids of _managed_step_types
  ReportStep  \* the report step's id, "report"

\* The report step can be made for every other analysis, to show its result.  No step has
\* the name of a way for a call to go on (see Begin).
ASSUME OpsAssumption ==
  /\ Managed \subseteq Ids /\ Analyses \subseteq Managed /\ ReportStep \in Analyses
  /\ \A a \in Analyses \ {ReportStep} : \A p \in ParamsOf(a) :
       \E r \in ParamsOf(ReportStep) :
         /\ Def[ReportStep][r].inputs = {a}
         /\ Def[ReportStep][r].needs \subseteq Def[a][p].writes \union Aliases[a]
  /\ Threads = {"main", "worker"}
  /\ Ids \intersect {"return", "deferred", "discard"} = {}

\* What the step classes declare: the steps that prepare data need columns, never what
\* an analysis gives, and only they replace the metadata of a column.
ASSUME DataAssumption ==
  \A a \in Analyses : \A q \in ParamsOf(a) :
    /\ Def[a][q].meta = {}
    /\ \A s \in Ids \ Analyses : \A p \in ParamsOf(s) :
         Def[s][p].needs \intersect (Def[a][q].writes \union Aliases[a]) = {}

\* A report is found under its id, and no step reads one.  A session begins with an empty
\* dataset.
ASSUME ReportAssumption ==
  /\ ReportStep \in Aliases[ReportStep]
  /\ \A s \in Ids : \A p \in ParamsOf(s), r \in ParamsOf(ReportStep) :
       /\ ReportStep \notin Def[s][p].inputs
       /\ Def[s][p].reads \intersect
            (Def[ReportStep][r].writes \union Aliases[ReportStep]) = {}
  /\ \A x \in Sources : Columns[x] = {}

VARIABLES
  beside,   \* ghost: the main thread has acted during the worker's present call
  torn      \* ghost: two calls overlapped, and no undisturbed rerun has followed

opsVars == <<vars, beside, torn>>

------------------------------------------------------------------------------
ElementsOf(seq) == {seq[i] : i \in DOMAIN seq}

\* The elements of a finite set as the list that a strict total order of them gives.
InOrder(S, order) ==
  [n \in 1..Cardinality(S) |->
     CHOOSE x \in S : Cardinality({y \in S : <<y, x>> \in order}) = n - 1]

\* Where x stands in a list without repetitions, and what stands before what.
PlaceIn(seq, x) == CHOOSE i \in DOMAIN seq : seq[i] = x
OrderOf(seq) ==
  {xy \in ElementsOf(seq) \X ElementsOf(seq) : PlaceIn(seq, xy[1]) < PlaceIn(seq, xy[2])}

IsData(s) == s \notin Analyses
DataSteps == InOrder(StepSet \ Analyses, OrderOf(steps))

\* ImportSessionPipelineFactory: a new pipeline whose only step is the import, and
\* which has been recomputed.
OpsInit ==
  \E i \in Imports :
    LET r == Compute(i, file, SourceData, <<>>)
    IN  /\ file \in Files \ {Gone}
        /\ source \in Sources
        /\ steps = <<i>>
        /\ params \in [Ids -> UNION {ParamsOf(s) : s \in Ids}]
        /\ \A s \in Ids : params[s] = CHOOSE p \in ParamsOf(s) : TRUE
        /\ results = [s \in {i} |-> r]
        /\ owned = [s \in {i} |-> Declared(i)]
        /\ dirtyKeys = [s \in {i} |-> ResultKeys(i, r)]
        /\ current = WithUpdates(SourceData, r)
        /\ analyses = <<>>
        /\ call = [t \in Threads |-> [pc |-> "idle"]]
        /\ beside = FALSE
        /\ torn = FALSE

------------------------------------------------------------------------------
(* The main thread.                                                        *)

\* Mutant: the caches keep the results of the steps put aside.
MutKeepSteps(kept, cached) ==
  /\ steps' = kept
  /\ analyses' = <<>>
  /\ UNCHANGED <<results, owned, dirtyKeys>>

\* _replace_steps_preserving_cached_imports, and what is then inserted.
KeepSteps(kept, cached) ==
  /\ steps' = kept
  /\ analyses' = <<>>
  /\ results' = Without(results, Ids \ ElementsOf(cached))
  /\ owned' = Without(owned, Ids \ ElementsOf(cached))
  /\ dirtyKeys' = Without(dirtyKeys, Ids \ ElementsOf(cached))

\* metadata_insert_after_step_id and _last_data_prep_step_id: a metadata patch goes
\* behind the step its variable comes from (else the first), a transform behind the
\* last step that prepares data.
Behind(s, p) ==
  LET origins == {i \in DOMAIN DataSteps :
                    \E k \in Def[s][p].meta : current[k].meta.by = DataSteps[i]}
  IN  IF Def[s][p].meta = {} THEN Len(DataSteps)
      ELSE IF origins = {} THEN 1 ELSE CHOOSE i \in origins : TRUE

\* What the editors ask for: the variables exist and the new ones do not, those the
\* step itself has written excepted.
Editable(s, p, mine) ==
  /\ IsData(s) /\ s \notin Imports
  /\ Def[s][p].needs \union Def[s][p].meta \subseteq DOMAIN current
  /\ Def[s][p].writes \intersect (DOMAIN current \ mine) = {}

\* insert_or_replace_transform_step and insert_metadata_step with a new step: the
\* analyses are put aside, the step is inserted and the data recomputed.
InsertDataStep(s, p) ==
  LET i == Behind(s, p)
  IN  /\ Idle("main")
      /\ s \notin StepSet
      /\ DataSteps # <<>>
      /\ Editable(s, p, {})
      /\ MayAdd(ElementsOf(DataSteps), s, p)
      /\ KeepSteps(SubSeq(DataSteps, 1, i) \o <<s>>
                     \o SubSeq(DataSteps, i + 1, Len(DataSteps)), DataSteps)
      /\ params' = [params EXCEPT ![s] = p]
      /\ Begin("main", s, {}, Snapshot, "deferred")
      /\ UNCHANGED <<file, source, current>>

\* insert_or_replace_transform_step and edit_metadata_params with a step that is
\* there: the same around edit_params.
EditDataStep(s, p) ==
  /\ Idle("main")
  /\ s \in StepSet
  /\ Editable(s, p, Def[s][params[s]].writes)
  /\ KeepSteps(DataSteps, DataSteps)
  /\ params' = [params EXCEPT ![s] = p]
  /\ Begin("main", s, IF s \in DOMAIN dirtyKeys THEN dirtyKeys[s] ELSE StaticKeys(s),
           Snapshot \union {"params"}, "deferred")
  /\ UNCHANGED <<file, source, current>>

\* Mutant: the analyses do not come back.
MutWithDeferred(before) == steps

\* _deferred_analysis_placements: the place in the list of the data step that an
\* analysis stood in front of, or the end.
Home(before, a) ==
  LET Following == {j \in DOMAIN before : IsData(before[j]) /\ PlaceIn(before, a) < j}
  IN  IF Following = {} THEN Len(steps) + 1
      ELSE PlaceIn(steps, before[CHOOSE j \in Following : \A k \in Following : j <= k])

\* _restore_deferred_analysis_steps: the analyses return to their homes, those with the
\* same home in the order they had.  (No data step has gone meanwhile.)
WithDeferred(before) ==
  LET All      == StepSet \union (ElementsOf(before) \intersect Analyses)
      Place(x) == IF IsData(x) THEN PlaceIn(steps, x) ELSE Home(before, x)
  IN  InOrder(All, {xy \in All \X All :
        \/ Place(xy[1]) < Place(xy[2])
        \/ /\ Place(xy[1]) = Place(xy[2]) /\ ~IsData(xy[1])
           /\ IsData(xy[2]) \/ xy \in OrderOf(before)})

CommitDataStep ==
  /\ Ready("main") /\ call["main"].next = "deferred"
  /\ IF UniqueAtEnd("main")
       THEN /\ Publish("main")
            /\ steps' = WithDeferred(call["main"].before.steps)
            /\ call' = [call EXCEPT !["main"] = [pc |-> "idle"]]
       ELSE Fail("main")

\* replace_managed_analysis_steps: the managed steps go, the rest is recomputed, and
\* the analysis and its report are added, to be computed by the next rerun.
SelectAnalysis(a) ==
  LET kept == InOrder(StepSet \ Managed, OrderOf(steps))
  IN  /\ Idle("main")
      /\ a \in Analyses \ {ReportStep}
      /\ \A p \in ParamsOf(a) : Def[a][p].needs \subseteq DOMAIN current
      /\ KeepSteps(kept, kept)
      /\ Begin("main", NoOne, {}, Snapshot, a)
      /\ UNCHANGED <<file, source, params, current>>

\* _report_step_for_analysis: the parameters of the report on the analysis a with the
\* parameters p.
ReportOf(a, p) ==
  CHOOSE r \in ParamsOf(ReportStep) :
    /\ Def[ReportStep][r].inputs = {a}
    /\ Def[ReportStep][r].needs \subseteq Def[a][p].writes \union Aliases[a]

CommitSelection ==
  LET a == call["main"].next
  IN  /\ Ready("main") /\ a \in Analyses
      /\ \E p \in ParamsOf(a) :
           IF /\ UniqueAtEnd("main")
              /\ MayAdd(StepSet, a, p)
              /\ MayAdd(StepSet, ReportStep, ReportOf(a, p))
             THEN /\ current' = call["main"].ds
                  /\ analyses' = call["main"].an
                  /\ results' = call["main"].results
                  /\ owned' = call["main"].owned
                  /\ dirtyKeys' = call["main"].dirtyKeys
                  /\ steps' = steps \o <<a, ReportStep>>
                  /\ params' = [params EXCEPT ![a] = p, ![ReportStep] = ReportOf(a, p)]
                  /\ call' = [call EXCEPT !["main"] = [pc |-> "idle"]]
                  /\ UNCHANGED <<file, source>>
             ELSE Fail("main")

\* replace_research_os_analysis_step: every analysis goes, the prepared one is added
\* and nothing is computed.  A host that refuses leaves everything as it was.
ConfirmPreparation(a, p) ==
  /\ Idle("main")
  /\ a \in Analyses \ {ReportStep}
  /\ Def[a][p].needs \subseteq DOMAIN current
  /\ MayAdd(ElementsOf(DataSteps), a, p)
  /\ KeepSteps(Append(DataSteps, a), DataSteps)
  /\ params' = [params EXCEPT ![a] = p]
  /\ UNCHANGED <<file, source, current, call>>

\* export_report with a report step in the pipeline: its options are edited.  With
\* none, and no report to show, everything is recomputed before the export fails.
ExportReport ==
  IF ReportStep \in StepSet
    THEN \E p \in ParamsOf(ReportStep) :
           /\ Def[ReportStep][p].inputs = Def[ReportStep][params[ReportStep]].inputs
           /\ EditParams("main", ReportStep, p)
    ELSE ReportStep \notin DOMAIN analyses /\ Recompute("main", NoOne)

\* Mutant: nobody asks whether the analysis has been run.
MutExportResearchReport ==
  \E a \in Analyses :
    /\ Idle("main")
    /\ ReportStep \notin StepSet
    /\ {s \in StepSet : ~IsData(s)} = {a}
    /\ MayAdd(StepSet, ReportStep, ReportOf(a, params[a]))
    /\ steps' = Append(steps, ReportStep)
    /\ params' = [params EXCEPT ![ReportStep] = ReportOf(a, params[a])]
    /\ Begin("main", ReportStep, {}, Snapshot, "discard")
    /\ UNCHANGED <<file, source, results, owned, dirtyKeys, current, analyses>>

\* _export_research_os_report: the report of the one analysis is computed in a
\* pipeline that is put back as it was.
ExportResearchReport ==
  \E a \in Analyses :
    /\ Idle("main")
    /\ ReportStep \notin StepSet
    /\ {s \in StepSet : ~IsData(s)} = {a}
    /\ Def[ReportStep][ReportOf(a, params[a])].needs \subseteq DOMAIN analyses
    /\ MayAdd(StepSet, ReportStep, ReportOf(a, params[a]))
    /\ steps' = Append(steps, ReportStep)
    /\ params' = [params EXCEPT ![ReportStep] = ReportOf(a, params[a])]
    /\ Begin("main", ReportStep, {}, Snapshot, "discard")
    /\ UNCHANGED <<file, source, results, owned, dirtyKeys, current, analyses>>

CommitResearchReport ==
  /\ Ready("main") /\ call["main"].next = "discard"
  /\ Fail("main")

MainActs ==
  \/ Walk("main") \/ CommitDataStep \/ CommitSelection \/ CommitResearchReport
  \/ ExportReport \/ ExportResearchReport
  \/ \E s \in Ids :
       \/ SelectAnalysis(s)
       \/ \E p \in ParamsOf(s) :
            InsertDataStep(s, p) \/ EditDataStep(s, p) \/ ConfirmPreparation(s, p)

------------------------------------------------------------------------------
(* The engine worker: recompute_and_display_results.                       *)
WorkerActs == Walk("worker") \/ Recompute("worker", NoOne)

Undisturbed == ~beside /\ ~Idle("worker") /\ call'["worker"].pc = "idle"

OpsNext ==
  \/ /\ MainActs
     /\ beside' = (beside \/ ~Idle("worker"))
     /\ torn' = (torn \/ ~Idle("worker"))
  \/ /\ WorkerActs
     /\ beside' = IF Idle("worker") THEN ~Idle("main") ELSE beside /\ ~Idle("worker")'
     /\ torn' = IF Undisturbed THEN FALSE ELSE torn \/ ~Idle("main")
  \/ FileChanges /\ UNCHANGED <<beside, torn>>

OpsSpec == OpsInit /\ [][OpsNext]_opsVars

------------------------------------------------------------------------------
(* Properties.                                                             *)

\* As long as no two calls have overlapped since the last undisturbed rerun, the
\* caches are those of a recomputation from scratch, however the main thread has
\* put analyses aside, restored and replaced them, and whatever failed: one quiet
\* rerun makes good whatever a race has left behind.
QuietRerunHeals == ~torn => CachesCoherent /\ PublishedIsCached

\* The report a Research OS export renders shows the results on the screen, not
\* ones that are computed for it from what the data steps have become since.
ExportShowsPublishedResults ==
  [][/\ ~torn /\ Ready("main") /\ call["main"].next = "discard" /\ ~Idle("main")
     /\ Idle("main")'
     => \A k \in DOMAIN call["main"].an[ReportStep].of :
          /\ k \in DOMAIN analyses'
          /\ call["main"].an[ReportStep].of[k] = Whole(analyses'[k])]_opsVars

\* Whatever the main thread does with the data, the analyses that were selected are
\* still there, in their order, when its call is over.
AnalysesOf(seq) == InOrder(ElementsOf(seq) \intersect Analyses, OrderOf(seq))
AnalysesSurvive ==
  [][call["main"].pc = "walk" /\ call["main"].next \in {"deferred", "discard"}
     /\ Idle("main")'
     => AnalysesOf(steps') = AnalysesOf(call["main"].before.steps)]_opsVars

\* docs/specs/04-ui-shell.md:223: "Older worker results are discarded and may only
\* update debug logs": a rerun during which the pipeline was edited leaves no trace.
DiscardedRunsLeaveNoTrace ==
  [][beside /\ ~Idle("worker") /\ Idle("worker")' /\ Idle("main")
       => UNCHANGED pipeline]_opsVars
==============================================================================
