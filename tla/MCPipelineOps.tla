--------------------------- MODULE MCPipelineOps ---------------------------
(* A session with one file: a patch of a column's metadata that is put in   *)
(* front of its reader and edited, an analysis of the column and its report. *)
EXTENDS PipelineOps

Step(reads, writes, meta) ==
  [reads |-> reads, needs |-> reads, writes |-> writes, meta |-> meta,
   inputs |-> {}, ok |-> TRUE]

SessionIds   == {"import", "patch", "test", "report"}
SessionSteps ==
  [import |-> [all |-> Step({}, {}, {})],
   patch  |-> [a |-> Step({"q"}, {}, {"q"})],
   test   |-> [a |-> Step({"q"}, {"result"}, {})],
   report |-> [a |-> [reads |-> {"result", "analysis:result"}, needs |-> {"result"},
                      writes |-> {"report:report"}, meta |-> {},
                      inputs |-> {"test"}, ok |-> TRUE]]]

\* A scale may be given the name of an analysis.
NamesIds   == {"import", "scale", "test", "report"}
NamesSteps ==
  [import |-> SessionSteps.import,
   scale  |-> [a |-> Step({"q"}, {"test"}, {})],
   test   |-> SessionSteps.test,
   report |-> SessionSteps.report]

MCAliases(ids) == [s \in ids |->
                     IF s \in {"test", "report"} THEN {s, "analysis:" \o s} ELSE {}]
SessionAliases == MCAliases(SessionIds)
NamesAliases   == MCAliases(NamesIds)
MCKeys    == {"q", "result", "analysis:result", "report:report",
              "test", "report", "analysis:test", "analysis:report"}
MCColumns == [empty |-> {}, f1 |-> {"q"}, gone |-> {}]

\* Two states are the same when they differ in what is never read again: what a
\* call found and will not restore, the parameters of a step that is gone and that
\* no walk will reach.
View ==
  LET Reached == StepSet \union UNION {ElementsOf(call[t].todo) :
                                         t \in {u \in Threads : call[u].pc = "walk"}}
      Kept(c) == IF "before" \notin DOMAIN c THEN c
                 ELSE [c EXCEPT !.before =
                         [f \in c.restores |-> c.before[f]]]
  IN  <<file, source, steps, [s \in Reached |-> params[s]], results, owned, dirtyKeys,
        current, analyses, beside, torn, [t \in Threads |-> Kept(call[t])]>>
==============================================================================
