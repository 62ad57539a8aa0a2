----------------------------- MODULE MCPipeline -----------------------------
(* A survey pipeline: an import, a recode, a metadata patch, an analysis of *)
(* the recoded item and a report.                                           *)
EXTENDS Pipeline

Step(reads, writes, meta) ==
  [reads |-> reads, needs |-> reads, writes |-> writes, meta |-> meta,
   inputs |-> {}, ok |-> TRUE]

\* A report reads each included key and its "analysis:" form, and needs one.
Report(key) == [reads |-> {key, "analysis:" \o key}, needs |-> {key},
                writes |-> {"report:report"}, meta |-> {}, inputs |-> {}, ok |-> TRUE]

AllSteps(included) ==
  [import |-> [all |-> Step({}, {}, {})],
   recode |-> [a |-> Step({"q"}, {"q_R"}, {}), b |-> Step({"q"}, {"q_S"}, {}),
               c |-> Step({"q"}, {"q_R"}, {})],
   unify  |-> [a |-> Step({"q"}, {"q_R"}, {})],
   patch  |-> [a |-> Step({"q"}, {}, {"q"}), b |-> Step({"q"}, {}, {"q"})],
   scale  |-> [a |-> Step({"q_R"}, {"result"}, {})],
   report |-> [a |-> Report(included)]]

FourIds    == {"import", "recode", "scale", "report"}
PatchIds   == {"recode", "patch", "scale", "unify"}
AllIds     == FourIds \union PatchIds
ReportIds  == {"recode", "scale", "report"}

SafetySteps     == [s \in AllIds |-> AllSteps("result")[s]]
ReportByIdSteps == [s \in ReportIds |-> AllSteps("scale")[s]]

MCAliases  == [s \in DOMAIN AllSteps("") |->
                 IF s \in {"scale", "report"} THEN {s, "analysis:" \o s} ELSE {}]
MCKeys     == {"q", "q_R", "q_S", "result", "analysis:result", "report:report"}
                \union UNION {MCAliases[s] : s \in DOMAIN MCAliases}
MCColumns  == [empty |-> {}, survey |-> {"q"}, f1 |-> {"q"}, f2 |-> {"q", "q_S"},
               gone |-> {}]

\* A pipeline holds the steps of one of the two sets; only the one without an import
\* has its source dataset replaced, and no file.
OneOfTheSets ==
  \/ StepSet \subseteq FourIds /\ source = "empty"
  \/ StepSet \subseteq PatchIds /\ file = "f1"
==============================================================================
