------------------------------ MODULE P1Catalog ------------------------------
(***************************************************************************)
(* The frozen P1 catalogues of the Research OS: which facts a request has, *)
(* which of them each method requires (the Method Space), what each        *)
(* clarification question offers, and the requests that the intake builds. *)
(*                                                                         *)
(*   src/src/modori/research_os/p1_catalog.py                              *)
(*   src/src/modori/research_os/p1_clarifications.py                       *)
(*   src/src/modori/research_os/p1_intake.py                               *)
(*                                                                         *)
(* Data: every value is a sequence: a choice has one member, a list of     *)
(* variables is one.  Two variables are enough for every role: x is the    *)
(* earlier measurement of a pair.  "omnibus" stands for the five contrasts *)
(* that no rule accepts.  Nothing in src/ infers or observes a fact that a *)
(* rule reads, so that a current fact is one the user has confirmed and    *)
(* meets every trust floor of the catalogue.                               *)
(***************************************************************************)
EXTENDS Naturals, Sequences, FiniteSets

QuestionFacts == {"goal", "causal"}
MethodFacts   == {"template", "basis", "scale", "target", "contrast"}
TargetRoles   == {"outcome", "predictor", "group", "repeated"}
EstimandFacts == MethodFacts \cup TargetRoles
StudyFacts    == {"dependence", "order", "weight", "cluster"}
Asked         == QuestionFacts \cup EstimandFacts \cup StudyFacts
Context       == {"layout", "timing", "family", "sampling"}  \* nobody asks for these
Addresses     == Asked \cup Context

Singles(S)    == {<<s>> : s \in S}
None          == <<>>
NA            == <<"not_applicable">>
VariableLists == {<<"x">>, <<"y">>, <<"x", "y">>, <<"y", "x">>}

Fact(state, value) == [state |-> state, value |-> value]
Confirmed(v)  == Fact("confirmed", v)
NotApplicable == Fact("not_applicable", NA)
Unknown       == Fact("unknown", None)
Refused       == Fact("refused", None)   \* unknown, because the user was not sure

------------------------------------------------------------------------------
(* The Method Space: for each method, the values of a fact that it accepts. *)

Empty    == {None, NA}
NonEmpty == VariableLists

\* Mutant: no method asks about clusters.
MutCommon(goals, template, basis, scale, target, dependence) ==
  [goal       |-> Singles(goals),
   causal     |-> Singles({"noncausal"}),
   template   |-> Singles({template}),
   basis      |-> Singles({basis}),
   scale      |-> Singles({scale}),
   target     |-> Singles({target}),
   dependence |-> Singles({dependence}),
   weight     |-> Empty]

Common(goals, template, basis, scale, target, dependence) ==
  [goal       |-> Singles(goals),
   causal     |-> Singles({"noncausal"}),
   template   |-> Singles({template}),
   basis      |-> Singles({basis}),
   scale      |-> Singles({scale}),
   target     |-> Singles({target}),
   dependence |-> Singles({dependence}),
   weight     |-> Empty,
   cluster    |-> Empty]

\* A rule or a profile with further facts.
With(rule, more) ==
  [a \in DOMAIN rule \cup DOMAIN more |-> IF a \in DOMAIN rule THEN rule[a] ELSE more[a]]

Descriptive(template) ==
  With(Common({"describe"}, template, "descriptive", "distribution", "not_applicable",
              "independent"),
       [outcome |-> NonEmpty])
Association(target) ==
  With(Common({"associate"}, "association", "associational", "correlation", target,
              "independent"),
       [outcome |-> NonEmpty, predictor |-> NonEmpty])
Comparison(template, dependence) ==
  With(Common({"compare", "estimate_effect"}, template, "associational", "difference",
              "not_applicable", dependence),
       [contrast |-> Singles({"pairwise"}), outcome |-> NonEmpty])

Rules ==
  [summary   |-> Descriptive("summary"),
   frequency |-> Descriptive("frequency_distribution"),
   pearson   |-> Association("product_moment"),
   spearman  |-> Association("rank_monotonic"),
   welch     |-> With(Comparison("group_contrast", "independent"), [group |-> NonEmpty]),
   paired    |-> With(Comparison("within_unit_change", "paired"),
                      [repeated |-> NonEmpty, order |-> NonEmpty])]

Methods == DOMAIN Rules

\* Facts of severity E3; all others are of severity E4.
LowSeverity == {"weight", "cluster"}

------------------------------------------------------------------------------
(* The clarification registry: one question for each fact that a rule reads. *)

\* Questions in the order of their ids (confirm_association_target, ...).
ById ==
  <<"target", "causal", "basis", "cluster", "contrast", "dependence", "scale", "template",
    "predictor", "group", "outcome", "order", "repeated", "goal", "weight">>

ChoiceQuestions ==
  [goal       |-> {"describe", "compare", "associate", "estimate_effect"},
   causal     |-> {"causal", "noncausal"},
   template   |-> {"summary", "frequency_distribution", "group_contrast",
                   "within_unit_change", "association"},
   basis      |-> {"descriptive", "associational", "causal"},
   scale      |-> {"distribution", "difference", "correlation"},
   target     |-> {"product_moment", "rank_monotonic", "not_applicable"},
   contrast   |-> {"pairwise", "omnibus"},
   dependence |-> {"independent", "paired"}]

\* What a user may answer, other than "not sure".
Answers(q) ==
  IF q \in DOMAIN ChoiceQuestions THEN Singles(ChoiceQuestions[q])
  ELSE IF q = "order" THEN {<<"x", "y">>, <<"y", "x">>}
  ELSE IF q = "repeated" THEN {None, <<"x", "y">>, <<"y", "x">>}
  ELSE IF q \in LowSeverity THEN {None, <<"x">>}
  ELSE {<<"x">>, <<"y">>}

\* The dependencies that each question declares.
Depends ==
  [goal       |-> {},
   causal     |-> {"goal"},
   template   |-> {"goal"},
   basis      |-> {"goal", "causal", "template"},
   scale      |-> {"template"},
   target     |-> {"template"},
   contrast   |-> {"template"},
   outcome    |-> {"template"},
   predictor  |-> {"template"},
   group      |-> {"template"},
   repeated   |-> {"template", "dependence"},
   order      |-> {"dependence", "repeated"},
   dependence |-> {"layout", "timing"},
   weight     |-> {"sampling"},
   cluster    |-> {"family", "sampling"}]

\* answer_kind_cost of the question's kind of answer.
KindCost(q) ==
  IF q = "causal" THEN 1
  ELSE IF q \in DOMAIN ChoiceQuestions THEN 2
  ELSE IF q = "order" THEN 5
  ELSE IF q \in LowSeverity \cup {"repeated"} THEN 4
  ELSE 3

------------------------------------------------------------------------------
(* The requests that the intake builds from a profile.                      *)

ConfirmedAll(values) == [a \in DOMAIN values |-> Confirmed(values[a])]

Profile(goal, template, basis, scale, more) ==
  With(With(ConfirmedAll(more),
            ConfirmedAll([goal |-> <<goal>>, causal |-> <<"noncausal">>, template |-> <<template>>,
                          basis |-> <<basis>>, scale |-> <<scale>>])),
       [target |-> NotApplicable, contrast |-> NotApplicable])

\* _PROFILE_DEFINITIONS with the roles of each role shape, by the method it is meant for.
Profiles ==
  [summary   |-> Profile("describe", "summary", "descriptive", "distribution",
                         [outcome |-> <<"x">>]),
   frequency |-> Profile("describe", "frequency_distribution", "descriptive", "distribution",
                         [outcome |-> <<"x">>]),
   welch     |-> Profile("compare", "group_contrast", "associational", "difference",
                         [contrast |-> <<"pairwise">>, outcome |-> <<"x">>, group |-> <<"y">>,
                          dependence |-> <<"independent">>]),
   paired    |-> Profile("compare", "within_unit_change", "associational", "difference",
                         [contrast |-> <<"pairwise">>, outcome |-> <<"y">>,
                          repeated |-> <<"x", "y">>, order |-> <<"x", "y">>,
                          dependence |-> <<"paired">>, layout |-> <<"wide_repeated">>,
                          timing |-> <<"repeated_panel">>]),
   pearson   |-> Profile("associate", "association", "associational", "correlation",
                         [outcome |-> <<"x">>, predictor |-> <<"y">>,
                          target |-> <<"product_moment">>]),
   spearman  |-> Profile("associate", "association", "associational", "correlation",
                         [outcome |-> <<"x">>, predictor |-> <<"y">>,
                          target |-> <<"rank_monotonic">>])]

\* build_p1_request: what the profile does not say is unknown, never assumed.
Intake(p) == [a \in Addresses |-> IF a \in DOMAIN Profiles[p] THEN Profiles[p][a] ELSE Unknown]

\* build_causal_abstention_request
CausalRequest == [a \in Addresses |-> IF a = "causal" THEN Confirmed(<<"causal">>) ELSE Unknown]
==============================================================================
