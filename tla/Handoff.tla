------------------------------- MODULE Handoff -------------------------------
(***************************************************************************)
(* From a passport to the settings of one analysis step: the closed table  *)
(* of six rows with which the application prepares what the clarification  *)
(* loop has recommended.                                                   *)
(*                                                                         *)
(*   src/src/modori/research_flow/handoff.py        map_passport_to_step   *)
(*                                                                         *)
(* A row asks for more than the method's rules do: the facts word for word *)
(* as the user confirmed them, and the roles in the row's own order.  The  *)
(* settings that a row fixes (how missing values are treated, the language *)
(* of a table) are left out, and so is the comparison of the row with the  *)
(* catalogue's digests: both are constants of one release.                 *)
(***************************************************************************)
EXTENDS ClarificationLoop, Functions

------------------------------------------------------------------------------
(* The roles that the estimand of the request has, in their order.          *)

\* The order in which the intake binds them ...
IntakeOrder == <<"outcome", "group", "repeated", "predictor">>
\* ... and the one after an answer about a role: by the names of the roles, focal_predictor,
\* group, outcome and repeated_measure.
NameOrder == <<"predictor", "group", "outcome", "repeated">>

\* The bound roles in such an order.
InOrder(order, bound) ==
  LET Of(r) == IF r \in bound THEN <<r>> ELSE <<>>
  IN  Of(order[1]) \o Of(order[2]) \o Of(order[3]) \o Of(order[4])

\* Mutant: the roles are sorted from the beginning.
MutBoundRoles ==
  InOrder(NameOrder,
          {r \in TargetRoles : first[r] # Unknown \/ \E i \in DOMAIN log : log[i].question = r})

\* target_roles: a role is bound from the beginning or by the answer to its question.
BoundRoles ==
  LET answered == {r \in TargetRoles : \E i \in DOMAIN log : log[i].question = r}
  IN  InOrder(IF answered = {} THEN IntakeOrder ELSE NameOrder,
              answered \cup {r \in TargetRoles : first[r] # Unknown})

------------------------------------------------------------------------------
(* The table.                                                               *)

Row(step, roles, goal, template, basis, scale, target, contrast, dependence) ==
  [step  |-> step,
   roles |-> roles,
   facts |-> [goal |-> Confirmed(<<goal>>), causal |-> Confirmed(<<"noncausal">>),
              template |-> Confirmed(<<template>>), basis |-> Confirmed(<<basis>>),
              scale |-> Confirmed(<<scale>>), target |-> target, contrast |-> contrast,
              dependence |-> Confirmed(<<dependence>>),
              weight |-> Confirmed(None), cluster |-> Confirmed(None)]]

Described(step, template) ==
  Row(step, <<"outcome">>, "describe", template, "descriptive", "distribution",
      NotApplicable, NotApplicable, "independent")
Associated(target) ==
  Row("correlation", <<"outcome", "predictor">>, "associate", "association", "associational",
      "correlation", Confirmed(<<target>>), NotApplicable, "independent")
Compared(step, role, template, dependence) ==
  Row(step, <<"outcome", role>>, "compare", template, "associational", "difference",
      NotApplicable, Confirmed(<<"pairwise">>), dependence)

Rows ==
  [summary   |-> Described("descriptives_table1", "summary"),
   frequency |-> Described("frequency_crosstab", "frequency_distribution"),
   pearson   |-> Associated("product_moment"),
   spearman  |-> Associated("rank_monotonic"),
   welch     |-> Compared("compare_groups", "group", "group_contrast", "independent"),
   paired    |-> Compared("paired_comparison", "repeated", "within_unit_change", "paired")]

\* The facts say what the row says, and the roles are the row's, each confirmed.
Matches(F, row) ==
  /\ \A a \in DOMAIN row.facts : F[a] = row.facts[a]
  /\ BoundRoles = row.roles
  /\ \A i \in DOMAIN row.roles : F[row.roles[i]].state = "confirmed" /\ F[row.roles[i]].value # None

\* _build_params: which roles become the variables of the step, in the order of its parameters
\* (the variable, then the other; the measurement before, then the one after).  A list of
\* variables where one is needed is refused, and so is one variable in two roles.
One(F, a) == Len(F[a].value) = 1

Fits(F, m) ==
  CASE m \in {"summary", "frequency"} -> TRUE
    [] m = "paired" -> /\ One(F, "outcome") /\ Len(F["repeated"].value) = 2
                       /\ F["order"] = Confirmed(F["repeated"].value)
                       /\ F["outcome"].value[1] = F["repeated"].value[2]
    [] OTHER        -> LET other == Rows[m].roles[2]
                       IN  /\ One(F, "outcome") /\ One(F, other)
                           /\ F["outcome"].value # F[other].value

Params(F, m) ==
  CASE m \in {"summary", "frequency"} -> F["outcome"].value
    [] m = "paired"                   -> F["repeated"].value
    [] OTHER                          -> F["outcome"].value \o F[Rows[m].roles[2]].value

\* _validate_closed_step_params, again before a preparation is confirmed.
Closed(m, params) ==
  /\ params # <<>> /\ IsInjective(params)
  /\ m \notin {"summary", "frequency"} => Len(params) = 2

\* validate_passport_request_binding: the passport is that of the request as it is.
Binds(p) == p.base = Len(log)

\* map_passport_to_step: the step that the passport becomes, if it does.
Mappings ==
  {[step |-> Rows[m].step, params |-> Params(facts, m)] :
     m \in {n \in passport.methods :
              /\ Binds(passport) /\ passport.action = "recommend_local"
              /\ passport.methods = {n}
              /\ Matches(facts, Rows[n]) /\ Fits(facts, n)
              /\ Closed(n, Params(facts, n))}}

------------------------------------------------------------------------------
(* What it promises.                                                        *)

\* A recommendation is not a dead end: what is recommended for a request of the intake,
\* whatever it left open about the study, maps to a step, and this step has the variables
\* that the user chose at the start, each in its place.  The table and the Method Space are
\* written down twice and are compared only by digest; the table asks for more than the Method
\* Space does, the order of the roles among it, which an answer about a role would change
\* (_replace_target_role): then the window could only fail to show what it recommends.
RecommendationIsPrepared ==
  \A p \in DOMAIN Profiles :
    (/\ \A a \in Addresses \ StudyFacts : first[a] = Intake(p)[a]
     /\ passport.action = "recommend_local" /\ Binds(passport))
      => Mappings =
           {[step   |-> Rows[p].step,
             params |-> IF p = "paired" THEN first["repeated"].value
                        ELSE first["outcome"].value \o first["group"].value
                               \o first["predictor"].value]}
==============================================================================
