---------------------- MODULE ClarificationLoop_proofs ----------------------
(***************************************************************************)
(* What an answer does to a request, for every set of open facts and any   *)
(* number of waiting candidates, in three invariants.                      *)
(*                                                                         *)
(* IInv: a candidate that may still be committed was built on the request  *)
(* as it is (Fresh), so that a commit is the revision by one answer        *)
(* (CommitRevises); what such a revision touches is what the registry's    *)
(* dependencies say (RevisedKeeps, RevisedInvalidates).                    *)
(*                                                                         *)
(* PInv adds the bookkeeping: a passport or candidate that is not older    *)
(* than the last answer is that of the plan for the request as it is       *)
(* (PassportIsOfTheRequest, Planned), and a refusal lasts until its fact   *)
(* is invalidated (RefusedUntilInvalidated).                               *)
(*                                                                         *)
(* DueIsKept is the planner's promise.  The search is unfolded for each    *)
(* budget (SearchIs); it cannot tell requests apart that are Alike         *)
(* (SearchIsDiscreet), and every answer that invalidates nothing makes the *)
(* request like one that was projected (AnswerIsProjected).  IntakeInv     *)
(* says how a request of the intake may grow, GrownInv how one does that   *)
(* leaves more about the study open, and so what the handoff is given.     *)
(***************************************************************************)
EXTENDS Handoff, SequenceTheorems, FiniteSetTheorems, WellFoundedInduction, TLAPS

------------------------------------------------------------------------------
(* The dependencies.                                                        *)

\* What a question declares to depend on is among its ancestors, with all that this in
\* turn declares.
LEMMA DependsAreAncestors ==
  ASSUME NEW a \in Asked
  PROVE  /\ Depends[a] \subseteq Ancestors(a)
         /\ \A b \in Depends[a] \cap Asked : Depends[b] \subseteq Ancestors(a)
  BY DEF Ancestors

\* A set that contains what a fact depends on, and with every fact what that one depends
\* on, contains all its ancestors.
LEMMA AncestorsWithin ==
  ASSUME NEW a \in Asked, NEW S, Depends[a] \subseteq S,
         \A b \in S \cap Asked : Depends[b] \subseteq S
  PROVE  Ancestors(a) \subseteq S
  BY DEF Ancestors

\* Every other part of the estimand hangs on the template.
LEMMA EveryPartHangsOnTheTemplate ==
  \A a \in EstimandFacts : a # "template" => "template" \in Depends[a]
  BY DEF EstimandFacts, MethodFacts, TargetRoles, Depends

\* Which facts are asked for, and where they belong.
LEMMA NamesAreAddresses ==
  /\ EstimandFacts \subseteq Asked /\ Asked \subseteq Addresses
  /\ "order" \in StudyFacts /\ "order" \notin EstimandFacts \cup QuestionFacts
  /\ "dependence" \in StudyFacts /\ "dependence" \notin EstimandFacts \cup QuestionFacts
  /\ StudyFacts \subseteq Asked
  /\ {"goal", "causal"} = QuestionFacts
  /\ {"template", "basis"} \subseteq EstimandFacts
  /\ "template" \notin QuestionFacts
  /\ EstimandFacts \cap QuestionFacts = {}
  BY DEF EstimandFacts, MethodFacts, TargetRoles, Asked, Addresses, StudyFacts, QuestionFacts,
         Context

------------------------------------------------------------------------------
(* What the rules read.                                                     *)

\* A rule or a profile with further facts keeps its own.
LEMMA WithIs ==
  ASSUME NEW f, NEW g
  PROVE  /\ DOMAIN With(f, g) = DOMAIN f \cup DOMAIN g
         /\ \A a \in DOMAIN f : With(f, g)[a] = f[a]
         /\ \A a \in DOMAIN g \ DOMAIN f : With(f, g)[a] = g[a]
  BY DEF With

CommonFacts == {"goal", "causal", "template", "basis", "scale", "target", "dependence"}
                 \cup LowSeverity

\* The requirements that all methods have.
LEMMA CommonIs ==
  ASSUME NEW g, NEW t, NEW b, NEW s, NEW c, NEW d
  PROVE  LET r == Common(g, t, b, s, c, d)
         IN  /\ DOMAIN r = CommonFacts
             /\ r["template"] = Singles({t}) /\ r["target"] = Singles({c})
             /\ r["dependence"] = Singles({d})
             /\ r["weight"] = Empty /\ r["cluster"] = Empty
  BY DEF Common, CommonFacts, LowSeverity

\* What each method requires, as far as the proofs need it.
RuleCase(r, template, target, dependence, roles) ==
  /\ DOMAIN r = CommonFacts \cup roles
  /\ r["template"] = Singles({template}) /\ r["target"] = Singles({target})
  /\ r["dependence"] = Singles({dependence})
  /\ r["weight"] = Empty /\ r["cluster"] = Empty
  /\ \A a \in roles \ {"contrast"} : r[a] = NonEmpty

\* Further roles leave the other requirements as they are.
LEMMA RuleWith ==
  ASSUME NEW r, NEW template, NEW target, NEW dependence, NEW roles, NEW more,
         RuleCase(r, template, target, dependence, roles),
         (DOMAIN more) \cap (CommonFacts \cup roles) = {},
         \A a \in (DOMAIN more) \ {"contrast"} : more[a] = NonEmpty
  PROVE  RuleCase(With(r, more), template, target, dependence, roles \cup DOMAIN more)
<1> DEFINE w == With(r, more)
<1>1. /\ DOMAIN w = DOMAIN r \cup DOMAIN more
      /\ \A a \in DOMAIN r : w[a] = r[a]
      /\ \A a \in DOMAIN more \ DOMAIN r : w[a] = more[a]
  BY WithIs
<1> HIDE DEF w
<1>2. DOMAIN r = CommonFacts \cup roles /\ \A a \in roles \ {"contrast"} : r[a] = NonEmpty
  BY DEF RuleCase
<1>3. /\ w["template"] = r["template"] /\ w["target"] = r["target"]
      /\ w["dependence"] = r["dependence"]
      /\ w["weight"] = r["weight"] /\ w["cluster"] = r["cluster"]
  BY <1>1, <1>2 DEF CommonFacts, LowSeverity
<1>4. \A a \in (roles \cup DOMAIN more) \ {"contrast"} : w[a] = NonEmpty
  BY <1>1, <1>2
<1>5. RuleCase(w, template, target, dependence, roles \cup DOMAIN more)
  BY <1>1, <1>2, <1>3, <1>4 DEF RuleCase
<1> QED
  BY <1>5 DEF w

\* The common requirements are a rule without roles.
LEMMA CommonCase ==
  \A g, t, b, s, c, d : RuleCase(Common(g, t, b, s, c, d), t, c, d, {})
<1> SUFFICES ASSUME NEW g, NEW t, NEW b, NEW s, NEW c, NEW d
             PROVE  RuleCase(Common(g, t, b, s, c, d), t, c, d, {})
  OBVIOUS
<1> DEFINE r == Common(g, t, b, s, c, d)
<1>1. /\ DOMAIN r = CommonFacts
      /\ r["template"] = Singles({t}) /\ r["target"] = Singles({c})
      /\ r["dependence"] = Singles({d})
      /\ r["weight"] = Empty /\ r["cluster"] = Empty
  BY CommonIs
<1> HIDE DEF r
<1>2. RuleCase(r, t, c, d, {})
  BY <1>1 DEF RuleCase
<1> QED
  BY <1>2 DEF r

\* The six methods of the Method Space.
LEMMA RulesAre ==
  /\ Methods = {"summary", "frequency", "pearson", "spearman", "welch", "paired"}
  /\ RuleCase(Rules["summary"], "summary", "not_applicable", "independent", {"outcome"})
  /\ RuleCase(Rules["frequency"], "frequency_distribution", "not_applicable", "independent",
              {"outcome"})
  /\ RuleCase(Rules["pearson"], "association", "product_moment", "independent",
              {"outcome", "predictor"})
  /\ RuleCase(Rules["spearman"], "association", "rank_monotonic", "independent",
              {"outcome", "predictor"})
  /\ RuleCase(Rules["welch"], "group_contrast", "not_applicable", "independent",
              {"contrast", "outcome", "group"})
  /\ RuleCase(Rules["paired"], "within_unit_change", "not_applicable", "paired",
              {"contrast", "outcome", "repeated", "order"})
<1>1. /\ Methods = {"summary", "frequency", "pearson", "spearman", "welch", "paired"}
      /\ Rules["summary"] = Descriptive("summary")
      /\ Rules["frequency"] = Descriptive("frequency_distribution")
      /\ Rules["pearson"] = Association("product_moment")
      /\ Rules["spearman"] = Association("rank_monotonic")
      /\ Rules["welch"] = With(Comparison("group_contrast", "independent"),
                               [group |-> NonEmpty])
      /\ Rules["paired"] = With(Comparison("within_unit_change", "paired"),
                                [repeated |-> NonEmpty, order |-> NonEmpty])
  BY DEF Methods, Rules
<1>2. ASSUME NEW t PROVE RuleCase(Descriptive(t), t, "not_applicable", "independent", {"outcome"})
  <2> DEFINE more == [outcome |-> NonEmpty]
             r == Common({"describe"}, t, "descriptive", "distribution", "not_applicable",
                         "independent")
  <2>1. RuleCase(r, t, "not_applicable", "independent", {})
    BY CommonCase
  <2>2. DOMAIN more = {"outcome"} /\ more["outcome"] = NonEmpty
    OBVIOUS
  <2>3. Descriptive(t) = With(r, more)
    BY DEF Descriptive
  <2> HIDE DEF more, r
  <2>4. (DOMAIN more) \cap (CommonFacts \cup {}) = {}
    BY <2>2 DEF CommonFacts, LowSeverity
  <2>5. \A a \in (DOMAIN more) \ {"contrast"} : more[a] = NonEmpty
    BY <2>2
  <2>6. RuleCase(With(r, more), t, "not_applicable", "independent", {} \cup DOMAIN more)
    BY <2>1, <2>4, <2>5, RuleWith
  <2>7. {} \cup DOMAIN more = {"outcome"}
    BY <2>2
  <2> QED
    BY <2>3, <2>6, <2>7
<1>3. ASSUME NEW c
      PROVE  RuleCase(Association(c), "association", c, "independent", {"outcome", "predictor"})
  <2> DEFINE more == [outcome |-> NonEmpty, predictor |-> NonEmpty]
             r == Common({"associate"}, "association", "associational", "correlation", c,
                         "independent")
  <2>1. RuleCase(r, "association", c, "independent", {})
    BY CommonCase
  <2>2. DOMAIN more = {"outcome", "predictor"} /\ more["outcome"] = NonEmpty
        /\ more["predictor"] = NonEmpty
    OBVIOUS
  <2>3. Association(c) = With(r, more)
    BY DEF Association
  <2> HIDE DEF more, r
  <2>4. (DOMAIN more) \cap (CommonFacts \cup {}) = {}
    BY <2>2 DEF CommonFacts, LowSeverity
  <2>5. \A a \in (DOMAIN more) \ {"contrast"} : more[a] = NonEmpty
    BY <2>2
  <2>6. RuleCase(With(r, more), "association", c, "independent", {} \cup DOMAIN more)
    BY <2>1, <2>4, <2>5, RuleWith
  <2>7. {} \cup DOMAIN more = {"outcome", "predictor"}
    BY <2>2
  <2> QED
    BY <2>3, <2>6, <2>7
<1>4. ASSUME NEW t, NEW d
      PROVE  RuleCase(Comparison(t, d), t, "not_applicable", d, {"contrast", "outcome"})
  <2> DEFINE more == [contrast |-> Singles({"pairwise"}), outcome |-> NonEmpty]
             r == Common({"compare", "estimate_effect"}, t, "associational", "difference",
                         "not_applicable", d)
  <2>1. RuleCase(r, t, "not_applicable", d, {})
    BY CommonCase
  <2>2. DOMAIN more = {"contrast", "outcome"} /\ more["outcome"] = NonEmpty
    OBVIOUS
  <2>3. Comparison(t, d) = With(r, more)
    BY DEF Comparison
  <2> HIDE DEF more, r
  <2>4. (DOMAIN more) \cap (CommonFacts \cup {}) = {}
    BY <2>2 DEF CommonFacts, LowSeverity
  <2>5. \A a \in (DOMAIN more) \ {"contrast"} : more[a] = NonEmpty
    BY <2>2
  <2>6. RuleCase(With(r, more), t, "not_applicable", d, {} \cup DOMAIN more)
    BY <2>1, <2>4, <2>5, RuleWith
  <2>7. {} \cup DOMAIN more = {"contrast", "outcome"}
    BY <2>2
  <2> QED
    BY <2>3, <2>6, <2>7
<1>5. RuleCase(Rules["welch"], "group_contrast", "not_applicable", "independent",
               {"contrast", "outcome", "group"})
  <2> DEFINE more == [group |-> NonEmpty]
             r == Comparison("group_contrast", "independent")
             roles == {"contrast", "outcome"}
  <2>1. RuleCase(r, "group_contrast", "not_applicable", "independent", roles)
    BY <1>4
  <2>2. DOMAIN more = {"group"} /\ more["group"] = NonEmpty
    OBVIOUS
  <2>3. Rules["welch"] = With(r, more)
    BY <1>1
  <2> HIDE DEF more, r
  <2>4. (DOMAIN more) \cap (CommonFacts \cup roles) = {}
    BY <2>2 DEF CommonFacts, LowSeverity
  <2>5. \A a \in (DOMAIN more) \ {"contrast"} : more[a] = NonEmpty
    BY <2>2
  <2> HIDE DEF roles
  <2>6. RuleCase(With(r, more), "group_contrast", "not_applicable", "independent",
                 roles \cup DOMAIN more)
    BY <2>1, <2>4, <2>5, RuleWith
  <2>7. roles \cup DOMAIN more = {"contrast", "outcome", "group"}
    BY <2>2 DEF roles
  <2> QED
    BY <2>3, <2>6, <2>7
<1>6. RuleCase(Rules["paired"], "within_unit_change", "not_applicable", "paired",
               {"contrast", "outcome", "repeated", "order"})
  <2> DEFINE more == [repeated |-> NonEmpty, order |-> NonEmpty]
             r == Comparison("within_unit_change", "paired")
             roles == {"contrast", "outcome"}
  <2>1. RuleCase(r, "within_unit_change", "not_applicable", "paired", roles)
    BY <1>4
  <2>2. DOMAIN more = {"repeated", "order"} /\ more["repeated"] = NonEmpty
        /\ more["order"] = NonEmpty
    OBVIOUS
  <2>3. Rules["paired"] = With(r, more)
    BY <1>1
  <2> HIDE DEF more, r
  <2>4. (DOMAIN more) \cap (CommonFacts \cup roles) = {}
    BY <2>2 DEF CommonFacts, LowSeverity
  <2>5. \A a \in (DOMAIN more) \ {"contrast"} : more[a] = NonEmpty
    BY <2>2
  <2> HIDE DEF roles
  <2>6. RuleCase(With(r, more), "within_unit_change", "not_applicable", "paired",
                 roles \cup DOMAIN more)
    BY <2>1, <2>4, <2>5, RuleWith
  <2>7. roles \cup DOMAIN more = {"contrast", "outcome", "repeated", "order"}
    BY <2>2 DEF roles
  <2> QED
    BY <2>3, <2>6, <2>7
<1> QED
  BY <1>1, <1>2, <1>3, <1>5, <1>6

\* A rule reads facts that the registry asks for.
LEMMA RulesReadAsked ==
  \A m \in Methods : DOMAIN Rules[m] \subseteq Asked
<1>1. ASSUME NEW r, NEW t, NEW c, NEW d, NEW roles, RuleCase(r, t, c, d, roles),
             roles \subseteq Asked
      PROVE  DOMAIN r \subseteq Asked
  <2>1. CommonFacts \subseteq Asked
    BY DEF CommonFacts, LowSeverity, Asked, QuestionFacts, EstimandFacts, MethodFacts, StudyFacts
  <2> QED
    BY <1>1, <2>1 DEF RuleCase
<1>2. {"contrast", "outcome", "predictor", "group", "repeated", "order"} \subseteq Asked
  BY DEF Asked, EstimandFacts, MethodFacts, TargetRoles, StudyFacts
<1> QED
  BY <1>1, <1>2, RulesAre

\* Every method asks whether there are weights and clusters, and wants none.
LEMMA LowRules ==
  ASSUME NEW m \in Methods, NEW a \in LowSeverity
  PROVE  a \in DOMAIN Rules[m] /\ Rules[m][a] = Empty
<1>1. ASSUME NEW r, NEW t, NEW c, NEW d, NEW roles, RuleCase(r, t, c, d, roles)
      PROVE  a \in DOMAIN r /\ r[a] = Empty
  BY <1>1 DEF RuleCase, CommonFacts, LowSeverity
<1>2. CASE m = "summary"
  BY <1>1, <1>2, RulesAre
<1>3. CASE m = "frequency"
  BY <1>1, <1>3, RulesAre
<1>4. CASE m = "pearson"
  BY <1>1, <1>4, RulesAre
<1>5. CASE m = "spearman"
  BY <1>1, <1>5, RulesAre
<1>6. CASE m = "welch"
  BY <1>1, <1>6, RulesAre
<1>7. CASE m = "paired"
  BY <1>1, <1>7, RulesAre
<1> QED
  BY <1>2, <1>3, <1>4, <1>5, <1>6, <1>7, RulesAre

\* A rule that reads a list of variables wants it to be empty, or it wants it not to be.
ListFacts == TargetRoles \cup {"order"} \cup LowSeverity

LEMMA RulesOfLists ==
  ASSUME NEW m \in Methods
  PROVE  /\ \A a \in (DOMAIN Rules[m]) \cap ListFacts : Rules[m][a] \in {NonEmpty, Empty}
         /\ \A a \in {"repeated", "order"} :
              a \in DOMAIN Rules[m] <=> m = "paired"
         /\ {"dependence", "weight", "cluster"} \subseteq DOMAIN Rules[m]
         /\ m = "paired" => /\ Rules[m]["dependence"] = Singles({"paired"})
                            /\ Rules[m]["repeated"] = NonEmpty
<1>1. \A a \in ListFacts \ LowSeverity : a \notin CommonFacts /\ a # "contrast"
  BY DEF ListFacts, LowSeverity, TargetRoles, CommonFacts
<1>2. /\ {"repeated", "order"} \cap CommonFacts = {}
      /\ {"dependence", "weight", "cluster"} \subseteq CommonFacts
      /\ LowSeverity = {"weight", "cluster"}
  BY DEF CommonFacts, LowSeverity
<1>3. ASSUME NEW r, NEW t, NEW c, NEW d, NEW roles, RuleCase(r, t, c, d, roles)
      PROVE  /\ \A a \in (DOMAIN r) \cap ListFacts : r[a] \in {NonEmpty, Empty}
             /\ \A a \in {"repeated", "order"} : a \in DOMAIN r <=> a \in roles
             /\ {"dependence", "weight", "cluster"} \subseteq DOMAIN r
  <2>1. DOMAIN r = CommonFacts \cup roles
        /\ r["weight"] = Empty /\ r["cluster"] = Empty
        /\ \A a \in roles \ {"contrast"} : r[a] = NonEmpty
    BY <1>3 DEF RuleCase
  <2> QED
    BY <1>1, <1>2, <2>1
<1>4. CASE m = "summary"
  BY <1>3, <1>4, RulesAre
<1>5. CASE m = "frequency"
  BY <1>3, <1>5, RulesAre
<1>6. CASE m = "pearson"
  BY <1>3, <1>6, RulesAre
<1>7. CASE m = "spearman"
  BY <1>3, <1>7, RulesAre
<1>8. CASE m = "welch"
  BY <1>3, <1>8, RulesAre
<1>9. CASE m = "paired"
  <2>1. RuleCase(Rules[m], "within_unit_change", "not_applicable", "paired",
                 {"contrast", "outcome", "repeated", "order"})
    BY <1>9, RulesAre
  <2>2. /\ Rules[m]["dependence"] = Singles({"paired"})
        /\ Rules[m]["repeated"] = NonEmpty
    BY <2>1 DEF RuleCase
  <2> QED
    BY <1>3, <1>9, <2>1, <2>2
<1> QED
  BY <1>4, <1>5, <1>6, <1>7, <1>8, <1>9, RulesAre

------------------------------------------------------------------------------
(* What an answer invalidates.                                              *)

\* What the code invalidates hangs, by the registry, on the question that invalidates it.
LEMMA InvalidatesDependents ==
  ASSUME NEW q, NEW a \in Invalidates(q)
  PROVE  a \in EstimandFacts /\ q \in Ancestors(a)
<1>1. a \in EstimandFacts
  BY NamesAreAddresses DEF Invalidates
<1>2. a \in Asked
  BY <1>1, NamesAreAddresses
<1>3. CASE q = "template"
  BY <1>1, <1>2, <1>3, EveryPartHangsOnTheTemplate, DependsAreAncestors DEF Invalidates
<1>4. CASE q = "causal"
  <2>1. a = "basis" /\ "causal" \in Depends["basis"]
    BY <1>4 DEF Invalidates, Depends
  <2> QED
    BY <1>1, <1>2, <1>4, <2>1, DependsAreAncestors
<1>5. CASE q = "goal"
  <2>1. "goal" \in Depends["template"] /\ "template" \in Asked
    BY NamesAreAddresses DEF Depends
  <2>2. CASE a = "template"
    BY <1>1, <1>2, <1>5, <2>1, <2>2, DependsAreAncestors
  <2>3. CASE a # "template"
    <3>1. "template" \in Depends[a] \cap Asked
      BY <1>1, <2>1, <2>3, EveryPartHangsOnTheTemplate
    <3> QED
      BY <1>1, <1>2, <1>5, <2>1, <3>1, DependsAreAncestors
  <2> QED
    BY <2>2, <2>3
<1> QED
  BY <1>1, <1>3, <1>4, <1>5 DEF Invalidates

\* And the other way round for the parts of the estimand: whatever hangs on the goal, the
\* causal intent or the template is invalidated with it.
LEMMA DependentsAreInvalidated ==
  ASSUME NEW a \in EstimandFacts, NEW q \in {"goal", "causal", "template"}, q \in Ancestors(a)
  PROVE  a \in Invalidates(q) /\ a # q
<1>1. a \in Asked
  BY NamesAreAddresses
<1>2. CASE q = "goal"
  BY <1>2, NamesAreAddresses DEF Invalidates
<1>3. CASE q = "causal"
  <2> DEFINE S == Addresses \ {"causal", "basis"}
  <2>1. SUFFICES ASSUME a # "basis" PROVE FALSE
    BY <1>3, NamesAreAddresses DEF Invalidates
  <2>2. Depends[a] \subseteq S
    BY <2>1 DEF EstimandFacts, MethodFacts, TargetRoles, Depends, Addresses, Asked, Context,
                QuestionFacts, StudyFacts
  <2>3. \A b \in S \cap Asked : Depends[b] \subseteq S
    BY DEF EstimandFacts, MethodFacts, TargetRoles, Depends, Addresses, Asked, Context,
           QuestionFacts, StudyFacts
  <2>4. Ancestors(a) \subseteq S
    BY <1>1, <2>2, <2>3, AncestorsWithin
  <2> QED
    BY <1>3, <2>4
<1>4. CASE q = "template"
  <2>1. SUFFICES ASSUME a = "template" PROVE FALSE
    BY <1>4, NamesAreAddresses DEF Invalidates
  <2>2. Depends["template"] \subseteq {"goal"} /\ Depends["goal"] = {}
    BY DEF Depends
  <2>3. Ancestors(a) \subseteq {"goal"}
    BY <1>1, <2>1, <2>2, AncestorsWithin
  <2> QED
    BY <1>4, <2>3
<1> QED
  BY <1>2, <1>3, <1>4

------------------------------------------------------------------------------
(* What one answer does to the facts.                                       *)

\* A revision touches the question's own fact and facts that depend on it.
LEMMA RevisedKeeps ==
  ASSUME NEW F, NEW q, NEW f, NEW a \in Addresses, a # q, ~(a \in Asked /\ q \in Ancestors(a))
  PROVE  Revised(F, q, f)[a] = F[a]
<1>1. a \notin Invalidates(q)
  BY InvalidatesDependents, NamesAreAddresses
<1>2. ~(a = "order" /\ q = "dependence")
  <2>1. SUFFICES ASSUME a = "order", q = "dependence" PROVE FALSE
    OBVIOUS
  <2>2. "order" \in Asked /\ "dependence" \in Depends["order"]
    BY NamesAreAddresses DEF Depends
  <2> QED
    BY <2>1, <2>2, DependsAreAncestors
<1> QED
  BY <1>1, <1>2 DEF Revised

\* The fact that is asked for is what the user says.
LEMMA RevisedAnswers ==
  ASSUME NEW F, NEW q \in Addresses, NEW f
  PROVE  Revised(F, q, f)[q] = f
  BY DEF Revised

\* What a change invalidates is not current afterwards.
LEMMA RevisedInvalidates ==
  ASSUME NEW F, NEW q, NEW f, NEW a \in Invalidates(q), a # q, Changes(F, q, f)
  PROVE  ~Current(Revised(F, q, f)[a])
<1>1. a \in Addresses /\ a # "order"
  BY InvalidatesDependents, NamesAreAddresses
<1>2. Revised(F, q, f)[a] = Invalidate(F[a])
  BY <1>1 DEF Revised
<1> QED
  BY <1>2 DEF Invalidate, Stale, Unknown, Fact, Current

\* No part of the estimand becomes current by an answer to another question.
LEMMA RevisedConfirmsNothing ==
  ASSUME NEW F, NEW q, NEW f, NEW a \in EstimandFacts, a # q, Current(Revised(F, q, f)[a])
  PROVE  Current(F[a])
<1>1. a \in Addresses /\ a # "order"
  BY NamesAreAddresses
<1>2. Revised(F, q, f)[a] \in {F[a], Invalidate(F[a])}
  BY <1>1 DEF Revised
<1>3. ~Current(Invalidate(F[a]))
  BY DEF Invalidate, Stale, Unknown, Fact, Current
<1> QED
  BY <1>2, <1>3

\* A candidate proposes every component that its answer revises: to put its components
\* into the request it was built on is to revise that request.
LEMMA ComponentsCarryTheRevision ==
  ASSUME NEW F, NEW q, NEW f, NEW a \in Addresses, Component(a) \notin Components(F, q, f)
  PROVE  Revised(F, q, f)[a] = F[a]
<1>1. a # q
  BY DEF Components
<1>2. ~(Changes(F, q, f) /\ a \in Invalidates(q))
  <2>1. SUFFICES ASSUME Changes(F, q, f), a \in Invalidates(q) PROVE FALSE
    OBVIOUS
  <2>2. Component(a) = "estimand"
    BY <2>1, InvalidatesDependents, NamesAreAddresses DEF Component
  <2>3. CASE q = "template"
    BY <2>2, <2>3, NamesAreAddresses DEF Components, Component
  <2>4. CASE q \in {"goal", "causal"}
    BY <2>1, <2>2, <2>4, NamesAreAddresses DEF Components
  <2> QED
    BY <2>1, <2>3, <2>4 DEF Invalidates
<1>3. ~(a = "order" /\ q = "dependence")
  BY NamesAreAddresses DEF Components, Component
<1> QED
  BY <1>1, <1>2, <1>3 DEF Revised

------------------------------------------------------------------------------
(* The invariant.                                                           *)

\* The log is a sequence, and its questions are the registry's.
Typed ==
  /\ \E S : log \in Seq(S)
  /\ \A i \in DOMAIN log : log[i].question \in Asked

\* A candidate that can still be committed is the request as it is, revised by one answer.
Fresh ==
  \A o \in offers : BaseIsCurrent(o) =>
    /\ o.question \in Asked
    /\ o.facts = Revised(facts, o.question, o.answer)
    /\ o.components = Components(facts, o.question, o.answer)
    /\ o.changed = Changes(facts, o.question, o.answer)

\* A candidate or a passport is never of the future.
Based ==
  /\ \A o \in offers : o.base \in 0..Len(log)
  /\ passport.base \in 0..Len(log)

\* There is something to be clarified while a question is asked or answered, and still
\* after an answer that was "not sure" ...
StillOpen ==
  /\ (passport.action = "clarify" /\ passport.base = Len(log)) => MustClarify(facts)
  /\ \A o \in offers : BaseIsCurrent(o) => MustClarify(facts)
  /\ (log # <<>> /\ log[Len(log)].answer = Refused) => MustClarify(facts)

\* ... and then the passport neither recommends nor finds that nothing fits.
OpenIsUndecided ==
  (passport # NoPassport /\ passport.base = Len(log) /\ MustClarify(facts))
    => /\ passport.action # "recommend_local"
       /\ passport.reason # "no_stable_supported_capability"

IInv ==
  /\ Typed /\ Fresh /\ Based /\ StillOpen /\ OpenIsUndecided
  /\ NoAnswerIsLost /\ NothingOutlivesItsGoal

\* A commit is the revision by one answer.
LEMMA CommitRevises ==
  ASSUME Typed, Fresh, NEW o \in offers, Commit(o)
  PROVE  /\ facts' = Revised(facts, o.question, o.answer)
         /\ o.question \in Asked
         /\ o.changed = Changes(facts, o.question, o.answer)
         /\ Len(log') = Len(log) + 1 /\ Len(log) \in Nat
         /\ DOMAIN log' = 1..(Len(log) + 1) /\ DOMAIN log = 1..Len(log)
         /\ \A i \in 1..Len(log) : log'[i] = log[i]
         /\ log'[Len(log) + 1] = [question |-> o.question, answer |-> o.answer,
                                  changed |-> o.changed, due |-> o.due]
<1> DEFINE e == [question |-> o.question, answer |-> o.answer,
                 changed |-> o.changed, due |-> o.due]
<1>1. BaseIsCurrent(o) /\ log' = Append(log, e)
  BY DEF Commit
<1>2. /\ o.question \in Asked
      /\ o.facts = Revised(facts, o.question, o.answer)
      /\ o.components = Components(facts, o.question, o.answer)
      /\ o.changed = Changes(facts, o.question, o.answer)
  BY <1>1 DEF Fresh
<1>3. facts' = [a \in Addresses |->
                  IF Component(a) \in o.components THEN o.facts[a] ELSE facts[a]]
  BY DEF Commit
<1>4. ASSUME NEW a \in Addresses
      PROVE  facts'[a] = Revised(facts, o.question, o.answer)[a]
  BY <1>2, <1>3, ComponentsCarryTheRevision
<1>5. facts' = Revised(facts, o.question, o.answer)
  BY <1>3, <1>4 DEF Revised
<1>6. /\ Len(log') = Len(log) + 1
      /\ DOMAIN log' = 1..(Len(log) + 1) /\ DOMAIN log = 1..Len(log) /\ Len(log) \in Nat
      /\ \A i \in 1..Len(log) : log'[i] = log[i]
      /\ log'[Len(log) + 1] = e
  BY <1>1 DEF Typed
<1> QED
  BY <1>2, <1>5, <1>6

\* What was touched stays touched, and what the answer is about is touched now.
LEMMA TouchedNow ==
  ASSUME Typed, Fresh, NEW o \in offers, Commit(o), NEW a, NEW i \in 0..Len(log),
         ~TouchedAfter(i, a)'
  PROVE  ~TouchedAfter(i, a) /\ o.question # a /\ o.question \notin Ancestors(a)
<1>1. /\ Len(log') = Len(log) + 1 /\ Len(log) \in Nat
      /\ \A j \in 1..Len(log) : log'[j] = log[j]
      /\ log'[Len(log) + 1].question = o.question
  BY CommitRevises DEF Commit
<1>2. \A j \in (i + 1)..(Len(log) + 1) : log'[j].question \notin {a} \cup Ancestors(a)
  BY <1>1 DEF TouchedAfter, Ancestors
<1>3. \A j \in (i + 1)..Len(log) : log[j].question \notin {a} \cup Ancestors(a)
  BY <1>1, <1>2
<1>4. o.question \notin {a} \cup Ancestors(a)
  BY <1>1, <1>2
<1> QED
  BY <1>3, <1>4 DEF TouchedAfter

\* A commit keeps what the user said before.
LEMMA CommitKeepsAnswers ==
  ASSUME IInv, NEW o \in offers, Commit(o)
  PROVE  NoAnswerIsLost'
<1>1. /\ facts' = Revised(facts, o.question, o.answer) /\ o.question \in Asked
      /\ Len(log') = Len(log) + 1 /\ Len(log) \in Nat
      /\ DOMAIN log' = 1..(Len(log) + 1) /\ DOMAIN log = 1..Len(log)
      /\ \A i \in 1..Len(log) : log'[i] = log[i]
      /\ log'[Len(log) + 1].question = o.question /\ log'[Len(log) + 1].answer = o.answer
  BY CommitRevises DEF Commit, IInv
<1>2. first' = first
  BY DEF Commit
\* An entry of the log is about a fact of the registry.
<1>3. Asked \subseteq Addresses /\ \A i \in 1..Len(log) : log[i].question \in Addresses
  BY <1>1, NamesAreAddresses DEF Typed, IInv
\* What is not touched now is as it was.
<1>4. ASSUME NEW a \in Addresses, NEW i \in 0..Len(log), ~TouchedAfter(i, a)'
      PROVE  ~TouchedAfter(i, a) /\ facts'[a] = facts[a]
  <2>1. ~TouchedAfter(i, a) /\ o.question # a /\ o.question \notin Ancestors(a)
    BY <1>4, TouchedNow DEF Commit, IInv
  <2> QED
    BY <1>1, <2>1, RevisedKeeps
<1>5. ASSUME NEW i \in DOMAIN log', NEW a, a = log'[i].question, ~TouchedAfter(i, a)'
      PROVE  facts'[a] = log'[i].answer
  <2>1. CASE i \in 1..Len(log)
    <3>1. a = log[i].question /\ log'[i] = log[i] /\ a \in Addresses /\ i \in 0..Len(log)
      BY <1>1, <1>3, <1>5, <2>1
    <3>2. ~TouchedAfter(i, a) /\ facts'[a] = facts[a]
      BY <1>4, <1>5, <3>1 DEF TouchedAfter
    <3>3. facts[a] = log[i].answer
      BY <1>1, <2>1, <3>1, <3>2 DEF NoAnswerIsLost, TouchedAfter, IInv
    <3> QED
      BY <3>1, <3>2, <3>3
  <2>2. CASE i = Len(log) + 1
    BY <1>1, <1>3, <1>5, <2>2, RevisedAnswers
  <2> QED
    BY <1>1, <1>5, <2>1, <2>2
<1>6. ASSUME NEW a \in Addresses, ~TouchedAfter(0, a)'
      PROVE  facts'[a] = first'[a]
  <2>1. ~TouchedAfter(0, a) /\ facts'[a] = facts[a]
    BY <1>1, <1>4, <1>6
  <2> QED
    BY <1>2, <2>1 DEF NoAnswerIsLost, IInv
<1> QED
  BY <1>5, <1>6 DEF NoAnswerIsLost, TouchedAfter

\* A commit makes no part of the estimand current that hangs on something changed.
LEMMA CommitOutlivesNothing ==
  ASSUME IInv, NEW o \in offers, Commit(o)
  PROVE  NothingOutlivesItsGoal'
<1>1. /\ facts' = Revised(facts, o.question, o.answer)
      /\ o.changed = Changes(facts, o.question, o.answer)
      /\ Len(log') = Len(log) + 1 /\ Len(log) \in Nat
      /\ DOMAIN log' = 1..(Len(log) + 1) /\ DOMAIN log = 1..Len(log)
      /\ \A i \in 1..Len(log) : log'[i] = log[i]
      /\ log'[Len(log) + 1].question = o.question /\ log'[Len(log) + 1].changed = o.changed
  BY CommitRevises DEF Commit, IInv
<1>2. SUFFICES ASSUME NEW i \in DOMAIN log', NEW a \in EstimandFacts, log'[i].changed,
                      log'[i].question \in Ancestors(a) \cap {"goal", "causal", "template"},
                      Current(facts'[a])
               PROVE  \E j \in (i + 1)..Len(log') : log'[j].question = a
  BY DEF NothingOutlivesItsGoal
<1>3. CASE i \in 1..Len(log) /\ o.question = a
  BY <1>1, <1>3
<1>4. CASE i \in 1..Len(log) /\ o.question # a
  <2>1. Current(facts[a])
    BY <1>1, <1>2, <1>4, RevisedConfirmsNothing
  <2>2. \E j \in (i + 1)..Len(log) : log[j].question = a
    BY <1>1, <1>2, <1>4, <2>1 DEF NothingOutlivesItsGoal, IInv
  <2> QED
    BY <1>1, <1>4, <2>2
<1>5. CASE i = Len(log) + 1
  <2>1. o.question \in Ancestors(a) \cap {"goal", "causal", "template"} /\ o.changed
    BY <1>1, <1>2, <1>5
  <2>2. a \in Invalidates(o.question) /\ a # o.question
    BY <2>1, DependentsAreInvalidated
  <2>3. ~Current(facts'[a])
    BY <1>1, <2>1, <2>2, RevisedInvalidates
  <2> QED
    BY <1>2, <2>3
<1> QED
  BY <1>1, <1>2, <1>3, <1>4, <1>5

------------------------------------------------------------------------------
(* What "not sure" does.                                                    *)

\* A fact that becomes refused settles nothing: as long as there was something to be
\* clarified, there still is.
LEMMA RefusalSettlesNothing ==
  ASSUME NEW F, NEW q, MustClarify(F)
  PROVE  MustClarify(Revised(F, q, Refused))
<1> DEFINE G == Revised(F, q, Refused)
<1>1. ~Changes(F, q, Refused) /\ ~Current(Refused)
  BY DEF Changes, Refused, Fact, Current
<1>2. OrderAfter(F, Refused) = F["order"]
  BY DEF OrderAfter, Refused, Confirmed, Fact
<1>3. \A a \in Addresses : G[a] = F[a] \/ ~Current(G[a])
  BY <1>1, <1>2 DEF Revised
<1>4. \A a \in Addresses : a # q => G[a] = F[a]
  BY <1>1, <1>2 DEF Revised
<1>5. \A a \in Addresses : ~Current(F[a]) => ~Current(G[a])
  BY <1>3
\* The rules read facts that a request has.
<1>6. \A m \in Methods : DOMAIN Rules[m] \subseteq Addresses
  BY RulesReadAsked, NamesAreAddresses
<1>7. \A m \in Methods : ExcludedBy(G, m) => ExcludedBy(F, m)
  BY <1>3, <1>6 DEF ExcludedBy
<1>8. \A m \in Methods : Unresolved(F, m) \subseteq Unresolved(G, m)
  BY <1>5, <1>6 DEF Unresolved
\* A method that is settled does not ask for the refused fact ...
<1>9. Stable(G) \subseteq Stable(F)
  <2>1. SUFFICES ASSUME NEW m \in Stable(G) PROVE m \in Stable(F)
    OBVIOUS
  <2>2. m \in Methods /\ ~ExcludedBy(G, m) /\ \A a \in DOMAIN Rules[m] : Current(G[a])
    BY DEF Stable, Possible, Unresolved
  <2>3. \A a \in DOMAIN Rules[m] : G[a] = F[a]
    BY <1>3, <1>6, <2>2
  <2>4. ~ExcludedBy(F, m) /\ Unresolved(F, m) = {}
    BY <2>2, <2>3 DEF ExcludedBy, Unresolved
  <2> QED
    BY <2>2, <2>4 DEF Stable, Possible
\* ... and one that is possible stays so, with what it asked for.
<1>10. Blockers(F) \subseteq Blockers(G)
  BY <1>7, <1>8 DEF Blockers, Possible
<1> QED
  BY <1>9, <1>10 DEF MustClarify

------------------------------------------------------------------------------
(* The theorems.                                                            *)

LEMMA InitEstablishes == Init => IInv
<1> SUFFICES ASSUME Init PROVE IInv
  OBVIOUS
<1>1. log = <<>> /\ Len(log) = 0 /\ DOMAIN log = {} /\ offers = {} /\ facts = first
      /\ passport = NoPassport
  BY DEF Init
<1>2. passport.base = 0 /\ passport.action = "none"
  BY <1>1 DEF NoPassport
<1>3. Typed
  BY <1>1 DEF Typed
<1>4. Fresh /\ Based /\ StillOpen /\ OpenIsUndecided
  BY <1>1, <1>2 DEF Fresh, Based, StillOpen, OpenIsUndecided
<1>5. NoAnswerIsLost /\ NothingOutlivesItsGoal
  BY <1>1 DEF NoAnswerIsLost, NothingOutlivesItsGoal
<1> QED
  BY <1>3, <1>4, <1>5 DEF IInv

LEMMA ResolveKeeps == IInv /\ Resolve => IInv'
<1> SUFFICES ASSUME IInv, Resolve PROVE IInv'
  OBVIOUS
<1>1. passport' = PassportOf(facts, budget) /\ UNCHANGED <<first, facts, budget, log, offers>>
  BY DEF Resolve
<1>2. /\ passport'.base = Len(log)
      /\ passport'.action = "clarify" => MustClarify(facts)
      /\ MustClarify(facts) => /\ passport'.action # "recommend_local"
                               /\ passport'.reason # "no_stable_supported_capability"
  BY <1>1 DEF PassportOf, Pass, Abstain, MustClarify
<1>3. Len(log) \in 0..Len(log)
  BY DEF IInv, Typed
<1>4. Typed' /\ Fresh' /\ NoAnswerIsLost' /\ NothingOutlivesItsGoal'
  BY <1>1 DEF IInv, Typed, Fresh, BaseIsCurrent, NoAnswerIsLost, TouchedAfter,
              NothingOutlivesItsGoal
<1>5. Based' /\ StillOpen' /\ OpenIsUndecided'
  BY <1>1, <1>2, <1>3 DEF IInv, Based, StillOpen, BaseIsCurrent, OpenIsUndecided
<1> QED
  BY <1>4, <1>5 DEF IInv

LEMMA ProposeKeeps == IInv /\ Propose => IInv'
<1> SUFFICES ASSUME IInv, Propose PROVE IInv'
  OBVIOUS
<1>1. /\ UNCHANGED <<first, facts, budget, log, passport>>
      /\ passport.action = "clarify" /\ passport.base = Len(log) /\ passport.question \in Asked
  BY DEF Propose
<1>2. PICK f : offers' = offers \cup
                {[base |-> Len(log), question |-> passport.question, answer |-> f,
                  changed |-> Changes(facts, passport.question, f),
                  facts |-> Revised(facts, passport.question, f),
                  components |-> Components(facts, passport.question, f),
                  due |-> passport.promise - QuestionCost(facts, passport.question)]}
  BY DEF Propose
<1>3. Len(log) \in 0..Len(log)
  BY DEF IInv, Typed
<1>4. Typed' /\ NoAnswerIsLost' /\ NothingOutlivesItsGoal' /\ OpenIsUndecided'
  BY <1>1 DEF IInv, Typed, NoAnswerIsLost, TouchedAfter, NothingOutlivesItsGoal,
              OpenIsUndecided
<1>5. Fresh'
  BY <1>1, <1>2 DEF IInv, Fresh, BaseIsCurrent
<1>6. Based' /\ StillOpen'
  BY <1>1, <1>2, <1>3 DEF IInv, Based, StillOpen, BaseIsCurrent
<1> QED
  BY <1>4, <1>5, <1>6 DEF IInv

LEMMA CommitKeeps ==
  ASSUME IInv, NEW o \in offers, Commit(o)
  PROVE  IInv'
<1>1. /\ facts' = Revised(facts, o.question, o.answer) /\ o.question \in Asked
      /\ Len(log') = Len(log) + 1 /\ Len(log) \in Nat
      /\ DOMAIN log' = 1..(Len(log) + 1) /\ DOMAIN log = 1..Len(log)
      /\ \A i \in 1..Len(log) : log'[i] = log[i]
      /\ log'[Len(log) + 1].question = o.question /\ log'[Len(log) + 1].answer = o.answer
  BY CommitRevises DEF Commit, IInv
<1>2. /\ BaseIsCurrent(o) /\ offers' = offers \ {o} /\ passport' = passport
      /\ log' = Append(log, [question |-> o.question, answer |-> o.answer,
                             changed |-> o.changed, due |-> o.due])
  BY DEF Commit
<1>3. Typed'
  <2>1. PICK S : log \in Seq(S)
    BY DEF IInv, Typed
  <2>2. log' \in Seq(S \cup {[question |-> o.question, answer |-> o.answer,
                              changed |-> o.changed, due |-> o.due]})
    BY <1>2, <2>1
  <2>3. \A i \in DOMAIN log' : log'[i].question \in Asked
    BY <1>1 DEF IInv, Typed
  <2> QED
    BY <2>2, <2>3 DEF Typed
\* No other candidate was built on the request as it is now.
<1>4. \A p \in offers' : ~BaseIsCurrent(p)'
  BY <1>1, <1>2 DEF IInv, Based, BaseIsCurrent
<1>5. Fresh' /\ Based'
  BY <1>1, <1>2, <1>4 DEF IInv, Fresh, Based, BaseIsCurrent
<1>6. passport'.base # Len(log')
  BY <1>1, <1>2 DEF IInv, Based
<1>7. log'[Len(log')].answer = Refused => MustClarify(facts')
  <2>1. MustClarify(facts)
    BY <1>2 DEF IInv, StillOpen
  <2> QED
    BY <1>1, <2>1, RefusalSettlesNothing
<1>8. StillOpen' /\ OpenIsUndecided'
  BY <1>4, <1>6, <1>7 DEF StillOpen, OpenIsUndecided, BaseIsCurrent
<1>9. NoAnswerIsLost'
  BY CommitKeepsAnswers DEF Commit
<1>10. NothingOutlivesItsGoal'
  BY CommitOutlivesNothing DEF Commit
<1> QED
  BY <1>3, <1>5, <1>8, <1>9, <1>10 DEF IInv

LEMMA RefuseStaleKeeps == IInv /\ (RefuseStale \/ UNCHANGED vars) => IInv'
<1> SUFFICES ASSUME IInv, RefuseStale \/ UNCHANGED vars PROVE IInv'
  OBVIOUS
<1>1. offers' \subseteq offers /\ UNCHANGED <<first, facts, budget, log, passport>>
  BY DEF RefuseStale, vars
<1>2. Typed' /\ NoAnswerIsLost' /\ NothingOutlivesItsGoal' /\ OpenIsUndecided'
  BY <1>1 DEF IInv, Typed, NoAnswerIsLost, TouchedAfter, NothingOutlivesItsGoal,
              OpenIsUndecided
<1>3. Fresh' /\ Based' /\ StillOpen'
  BY <1>1 DEF IInv, Fresh, Based, StillOpen, BaseIsCurrent
<1> QED
  BY <1>2, <1>3 DEF IInv

LEMMA NextKeeps == IInv /\ [Next]_vars => IInv'
<1> SUFFICES ASSUME IInv, [Next]_vars PROVE IInv'
  OBVIOUS
<1>1. CASE Resolve
  BY <1>1, ResolveKeeps
<1>2. CASE Propose
  BY <1>2, ProposeKeeps
<1>3. ASSUME NEW o \in offers, Commit(o) PROVE IInv'
  BY <1>3, CommitKeeps DEF Commit
<1>4. CASE RefuseStale \/ UNCHANGED vars
  BY <1>4, RefuseStaleKeeps
<1> QED
  BY <1>1, <1>2, <1>3, <1>4 DEF Next, CommitReady, CommitAccepted

LEMMA AlwaysIInv == Spec => []IInv
  BY InitEstablishes, NextKeeps, PTL DEF Spec

\* Whatever requests are opened and however many candidates wait: an answer that was committed
\* is what the request says until a later answer touches it (_validate_commit_base).
THEOREM NoAnswerIsEverLost == Spec => []NoAnswerIsLost
<1>1. IInv => NoAnswerIsLost
  BY DEF IInv
<1> QED
  BY <1>1, AlwaysIInv, PTL

\* No part of the estimand is current for a goal, a causal intent or a template that has been
\* replaced since it was confirmed (_apply_answer).
THEOREM NothingEverOutlivesItsGoal == Spec => []NothingOutlivesItsGoal
<1>1. IInv => NothingOutlivesItsGoal
  BY DEF IInv
<1> QED
  BY <1>1, AlwaysIInv, PTL

\* After "not sure" nothing is recommended and nothing ruled out that was open before
\* (resolver.py: an unresolved fact excludes no method and settles none).
THEOREM RefusalNeverOpens == Spec => []RefusalOpensNothing
<1>1. IInv => RefusalOpensNothing
  <2>1. SUFFICES ASSUME IInv, log # <<>>, passport.base = Len(log),
                        log[Len(log)].answer = Refused
                 PROVE  /\ passport.action # "recommend_local"
                        /\ passport.reason # "no_stable_supported_capability"
    BY DEF RefusalOpensNothing
  <2>2. passport # NoPassport
    <3>1. PICK S : log \in Seq(S)
      BY <2>1 DEF IInv, Typed
    <3>2. \A seq \in Seq(S) : seq # <<>> => Len(seq) # 0
      BY EmptySeq
    <3>3. Len(log) # 0
      BY <2>1, <3>1, <3>2
    <3>4. NoPassport.base = 0
      BY DEF NoPassport
    <3> QED
      BY <2>1, <3>3, <3>4
  <2> QED
    BY <2>1, <2>2 DEF IInv, StillOpen, OpenIsUndecided
<1> QED
  BY <1>1, AlwaysIInv, PTL

------------------------------------------------------------------------------
(* The planner's numbers.                                                   *)

\* What may be asked is a fact of the registry.
LEMMA BlockersAreAsked ==
  \A F : Candidates(F) \subseteq Blockers(F) /\ Blockers(F) \subseteq Asked
         /\ Possible(F) \subseteq Methods
  BY RulesReadAsked DEF Candidates, Blockers, Unresolved, Possible

\* A set that is written out is finite.
LEMMA FewAreFinite ==
  /\ \A a, b, c, d : IsFiniteSet({a, b, c, d})
  /\ \A a, b, c, d, e : IsFiniteSet({a, b, c, d, e})
<1> SUFFICES ASSUME NEW a, NEW b, NEW c, NEW d, NEW e
             PROVE  IsFiniteSet({a, b, c, d}) /\ IsFiniteSet({a, b, c, d, e})
  OBVIOUS
<1>1. IsFiniteSet({a})
  BY FS_Singleton
<1>2. IsFiniteSet({a} \cup {b})
  BY <1>1, FS_AddElement
<1>3. IsFiniteSet(({a} \cup {b}) \cup {c})
  BY <1>2, FS_AddElement
<1>4. IsFiniteSet((({a} \cup {b}) \cup {c}) \cup {d})
  BY <1>3, FS_AddElement
<1>5. IsFiniteSet(((({a} \cup {b}) \cup {c}) \cup {d}) \cup {e})
  BY <1>4, FS_AddElement
<1>6. /\ (({a} \cup {b}) \cup {c}) \cup {d} = {a, b, c, d}
      /\ ((({a} \cup {b}) \cup {c}) \cup {d}) \cup {e} = {a, b, c, d, e}
  OBVIOUS
<1> QED
  BY <1>4, <1>5, <1>6

\* The sets that a loss counts are finite.
LEMMA CountsAreNumbers ==
  /\ \A S \in SUBSET Addresses : Cardinality(S) \in Nat
  /\ \A S \in SUBSET Methods : Cardinality(S) \in Nat
<1>1. IsFiniteSet(QuestionFacts)
  BY FewAreFinite DEF QuestionFacts
<1>2. IsFiniteSet(MethodFacts)
  BY FewAreFinite DEF MethodFacts
<1>3. IsFiniteSet(TargetRoles)
  BY FewAreFinite DEF TargetRoles
<1>4. IsFiniteSet(StudyFacts)
  BY FewAreFinite DEF StudyFacts
<1>5. IsFiniteSet(Context)
  BY FewAreFinite DEF Context
<1>6. IsFiniteSet(EstimandFacts)
  <2>1. IsFiniteSet(MethodFacts \cup TargetRoles)
    BY <1>2, <1>3, FS_Union
  <2> QED
    BY <2>1 DEF EstimandFacts
<1>7. IsFiniteSet(QuestionFacts \cup EstimandFacts)
  BY <1>1, <1>6, FS_Union
<1>8. IsFiniteSet(Asked)
  <2>1. IsFiniteSet((QuestionFacts \cup EstimandFacts) \cup StudyFacts)
    BY <1>4, <1>7, FS_Union
  <2> QED
    BY <2>1 DEF Asked
<1>9. IsFiniteSet(Addresses)
  <2>1. IsFiniteSet(Asked \cup Context)
    BY <1>5, <1>8, FS_Union
  <2> QED
    BY <2>1 DEF Addresses
<1>10. IsFiniteSet({"summary", "frequency", "pearson", "spearman", "welch"} \cup {"paired"})
  BY FewAreFinite, FS_AddElement
<1>11. Methods = {"summary", "frequency", "pearson", "spearman", "welch"} \cup {"paired"}
  BY DEF Methods, Rules
<1>12. IsFiniteSet(Methods)
  BY <1>10, <1>11
<1> QED
  BY <1>9, <1>12, FS_Subset, FS_CardinalityType

\* Counts make a number ...
LEMMA DigitsAreNumbers ==
  \A d1, d2, d3, d4, d5, d6, d7 \in Nat : Digits(d1, d2, d3, d4, d5, d6, d7) \in Nat
  BY DEF Digits

\* ... so what a request leaves is one ...
LEMMA LossIsNumber ==
  \A F : TerminalLoss(F) \in Nat
<1> SUFFICES ASSUME NEW F PROVE TerminalLoss(F) \in Nat
  OBVIOUS
<1> DEFINE b == Blockers(F)
<1>1. b \subseteq Addresses /\ Possible(F) \subseteq Methods
  BY BlockersAreAsked, NamesAreAddresses
<1>2. /\ Cardinality(b) \in Nat /\ Cardinality(b \ LowSeverity) \in Nat
      /\ Cardinality(b \cap LowSeverity) \in Nat /\ Cardinality(Possible(F)) \in Nat
  <2>1. b \ LowSeverity \subseteq Addresses /\ b \cap LowSeverity \subseteq Addresses
    BY <1>1
  <2> QED
    BY <1>1, <2>1, CountsAreNumbers
<1> QED
  BY <1>2, DigitsAreNumbers DEF TerminalLoss

\* ... and so is what a question costs.
LEMMA CostIsNumber ==
  \A F : \A q \in Asked : QuestionCost(F, q) \in Nat
<1> SUFFICES ASSUME NEW F, NEW q \in Asked PROVE QuestionCost(F, q) \in Nat
  OBVIOUS
<1> DEFINE S == {a \in Depends[q] : F[a].state # "confirmed"}
<1>1. S \subseteq Addresses
  BY DEF Depends, Asked, QuestionFacts, EstimandFacts, MethodFacts, TargetRoles, StudyFacts,
         Addresses, Context
<1>2. Cardinality(S) \in Nat
  BY <1>1, CountsAreNumbers
<1>3. KindCost(q) \in Nat
  BY DEF KindCost
<1> QED
  BY <1>2, <1>3, DigitsAreNumbers DEF QuestionCost

------------------------------------------------------------------------------
(* Least and greatest.                                                      *)

\* A set of numbers that is not empty has a least one.
LEMMA LeastNat ==
  ASSUME NEW S \in SUBSET Nat, S # {}
  PROVE  \E n \in S : \A m \in S : n <= m
<1> DEFINE R == OpToRel(<, Nat)
<1>1. IsWellFoundedOn(R, Nat)
  BY NatLessThanWellFounded
<1>2. \A x, y \in Nat : y < x => <<y, x>> \in R
  BY DEF OpToRel
<1> HIDE DEF R
<1>3. \E x \in S : \A y \in S : ~(<<y, x>> \in R)
  BY <1>1, WFMin
<1>4. PICK x \in S : \A y \in S : ~(<<y, x>> \in R)
  BY <1>3
<1>5. \A y \in S : ~(y < x)
  BY <1>2, <1>4
<1>6. \A y \in S : x <= y
  BY <1>5
<1> QED
  BY <1>6

\* Min finds it.
LEMMA MinIs ==
  ASSUME NEW S \in SUBSET Nat, S # {}
  PROVE  Min(S) \in S /\ \A y \in S : Min(S) <= y
  BY LeastNat DEF Min

\* Max finds the greatest of a few.
LEMMA MaxIs ==
  ASSUME NEW a \in Nat, NEW b \in Nat, NEW c \in Nat, NEW d \in Nat, NEW e \in Nat,
         NEW S, S = {a, b, c, d, e}
  PROVE  Max(S) \in S /\ \A y \in S : Max(S) >= y
<1>1. \E x \in S : \A y \in S : x >= y
  OBVIOUS
<1> QED
  BY <1>1 DEF Max

\* The answers that are projected are a few of those that a user may give, and one at least.
LEMMA ProjectionsAre ==
  ASSUME NEW q \in Asked
  PROVE  /\ \E a, b, c, d, e : Projections(q) = {a, b, c, d, e}
         /\ Projections(q) \subseteq {Confirmed(v) : v \in Answers(q)}
         /\ Answers(q) # {}
         /\ q \in DOMAIN ChoiceQuestions => Projections(q) = {Confirmed(v) : v \in Answers(q)}
<1>1. CASE q \in DOMAIN ChoiceQuestions
  <2>1. Answers(q) = Singles(ChoiceQuestions[q])
    BY <1>1 DEF Answers
  <2>2. Projections(q) = {Confirmed(v) : v \in Answers(q)}
    BY <1>1 DEF Projections
  <2>3. PICK r, s, t, u, w : ChoiceQuestions[q] = {r, s, t, u, w}
    <3>1. q \in {"goal", "causal", "template", "basis", "scale", "target", "contrast",
                 "dependence"}
      BY <1>1 DEF ChoiceQuestions
    <3>2. CASE q = "goal"
      <4>1. ChoiceQuestions[q] =
                {"describe", "compare", "associate", "estimate_effect", "estimate_effect"}
        BY <3>2 DEF ChoiceQuestions
      <4> QED
        BY <4>1, Zenon
    <3>3. CASE q = "causal"
      <4>1. ChoiceQuestions[q] = {"causal", "noncausal", "noncausal", "noncausal", "noncausal"}
        BY <3>3 DEF ChoiceQuestions
      <4> QED
        BY <4>1, Zenon
    <3>4. CASE q = "template"
      <4>1. ChoiceQuestions[q] =
                {"summary", "frequency_distribution", "group_contrast", "within_unit_change", "association"}
        BY <3>4 DEF ChoiceQuestions
      <4> QED
        BY <4>1, Zenon
    <3>5. CASE q = "basis"
      <4>1. ChoiceQuestions[q] = {"descriptive", "associational", "causal", "causal", "causal"}
        BY <3>5 DEF ChoiceQuestions
      <4> QED
        BY <4>1, Zenon
    <3>6. CASE q = "scale"
      <4>1. ChoiceQuestions[q] =
                {"distribution", "difference", "correlation", "correlation", "correlation"}
        BY <3>6 DEF ChoiceQuestions
      <4> QED
        BY <4>1, Zenon
    <3>7. CASE q = "target"
      <4>1. ChoiceQuestions[q] =
                {"product_moment", "rank_monotonic", "not_applicable", "not_applicable", "not_applicable"}
        BY <3>7 DEF ChoiceQuestions
      <4> QED
        BY <4>1, Zenon
    <3>8. CASE q = "contrast"
      <4>1. ChoiceQuestions[q] = {"pairwise", "omnibus", "omnibus", "omnibus", "omnibus"}
        BY <3>8 DEF ChoiceQuestions
      <4> QED
        BY <4>1, Zenon
    <3>9. CASE q = "dependence"
      <4>1. ChoiceQuestions[q] = {"independent", "paired", "paired", "paired", "paired"}
        BY <3>9 DEF ChoiceQuestions
      <4> QED
        BY <4>1, Zenon
    <3> QED
      BY <3>1, <3>2, <3>3, <3>4, <3>5, <3>6, <3>7, <3>8, <3>9
  <2>4. Answers(q) = {<<r>>, <<s>>, <<t>>, <<u>>, <<w>>}
    BY <2>1, <2>3 DEF Singles
  <2>5. Projections(q) = {Confirmed(<<r>>), Confirmed(<<s>>), Confirmed(<<t>>),
                          Confirmed(<<u>>), Confirmed(<<w>>)}
    BY <2>2, <2>4
  <2> QED
    BY <2>2, <2>4, <2>5
<1>2. CASE q \notin DOMAIN ChoiceQuestions
  <2> DEFINE open == {v \in Answers(q) : v # None}
             one  == CHOOSE v \in open : TRUE
  <2>1. /\ <<"x">> # None /\ <<"y">> # None
        /\ <<"x", "y">> # None /\ <<"y", "x">> # None
    BY DEF None
  <2>2. \E v : v \in open
    BY <1>2, <2>1 DEF Answers
  <2>3. one \in open
    BY <2>2
  <2>4. Answers(q) \ open \subseteq {None}
    OBVIOUS
  <2>5. Projections(q) = {Confirmed(v) : v \in (Answers(q) \ open) \cup {one}}
    BY <1>2 DEF Projections
  <2> HIDE DEF open, one
  <2>6. (Answers(q) \ open) \cup {one} \in {{one}, {None, one}}
    BY <2>4
  <2>7. \/ Projections(q) = {Confirmed(one)}
        \/ Projections(q) = {Confirmed(None), Confirmed(one)}
    BY <2>5, <2>6
  <2>8. \E a, b : Projections(q) = {a, b}
    BY <2>7
  <2>9. \E a, b, c, d, e : Projections(q) = {a, b, c, d, e}
    <3>1. PICK a, b : Projections(q) = {a, b}
      BY <2>8
    <3>2. Projections(q) = {a, b, b, b, b}
      BY <3>1
    <3> QED
      BY <3>2
  <2>10. one \in Answers(q)
    BY <2>3 DEF open
  <2> QED
    BY <1>2, <2>5, <2>9, <2>10
<1> QED
  BY <1>1, <1>2

------------------------------------------------------------------------------
(* The plan.                                                                *)

\* An answer that is projected makes a request of a request.
LEMMA ProjectedRequest ==
  ASSUME NEW F \in AllRequests, NEW q \in Asked, NEW f \in Projections(q)
  PROVE  [F EXCEPT ![q] = f] \in AllRequests
<1>1. PICK v \in Answers(q) : f = Confirmed(v)
  BY ProjectionsAre
<1>2. v \in Values
  BY <1>1 DEF Values
<1>3. f \in AllFacts
  BY <1>1, <1>2 DEF AllFacts, Confirmed
<1> QED
  BY <1>3 DEF AllRequests

\* What a question leaves at worst is a number, and no projected answer leaves more.
LEMMA WorstIs ==
  ASSUME NEW h \in [AllRequests -> Nat], NEW F \in AllRequests, NEW q \in Asked
  PROVE  /\ Worst(h, F, q) \in Nat
         /\ \A f \in Projections(q) :
              h[[F EXCEPT ![q] = f]] <= Worst(h, F, q) - QuestionCost(F, q)
<1> DEFINE after(f) == [F EXCEPT ![q] = f]
           S == {h[after(f)] : f \in Projections(q)}
<1>1. \A f \in Projections(q) : after(f) \in AllRequests
  BY ProjectedRequest
<1> HIDE DEF after
<1>2. \A f \in Projections(q) : h[after(f)] \in Nat
  BY <1>1
<1>3. PICK a, b, c, d, e : Projections(q) = {a, b, c, d, e}
  BY ProjectionsAre
<1>4. S = {h[after(a)], h[after(b)], h[after(c)], h[after(d)], h[after(e)]}
  BY <1>3
<1>5. /\ h[after(a)] \in Nat /\ h[after(b)] \in Nat /\ h[after(c)] \in Nat
      /\ h[after(d)] \in Nat /\ h[after(e)] \in Nat
  BY <1>2, <1>3
<1> HIDE DEF S
<1>6. Max(S) \in S /\ \A y \in S : Max(S) >= y
  BY <1>4, <1>5, MaxIs
<1>7. Max(S) \in Nat
  BY <1>4, <1>5, <1>6
<1>8. Worst(h, F, q) = QuestionCost(F, q) + Max(S)
  BY DEF Worst, S, after
<1>9. \A f \in Projections(q) : h[after(f)] <= Max(S)
  BY <1>2, <1>6, <1>7 DEF S
<1>10. \A f \in Projections(q) : h[after(f)] <= Worst(h, F, q) - QuestionCost(F, q)
  BY <1>2, <1>7, <1>8, <1>9, CostIsNumber
<1>11. Worst(h, F, q) \in Nat
  BY <1>7, <1>8, CostIsNumber
<1> QED
  BY <1>10, <1>11 DEF after

\* The search with one more question, when left is what remains without it.
Searched(left) ==
  [F \in AllRequests |->
     IF ~MustClarify(F) \/ Candidates(F) = {} THEN TerminalLoss(F)
     ELSE Min({Worst(left, F, q) : q \in Candidates(F)})]

\* A step of the search makes numbers of numbers, and none exceeds that of a question.
LEMMA SearchedIs ==
  ASSUME NEW h \in [AllRequests -> Nat]
  PROVE  /\ Searched(h) \in [AllRequests -> Nat]
         /\ \A F \in AllRequests : MustClarify(F) =>
              \A q \in Candidates(F) : Searched(h)[F] <= Worst(h, F, q)
<1>1. ASSUME NEW F \in AllRequests
      PROVE  /\ Searched(h)[F] \in Nat
             /\ MustClarify(F) =>
                  \A q \in Candidates(F) : Searched(h)[F] <= Worst(h, F, q)
  <2> DEFINE S == {Worst(h, F, q) : q \in Candidates(F)}
  <2>1. \A q \in Candidates(F) : Worst(h, F, q) \in Nat
    BY WorstIs, BlockersAreAsked
  <2>2. CASE ~MustClarify(F) \/ Candidates(F) = {}
    <3>1. Searched(h)[F] = TerminalLoss(F)
      BY <2>2 DEF Searched
    <3> QED
      BY <2>2, <3>1, LossIsNumber
  <2>3. CASE ~(~MustClarify(F) \/ Candidates(F) = {})
    <3>1. Searched(h)[F] = Min(S)
      BY <2>3 DEF Searched
    <3>2. S \in SUBSET Nat /\ S # {}
      BY <2>1, <2>3
    <3> HIDE DEF S
    <3>3. Min(S) \in S /\ \A y \in S : Min(S) <= y
      BY <3>2, MinIs
    <3>4. Min(S) \in Nat
      BY <3>2, <3>3
    <3> QED
      BY <3>1, <3>3, <3>4 DEF S
  <2> QED
    BY <2>2, <2>3
<1>2. Searched(h) = [F \in AllRequests |-> Searched(h)[F]]
  BY DEF Searched
<1>3. \A F \in AllRequests : Searched(h)[F] \in Nat
  BY <1>1
<1>4. Searched(h) \in [AllRequests -> Nat]
  BY <1>2, <1>3
<1> QED
  BY <1>1, <1>4

\* The planner's recursion has the solution that the code computes, question by question.
LEMMA SearchIs ==
  /\ Search[0] = [F \in AllRequests |-> TerminalLoss(F)]
  /\ \A n \in 1..Budget : Search[n] = Searched(Search[n - 1])
<1> DEFINE s0 == [F \in AllRequests |-> TerminalLoss(F)]
           s1 == Searched(s0)
           s2 == Searched(s1)
           s3 == Searched(s2)
           Is(n, h) == [F \in AllRequests |->
              IF n = 0 \/ ~MustClarify(F) \/ Candidates(F) = {} THEN TerminalLoss(F)
              ELSE Min({Worst(h, F, q) : q \in Candidates(F)})]
           g == [n \in 0..Budget |->
                   IF n = 0 THEN s0 ELSE IF n = 1 THEN s1 ELSE IF n = 2 THEN s2 ELSE s3]
<1>1. \A h : Is(0, h) = s0
  OBVIOUS
<1>2. \A n \in 1..Budget : \A h : Is(n, h) = Searched(h)
  BY DEF Searched, Budget
<1> HIDE DEF Is, s0, s1, s2, s3
<1>3. /\ g[0] = s0 /\ g[1] = s1 /\ g[2] = s2 /\ g[3] = s3
      /\ DOMAIN g = 0..Budget
  BY DEF Budget
<1>4. \A n \in 0..Budget : g[n] = Is(n, g[n - 1])
  <2>1. g[0] = Is(0, g[0 - 1])
    BY <1>1, <1>3
  <2>2. /\ g[1] = Is(1, g[1 - 1]) /\ g[2] = Is(2, g[2 - 1]) /\ g[3] = Is(3, g[3 - 1])
    BY <1>2, <1>3 DEF Budget, s1, s2, s3
  <2>3. \A n \in 0..Budget : n = 0 \/ n = 1 \/ n = 2 \/ n = 3
    BY DEF Budget
  <2> HIDE DEF g
  <2>4. ASSUME NEW n, n = 0 \/ n = 1 \/ n = 2 \/ n = 3
        PROVE  g[n] = Is(n, g[n - 1])
    <3>1. CASE n = 0 BY <2>1, <3>1
    <3>2. CASE n = 1 BY <2>2, <3>2
    <3>3. CASE n = 2 BY <2>2, <3>3
    <3>4. CASE n = 3 BY <2>2, <3>4
    <3> QED
      BY <2>4, <3>1, <3>2, <3>3, <3>4
  <2> QED
    BY <2>3, <2>4
<1>5. g = [n \in 0..Budget |-> Is(n, g[n - 1])]
  BY <1>3, <1>4
<1> HIDE DEF g
<1>6. \E h : h = [n \in 0..Budget |-> Is(n, h[n - 1])]
  BY <1>5
<1>7. Search = CHOOSE h : h = [n \in 0..Budget |-> Is(n, h[n - 1])]
  BY DEF Search, Is
<1>8. Search = [n \in 0..Budget |-> Is(n, Search[n - 1])]
  BY <1>6, <1>7
<1>9. \A n \in 0..Budget : Search[n] = Is(n, Search[n - 1])
  BY <1>8
<1>10. Search[0] = s0
  BY <1>1, <1>9 DEF Budget
<1> QED
  BY <1>2, <1>9, <1>10 DEF s0, Budget

\* So every step of it does.
LEMMA SearchIsNumber ==
  \A n \in 0..Budget : Search[n] \in [AllRequests -> Nat]
<1>1. Search[0] \in [AllRequests -> Nat]
  BY SearchIs, LossIsNumber
<1>2. Search[1] \in [AllRequests -> Nat]
  <2>1. Search[1] = Searched(Search[0])
    BY SearchIs DEF Budget
  <2> QED
    BY <1>1, <2>1, SearchedIs
<1>3. Search[2] \in [AllRequests -> Nat]
  <2>1. Search[2] = Searched(Search[1])
    BY SearchIs DEF Budget
  <2> QED
    BY <1>2, <2>1, SearchedIs
<1>4. Search[3] \in [AllRequests -> Nat]
  <2>1. Search[3] = Searched(Search[2])
    BY SearchIs DEF Budget
  <2> QED
    BY <1>3, <2>1, SearchedIs
<1> QED
  BY <1>1, <1>2, <1>3, <1>4 DEF Budget

\* Every question has its place in the order of the ids.
LEMMA EveryQuestionHasAnId ==
  \A q \in Asked : \E i \in DOMAIN ById : ById[i] = q
<1>1. DOMAIN ById = 1..15
  BY DEF ById
<1> QED
  BY <1>1 DEF ById, Asked, QuestionFacts, EstimandFacts, MethodFacts, TargetRoles, StudyFacts

\* The plan's question is one that may be asked, and its loss is the search's.
LEMMA PlanIs ==
  ASSUME NEW F \in AllRequests, NEW left \in 1..Budget, MustClarify(F), Candidates(F) # {}
  PROVE  LET p == Plan(F, left)
         IN  /\ p.question \in Candidates(F)
             /\ p.loss = Worst(Search[left - 1], F, p.question)
             /\ p.loss = Search[left][F]
<1> DEFINE h == Search[left - 1]
           loss == [q \in Candidates(F) |-> Loss(F, q, left)]
           best == {q \in Candidates(F) : \A r \in Candidates(F) : loss[q] <= loss[r]}
           IsFirst(q) == \E i \in DOMAIN ById : /\ ById[i] = q
                                                /\ \A j \in 1..(i - 1) : ById[j] \notin best
           p == CHOOSE q \in best : IsFirst(q)
           S == {Worst(h, F, q) : q \in Candidates(F)}
<1>1. h \in [AllRequests -> Nat]
  <2>1. left - 1 \in 0..Budget
    BY DEF Budget
  <2> QED
    BY <2>1, SearchIsNumber
<1>2. \A q \in Candidates(F) : Worst(h, F, q) \in Nat
  BY <1>1, WorstIs, BlockersAreAsked
<1>3. \A q \in Candidates(F) : loss[q] = Worst(h, F, q)
  BY DEF Loss
<1>4. S \in SUBSET Nat /\ S # {}
  BY <1>2
<1> HIDE DEF h, loss
<1>5. Min(S) \in S /\ \A y \in S : Min(S) <= y
  <2> HIDE DEF S
  <2> QED
    BY <1>4, MinIs
<1>6. PICK q \in Candidates(F) : Worst(h, F, q) = Min(S)
  BY <1>5
<1>7. q \in best
  BY <1>3, <1>5, <1>6
<1>8. \A r \in best : loss[r] = Min(S)
  <2> SUFFICES ASSUME NEW r \in best PROVE loss[r] = Min(S)
    OBVIOUS
  <2>1. loss[r] <= loss[q] /\ r \in Candidates(F)
    BY <1>6
  <2>2. loss[r] \in S /\ loss[r] \in Nat /\ loss[q] = Min(S) /\ loss[q] \in Nat
    BY <1>2, <1>3, <1>6, <2>1
  <2>3. loss[q] <= loss[r]
    BY <1>5, <2>2
  <2> QED
    BY <2>1, <2>2, <2>3
<1>9. \E r \in best : IsFirst(r)
  <2> DEFINE places == {i \in 1..15 : ById[i] \in best}
  <2>1. DOMAIN ById = 1..15
    BY DEF ById
  <2>2. \E i \in DOMAIN ById : ById[i] = q
    BY EveryQuestionHasAnId, BlockersAreAsked
  <2>3. places \in SUBSET Nat /\ places # {}
    BY <1>7, <2>1, <2>2
  <2>4. PICK i \in places : \A j \in places : i <= j
    BY <2>3, LeastNat
  <2>5. \A j \in 1..(i - 1) : ById[j] \notin best
    BY <2>4
  <2> QED
    BY <2>1, <2>4, <2>5
<1>10. p \in best
  BY <1>9
<1>11. Plan(F, left).question = p /\ Plan(F, left).loss = loss[p]
  BY DEF Plan, loss
<1>12. Search[left][F] = Min(S)
  <2>1. Search[left] = Searched(h)
    BY SearchIs DEF h
  <2> QED
    BY <2>1 DEF Searched
<1> HIDE DEF p, S
<1>13. p \in Candidates(F)
  BY <1>10
<1> QED
  BY <1>3, <1>8, <1>10, <1>11, <1>12, <1>13 DEF h

------------------------------------------------------------------------------
(* The service's passports.                                                 *)

\* What a passport says and promises.
PassportCase(F, left, p) ==
  /\ p.base = Len(log)
  /\ \/ /\ p.action = "abstain" /\ p.question = "" /\ p.methods = {}
        /\ p.reason \in OutsideThePlan
     \/ /\ p.action = "abstain" /\ p.question = "" /\ p.methods = {}
        /\ p.promise = TerminalLoss(F)
        /\ ~MustClarify(F) \/ left = 0 \/ Candidates(F) = {}
     \/ /\ p.action = "recommend_local" /\ p.question = ""
        /\ p.methods = Stable(F) /\ Stable(F) # {}
        /\ p.promise = TerminalLoss(F)
     \/ /\ p.action = "clarify" /\ p.question = Plan(F, left).question
        /\ p.methods = {} /\ p.promise = Plan(F, left).loss
        /\ MustClarify(F) /\ Candidates(F) # {} /\ left > 0

\* Every passport is one of these.
LEMMA PassportCases ==
  ASSUME NEW F \in AllRequests, NEW left \in 0..Budget
  PROVE  PassportCase(F, left, PassportOf(F, left))
<1>1. CASE Contradictory(F)
  <2>1. PassportOf(F, left) = Abstain("integrity", 0)
    BY <1>1 DEF PassportOf
  <2>2. PassportCase(F, left, Abstain("integrity", 0))
    BY DEF PassportCase, Abstain, Pass, OutsideThePlan
  <2> QED
    BY <2>1, <2>2
<1>2. CASE ~Contradictory(F) /\ F["causal"] = Confirmed(<<"causal">>)
  <2>1. PassportOf(F, left) = Abstain("unsupported_causal_target", 0)
    BY <1>2 DEF PassportOf
  <2>2. PassportCase(F, left, Abstain("unsupported_causal_target", 0))
    BY DEF PassportCase, Abstain, Pass, OutsideThePlan
  <2> QED
    BY <2>1, <2>2
<1> DEFINE Inside == ~Contradictory(F) /\ F["causal"] # Confirmed(<<"causal">>)
<1>3. CASE Inside /\ Stable(F) # {}
  <2>1. PassportOf(F, left) = Pass("recommend_local", "", "", Stable(F), TerminalLoss(F))
    BY <1>3 DEF PassportOf
  <2>2. PassportCase(F, left, Pass("recommend_local", "", "", Stable(F), TerminalLoss(F)))
    BY <1>3 DEF PassportCase, Abstain, Pass
  <2> QED
    BY <2>1, <2>2
<1>4. CASE Inside /\ Stable(F) = {} /\ Blockers(F) = {}
  <2>1. PassportOf(F, left) = Abstain("no_stable_supported_capability", TerminalLoss(F))
    BY <1>4 DEF PassportOf
  <2>2. PassportCase(F, left, Abstain("no_stable_supported_capability", TerminalLoss(F)))
    BY <1>4 DEF PassportCase, Abstain, Pass, MustClarify
  <2> QED
    BY <2>1, <2>2
<1>5. CASE Inside /\ Stable(F) = {} /\ Blockers(F) # {} /\ left = 0
  <2>1. PassportOf(F, left) = Abstain("clarification_budget_exhausted", TerminalLoss(F))
    BY <1>5 DEF PassportOf
  <2>2. PassportCase(F, left, Abstain("clarification_budget_exhausted", TerminalLoss(F)))
    BY <1>5 DEF PassportCase, Abstain, Pass
  <2> QED
    BY <2>1, <2>2
<1>6. CASE Inside /\ Stable(F) = {} /\ Blockers(F) # {} /\ left # 0 /\ Candidates(F) = {}
  <2>1. PassportOf(F, left) = Abstain("clarification_answer_unavailable", TerminalLoss(F))
    BY <1>6 DEF PassportOf
  <2>2. PassportCase(F, left, Abstain("clarification_answer_unavailable", TerminalLoss(F)))
    BY <1>6 DEF PassportCase, Abstain, Pass
  <2> QED
    BY <2>1, <2>2
<1>7. CASE Inside /\ Stable(F) = {} /\ Blockers(F) # {} /\ left # 0 /\ Candidates(F) # {}
  <2>1. PassportOf(F, left) = Pass("clarify", "", Plan(F, left).question, {}, Plan(F, left).loss)
    BY <1>7 DEF PassportOf
  <2>2. PassportCase(F, left, Pass("clarify", "", Plan(F, left).question, {}, Plan(F, left).loss))
    BY <1>7 DEF PassportCase, Abstain, Pass, MustClarify, Budget
  <2> QED
    BY <2>1, <2>2
<1> QED
  BY <1>1, <1>2, <1>3, <1>4, <1>5, <1>6, <1>7

\* A passport that the plan has a say in promises what the search finds.
LEMMA PromiseIs ==
  ASSUME NEW F \in AllRequests, NEW left \in 0..Budget,
         PassportOf(F, left).reason \notin OutsideThePlan
  PROVE  PassportOf(F, left).promise = Search[left][F]
<1> DEFINE p == PassportOf(F, left)
<1>1. CASE p.promise = TerminalLoss(F) /\ (~MustClarify(F) \/ left = 0 \/ Candidates(F) = {})
  <2>1. CASE left = 0
    BY <1>1, <2>1, SearchIs
  <2>2. CASE left # 0
    <3>1. Search[left] = Searched(Search[left - 1])
      BY <2>2, SearchIs DEF Budget
    <3> QED
      BY <1>1, <2>2, <3>1 DEF Searched
  <2> QED
    BY <2>1, <2>2
<1>2. CASE p.promise = Plan(F, left).loss /\ MustClarify(F) /\ Candidates(F) # {} /\ left > 0
  <2>1. left \in 1..Budget
    BY <1>2 DEF Budget
  <2> QED
    BY <1>2, <2>1, PlanIs
<1>3. Stable(F) # {} => ~MustClarify(F)
  BY DEF MustClarify
<1> QED
  BY <1>1, <1>2, <1>3, PassportCases DEF PassportCase

------------------------------------------------------------------------------
(* The invariant of the loop's bookkeeping.                                 *)

AnswersTo(q) == {AnswerFact(q, v) : v \in Answers(q)} \cup {Refused}

Budgeted == budget \in 0..Budget /\ budget + Len(log) = Budget

Requested ==
  /\ first \in AllRequests /\ facts \in AllRequests
  /\ \A o \in offers : o.facts \in AllRequests
  /\ \A i \in DOMAIN log : log[i].answer \in AnswersTo(log[i].question)

PassportTyped ==
  /\ passport.action \in {"none", "recommend_local", "clarify", "abstain"}
  /\ passport.action = "clarify" <=> passport.question \in Asked
  /\ passport.action = "recommend_local" <=> passport.methods # {}
  /\ passport.methods \subseteq Methods

\* A passport that is not older than the last answer is that of the request as it is ...
PassportIsOfTheRequest ==
  passport # NoPassport /\ passport.base = Len(log) => passport = PassportOf(facts, budget)

\* ... and a candidate that may still be committed answers the question of its plan.
Planned ==
  \A o \in offers : BaseIsCurrent(o) =>
    /\ budget > 0 /\ MustClarify(facts) /\ Candidates(facts) # {}
    /\ o.question = Plan(facts, budget).question
    /\ o.answer \in AnswersTo(o.question)
    /\ o.due = Plan(facts, budget).loss - QuestionCost(facts, o.question)

\* Only an answer about dependence makes an order not applicable, and only as long as it stands.
OrderHangsOnDependence ==
  facts["order"] = NotApplicable => facts["dependence"] = Confirmed(<<"independent">>)

\* A question that the user was not sure about stays refused, or something was invalidated;
\* the order may have gone with the dependence.
RefusedUntilInvalidated ==
  \A i \in DOMAIN log : log[i].answer = Refused =>
    \/ facts[log[i].question] = Refused
    \/ \E j \in (i + 1)..Len(log) :
         log[j].changed /\ log[i].question \in Invalidates(log[j].question)
    \/ log[i].question = "order" /\ facts["order"] = NotApplicable

\* The invariant of the loop: the request's, and that of the passports and candidates.
PInv ==
  /\ IInv
  /\ Budgeted /\ Requested /\ PassportTyped /\ PassportIsOfTheRequest /\ Planned
  /\ OrderHangsOnDependence /\ RefusedUntilInvalidated

------------------------------------------------------------------------------
(* Facts and requests.                                                      *)

\* The facts that the code builds are facts.
LEMMA FactsAreFacts ==
  /\ Stale \in AllFacts /\ Unknown \in AllFacts /\ Refused \in AllFacts
  /\ NotApplicable \in AllFacts
  /\ \A q \in Asked : \A v \in Answers(q) : Confirmed(v) \in AllFacts
<1>1. None \in Values /\ NA \in Values /\ \A q \in Asked : Answers(q) \subseteq Values
  BY DEF Values
<1> QED
  BY <1>1 DEF AllFacts, Stale, Unknown, Refused, NotApplicable, Confirmed

\* So are the answers.
LEMMA AnswersAreFacts ==
  \A q \in Asked : AnswersTo(q) \subseteq AllFacts
  BY FactsAreFacts DEF AnswersTo, AnswerFact

\* A revision by an answer makes a request of a request.
LEMMA RevisedRequest ==
  ASSUME NEW F \in AllRequests, NEW q, NEW f \in AllFacts
  PROVE  Revised(F, q, f) \in AllRequests
<1>1. \A a \in Addresses : F[a] \in AllFacts
  BY DEF AllRequests
<1>2. \A g : Invalidate(g) \in AllFacts
  BY FactsAreFacts DEF Invalidate
<1>3. OrderAfter(F, f) \in AllFacts
  BY <1>1, FactsAreFacts, NamesAreAddresses DEF OrderAfter
<1>4. \A a \in Addresses : Revised(F, q, f)[a] \in AllFacts
  BY <1>1, <1>2, <1>3 DEF Revised
<1>5. Revised(F, q, f) = [a \in Addresses |-> Revised(F, q, f)[a]]
  BY DEF Revised
<1> QED
  BY <1>4, <1>5 DEF AllRequests

\* What a profile says of a fact.
LEMMA ProfileIs ==
  ASSUME NEW g, NEW t, NEW b, NEW s, NEW more,
         NEW a \in DOMAIN Profile(g, t, b, s, more)
  PROVE  LET f == Profile(g, t, b, s, more)[a]
         IN  IF a \in DOMAIN more THEN f = Confirmed(more[a])
             ELSE \/ a = "goal" /\ f = Confirmed(<<g>>)
                  \/ a = "causal" /\ f = Confirmed(<<"noncausal">>)
                  \/ a = "template" /\ f = Confirmed(<<t>>)
                  \/ a = "basis" /\ f = Confirmed(<<b>>)
                  \/ a = "scale" /\ f = Confirmed(<<s>>)
                  \/ a \in {"target", "contrast"} /\ f = NotApplicable
<1> DEFINE own == [goal |-> <<g>>, causal |-> <<"noncausal">>, template |-> <<t>>,
                   basis |-> <<b>>, scale |-> <<s>>]
           rest == [target |-> NotApplicable, contrast |-> NotApplicable]
           head == With(ConfirmedAll(more), ConfirmedAll(own))
<1>1. Profile(g, t, b, s, more) = With(head, rest)
  BY DEF Profile
<1>2. /\ DOMAIN ConfirmedAll(more) = DOMAIN more
      /\ \A x \in DOMAIN more : ConfirmedAll(more)[x] = Confirmed(more[x])
  BY DEF ConfirmedAll
<1>3. /\ DOMAIN ConfirmedAll(own) = DOMAIN own
      /\ \A x \in DOMAIN own : ConfirmedAll(own)[x] = Confirmed(own[x])
  BY DEF ConfirmedAll
<1>4. /\ DOMAIN own = {"goal", "causal", "template", "basis", "scale"}
      /\ own["goal"] = <<g>> /\ own["causal"] = <<"noncausal">> /\ own["template"] = <<t>>
      /\ own["basis"] = <<b>> /\ own["scale"] = <<s>>
  OBVIOUS
<1>5. /\ DOMAIN rest = {"target", "contrast"}
      /\ rest["target"] = NotApplicable /\ rest["contrast"] = NotApplicable
  OBVIOUS
<1> HIDE DEF own, rest
<1>6. /\ DOMAIN head = DOMAIN more \cup DOMAIN own
      /\ \A x \in DOMAIN head : head[x] = IF x \in DOMAIN more THEN Confirmed(more[x])
                                          ELSE Confirmed(own[x])
  BY <1>2, <1>3 DEF With
<1> HIDE DEF head
<1>7. /\ a \in DOMAIN head \cup DOMAIN rest
      /\ Profile(g, t, b, s, more)[a] = IF a \in DOMAIN head THEN head[a] ELSE rest[a]
  BY <1>1 DEF With
<1>8. CASE a \in DOMAIN more
  BY <1>6, <1>7, <1>8
<1>9. CASE a \notin DOMAIN more /\ a \in DOMAIN own
  BY <1>4, <1>6, <1>7, <1>9
<1>10. CASE a \notin DOMAIN more /\ a \notin DOMAIN own
  BY <1>5, <1>6, <1>7, <1>10
<1> QED
  BY <1>8, <1>9, <1>10

\* What a user may answer, and the context that a profile gives.
LEMMA KnownValues ==
  /\ \A q \in Asked : Answers(q) \subseteq Values
  /\ VariableLists \subseteq Values
  /\ Singles({"wide_repeated", "repeated_panel"}) \subseteq Values
<1>1. \A q \in Asked : Answers(q) \subseteq Values
  BY DEF Values
<1>2. VariableLists \subseteq Values
  BY Zenon DEF Values
<1>3. Singles({"wide_repeated", "repeated_panel"}) \subseteq Values
  BY Zenon DEF Values
<1> QED
  BY <1>1, <1>2, <1>3

\* A profile confirms values that the registry knows; an order is confirmed or left open.
LEMMA ProfileOfValues ==
  ASSUME NEW g \in ChoiceQuestions["goal"], NEW t \in ChoiceQuestions["template"],
         NEW b \in ChoiceQuestions["basis"], NEW s \in ChoiceQuestions["scale"],
         NEW more, \A x \in DOMAIN more : more[x] \in Values,
         NEW a \in DOMAIN Profile(g, t, b, s, more)
  PROVE  /\ Profile(g, t, b, s, more)[a] \in AllFacts
         /\ a = "order" => Profile(g, t, b, s, more)[a] # NotApplicable
<1> DEFINE f == Profile(g, t, b, s, more)[a]
<1>1. \A v \in Values : Confirmed(v) \in AllFacts /\ Confirmed(v) # NotApplicable
  BY DEF AllFacts, Confirmed, NotApplicable, Fact
<1>2. /\ <<g>> \in Values /\ <<t>> \in Values /\ <<b>> \in Values /\ <<s>> \in Values
      /\ <<"noncausal">> \in Values
  <2>1. /\ <<g>> \in Answers("goal") /\ <<t>> \in Answers("template")
        /\ <<b>> \in Answers("basis") /\ <<s>> \in Answers("scale")
        /\ <<"noncausal">> \in Answers("causal")
    BY DEF Answers, Singles, ChoiceQuestions
  <2>2. /\ "goal" \in Asked /\ "template" \in Asked /\ "basis" \in Asked
        /\ "scale" \in Asked /\ "causal" \in Asked
    BY DEF Asked, QuestionFacts, EstimandFacts, MethodFacts
  <2>3. \A q \in Asked : \A v \in Answers(q) : v \in Values
    BY KnownValues
  <2> HIDE DEF f
  <2> QED
    BY <2>1, <2>2, <2>3, Zenon
<1>3. \/ a \in DOMAIN more /\ f = Confirmed(more[a])
      \/ a # "order" /\ f \in {Confirmed(<<g>>), Confirmed(<<"noncausal">>), Confirmed(<<t>>),
                               Confirmed(<<b>>), Confirmed(<<s>>), NotApplicable}
  <2>1. CASE a \in DOMAIN more
    <3>1. f = Confirmed(more[a])
      BY <2>1, ProfileIs
    <3> QED
      BY <2>1, <3>1
  <2>2. CASE a \notin DOMAIN more
    <3>1. \/ a = "goal" /\ f = Confirmed(<<g>>)
          \/ a = "causal" /\ f = Confirmed(<<"noncausal">>)
          \/ a = "template" /\ f = Confirmed(<<t>>)
          \/ a = "basis" /\ f = Confirmed(<<b>>)
          \/ a = "scale" /\ f = Confirmed(<<s>>)
          \/ a \in {"target", "contrast"} /\ f = NotApplicable
      BY <2>2, ProfileIs
    <3> HIDE DEF f
    <3> QED
      BY <3>1
  <2> QED
    BY <2>1, <2>2
<1> HIDE DEF f
<1>4. NotApplicable \in AllFacts
  BY FactsAreFacts
<1>5. f \in AllFacts /\ (a = "order" => f # NotApplicable)
  BY <1>1, <1>2, <1>3, <1>4
<1> QED
  BY <1>5 DEF f

\* The values that the profiles are built of.
LEMMA RolesAreValues ==
  /\ <<"x">> \in Values /\ <<"y">> \in Values /\ <<"x", "y">> \in Values
  /\ <<"pairwise">> \in Values /\ <<"independent">> \in Values /\ <<"paired">> \in Values
  /\ <<"product_moment">> \in Values /\ <<"rank_monotonic">> \in Values
  /\ <<"wide_repeated">> \in Values /\ <<"repeated_panel">> \in Values
<1>1. /\ <<"pairwise">> \in Answers("contrast") /\ <<"independent">> \in Answers("dependence")
      /\ <<"paired">> \in Answers("dependence") /\ <<"product_moment">> \in Answers("target")
      /\ <<"rank_monotonic">> \in Answers("target")
  BY DEF Answers, Singles, ChoiceQuestions
<1>2. {"contrast", "dependence", "target"} \subseteq Asked
  BY DEF Asked, EstimandFacts, MethodFacts, StudyFacts
<1>3. /\ <<"x">> \in VariableLists /\ <<"y">> \in VariableLists /\ <<"x", "y">> \in VariableLists
  BY DEF VariableLists
<1>4. /\ <<"wide_repeated">> \in Singles({"wide_repeated", "repeated_panel"})
      /\ <<"repeated_panel">> \in Singles({"wide_repeated", "repeated_panel"})
  BY DEF Singles
<1> QED
  BY <1>1, <1>2, <1>3, <1>4, KnownValues

\* Every profile is made of facts, and none says that an order is not applicable.
LEMMA ProfilesAre ==
  ASSUME NEW p \in DOMAIN Profiles, NEW a \in DOMAIN Profiles[p]
  PROVE  Profiles[p][a] \in AllFacts /\ (a = "order" => Profiles[p][a] # NotApplicable)
<1>1. /\ {"describe", "compare", "associate"} \subseteq ChoiceQuestions["goal"]
      /\ {"summary", "frequency_distribution", "group_contrast", "within_unit_change",
          "association"} \subseteq ChoiceQuestions["template"]
      /\ {"descriptive", "associational"} \subseteq ChoiceQuestions["basis"]
      /\ {"distribution", "difference", "correlation"} \subseteq ChoiceQuestions["scale"]
  BY DEF ChoiceQuestions
<1>2. p \in {"summary", "frequency", "welch", "paired", "pearson", "spearman"}
  BY DEF Profiles
<1>3. CASE p = "summary"
  <2> DEFINE more == [outcome |-> <<"x">>]
  <2>1. Profiles[p] = Profile("describe", "summary", "descriptive", "distribution", more)
    BY <1>3 DEF Profiles
  <2>2. \A x \in DOMAIN more : more[x] \in Values
    BY RolesAreValues
  <2> HIDE DEF more
  <2> QED
    BY <1>1, <2>1, <2>2, ProfileOfValues
<1>4. CASE p = "frequency"
  <2> DEFINE more == [outcome |-> <<"x">>]
  <2>1. Profiles[p] = Profile("describe", "frequency_distribution", "descriptive",
                              "distribution", more)
    BY <1>4 DEF Profiles
  <2>2. \A x \in DOMAIN more : more[x] \in Values
    BY RolesAreValues
  <2> HIDE DEF more
  <2> QED
    BY <1>1, <2>1, <2>2, ProfileOfValues
<1>5. CASE p = "welch"
  <2> DEFINE more == [contrast |-> <<"pairwise">>, outcome |-> <<"x">>, group |-> <<"y">>,
                      dependence |-> <<"independent">>]
  <2>1. Profiles[p] = Profile("compare", "group_contrast", "associational", "difference", more)
    BY <1>5 DEF Profiles
  <2>2. \A x \in DOMAIN more : more[x] \in Values
    BY RolesAreValues
  <2> HIDE DEF more
  <2> QED
    BY <1>1, <2>1, <2>2, ProfileOfValues
<1>6. CASE p = "paired"
  <2> DEFINE more == [contrast |-> <<"pairwise">>, outcome |-> <<"y">>,
                      repeated |-> <<"x", "y">>, order |-> <<"x", "y">>,
                      dependence |-> <<"paired">>, layout |-> <<"wide_repeated">>,
                      timing |-> <<"repeated_panel">>]
  <2>1. Profiles[p] = Profile("compare", "within_unit_change", "associational", "difference",
                              more)
    BY <1>6 DEF Profiles
  <2>2. \A x \in DOMAIN more : more[x] \in Values
    BY RolesAreValues
  <2> HIDE DEF more
  <2> QED
    BY <1>1, <2>1, <2>2, ProfileOfValues
<1>7. CASE p \in {"pearson", "spearman"}
  <2> DEFINE target == IF p = "pearson" THEN <<"product_moment">> ELSE <<"rank_monotonic">>
             more == [outcome |-> <<"x">>, predictor |-> <<"y">>, target |-> target]
  <2>1. Profiles[p] = Profile("associate", "association", "associational", "correlation", more)
    BY <1>7 DEF Profiles
  <2>2. \A x \in DOMAIN more : more[x] \in Values
    BY RolesAreValues
  <2> HIDE DEF more
  <2> QED
    BY <1>1, <2>1, <2>2, ProfileOfValues
<1> QED
  BY <1>2, <1>3, <1>4, <1>5, <1>6, <1>7

\* The requests that a session begins with.
LEMMA RequestsAre ==
  ASSUME NEW F \in Requests
  PROVE  F \in AllRequests /\ F["order"] # NotApplicable
<1>1. Unknown # NotApplicable /\ Confirmed(<<"causal">>) # NotApplicable
  BY DEF Unknown, NotApplicable, Confirmed, Fact
<1>2. Unknown \in AllFacts /\ Confirmed(<<"causal">>) \in AllFacts
  <2>1. "causal" \in Asked /\ <<"causal">> \in Answers("causal")
    BY DEF Asked, QuestionFacts, Answers, Singles, ChoiceQuestions
  <2> QED
    BY <2>1, FactsAreFacts
<1>3. "order" \in Addresses
  BY NamesAreAddresses
<1>4. CASE F = CausalRequest
  BY <1>1, <1>2, <1>3, <1>4 DEF CausalRequest, AllRequests
<1>5. CASE F # CausalRequest
  <2>1. PICK p \in DOMAIN Profiles, open \in Opened : F = OpenedRequest(p, open)
    BY <1>5 DEF Requests
  <2>2. \A a \in Addresses : F[a] \in {Unknown, Intake(p)[a]}
    BY <2>1 DEF OpenedRequest
  <2>3. ASSUME NEW a \in Addresses
        PROVE  Intake(p)[a] \in AllFacts /\ (a = "order" => Intake(p)[a] # NotApplicable)
    <3>1. CASE a \in DOMAIN Profiles[p]
      <4>1. Intake(p)[a] = Profiles[p][a]
        BY <3>1 DEF Intake
      <4> QED
        BY <3>1, <4>1, ProfilesAre
    <3>2. CASE a \notin DOMAIN Profiles[p]
      BY <1>1, <1>2, <3>2 DEF Intake
    <3> QED
      BY <3>1, <3>2
  <2>4. F = [a \in Addresses |-> F[a]]
    BY <2>1 DEF OpenedRequest
  <2> QED
    BY <1>1, <1>2, <1>3, <2>2, <2>3, <2>4 DEF AllRequests
<1> QED
  BY <1>4, <1>5

\* A session without a passport asks nothing.
LEMMA NothingIsNotAQuestion == NoPassport.action = "none"
  BY DEF NoPassport

\* What a commit does to a request that has been planned for.
LEMMA CommitIsPlanned ==
  ASSUME PInv, NEW o \in offers, Commit(o)
  PROVE  /\ o.question \in Candidates(facts) /\ o.question \in Asked
         /\ MustClarify(facts) /\ Candidates(facts) # {}
         /\ ~Current(facts[o.question]) /\ facts[o.question] # Refused
         /\ o.question = Plan(facts, budget).question
         /\ o.answer \in AnswersTo(o.question)
         /\ o.due = Plan(facts, budget).loss - QuestionCost(facts, o.question)
         /\ facts' = Revised(facts, o.question, o.answer)
         /\ facts' \in AllRequests /\ first' = first
         /\ budget \in 1..Budget /\ budget' = budget - 1 /\ budget' + Len(log') = Budget
         /\ Len(log') = Len(log) + 1 /\ Len(log) \in Nat
         /\ DOMAIN log' = 1..(Len(log) + 1) /\ DOMAIN log = 1..Len(log)
         /\ \A i \in 1..Len(log) : log'[i] = log[i]
         /\ log'[Len(log) + 1] = [question |-> o.question, answer |-> o.answer,
                                  changed |-> o.changed, due |-> o.due]
         /\ o.changed = Changes(facts, o.question, o.answer)
         /\ passport' = passport /\ passport.base # Len(log')
         /\ offers' \subseteq offers /\ \A p \in offers' : ~BaseIsCurrent(p)'
<1>1. IInv /\ Typed /\ Fresh /\ Based /\ Budgeted /\ Requested /\ Planned
  BY DEF PInv, IInv
<1>2. BaseIsCurrent(o) /\ first' = first /\ budget' = Spent(o) /\ offers' = offers \ {o}
      /\ passport' = passport
  BY DEF Commit
<1>3. /\ facts' = Revised(facts, o.question, o.answer)
      /\ o.question \in Asked
      /\ o.changed = Changes(facts, o.question, o.answer)
      /\ Len(log') = Len(log) + 1 /\ Len(log) \in Nat
      /\ DOMAIN log' = 1..(Len(log) + 1) /\ DOMAIN log = 1..Len(log)
      /\ \A i \in 1..Len(log) : log'[i] = log[i]
      /\ log'[Len(log) + 1] = [question |-> o.question, answer |-> o.answer,
                               changed |-> o.changed, due |-> o.due]
  BY <1>1, CommitRevises
<1>4. /\ budget > 0 /\ MustClarify(facts) /\ Candidates(facts) # {}
      /\ o.question = Plan(facts, budget).question
      /\ o.answer \in AnswersTo(o.question)
      /\ o.due = Plan(facts, budget).loss - QuestionCost(facts, o.question)
  BY <1>1, <1>2 DEF Planned
<1>5. facts \in AllRequests /\ budget \in 1..Budget
  BY <1>1, <1>4 DEF Requested, Budgeted, Budget
<1>6. o.question \in Candidates(facts)
  BY <1>4, <1>5, PlanIs
<1>7. ~Current(facts[o.question]) /\ facts[o.question] # Refused
  BY <1>6 DEF Candidates, Blockers, Unresolved
<1>8. facts' \in AllRequests
  BY <1>3, <1>4, <1>5, AnswersAreFacts, RevisedRequest
<1>9. budget' = budget - 1
  <2> DEFINE n == budget - 1
  <2>1. n \in Nat
    BY <1>5
  <2> HIDE DEF n
  <2>2. {0, n} = {0, n, n, n, n}
    OBVIOUS
  <2>3. Max({0, n}) \in {0, n} /\ \A y \in {0, n} : Max({0, n}) >= y
    BY <2>1, <2>2, MaxIs
  <2>4. Max({0, n}) = n
    BY <2>1, <2>3
  <2> QED
    BY <1>2, <2>4 DEF n, Spent
<1>10. budget' + Len(log') = Budget
  BY <1>1, <1>3, <1>5, <1>9 DEF Budgeted, Budget
<1>11. passport.base # Len(log')
  BY <1>1, <1>3 DEF Based
<1>12. \A p \in offers' : ~BaseIsCurrent(p)'
  BY <1>1, <1>2, <1>3 DEF Based, BaseIsCurrent
<1> QED
  BY <1>2, <1>3, <1>4, <1>5, <1>6, <1>7, <1>8, <1>9, <1>10, <1>11, <1>12

LEMMA PInitEstablishes == Init => PInv
<1> SUFFICES ASSUME Init PROVE PInv
  OBVIOUS
<1>1. log = <<>> /\ Len(log) = 0 /\ DOMAIN log = {} /\ offers = {} /\ facts = first
      /\ passport = NoPassport /\ budget = Budget /\ first \in Requests
  BY DEF Init
<1>2. first \in AllRequests /\ first["order"] # NotApplicable
  BY <1>1, RequestsAre
<1>3. Budgeted /\ Requested
  BY <1>1, <1>2 DEF Budgeted, Requested, Budget
<1>4. PassportTyped
  <2>1. passport.action = "none" /\ passport.question = "" /\ passport.methods = {}
    BY <1>1 DEF NoPassport
  <2>2. "" \notin Asked
    BY DEF Asked, QuestionFacts, EstimandFacts, MethodFacts, TargetRoles, StudyFacts
  <2> QED
    BY <2>1, <2>2 DEF PassportTyped
<1>5. PassportIsOfTheRequest /\ Planned /\ OrderHangsOnDependence /\ RefusedUntilInvalidated
  BY <1>1, <1>2 DEF PassportIsOfTheRequest, Planned, OrderHangsOnDependence,
                    RefusedUntilInvalidated
<1> QED
  BY <1>3, <1>4, <1>5, InitEstablishes DEF PInv

LEMMA PResolveKeeps == PInv /\ Resolve => PInv'
<1> SUFFICES ASSUME PInv, Resolve PROVE PInv'
  OBVIOUS
<1>1. passport' = PassportOf(facts, budget) /\ UNCHANGED <<first, facts, budget, log, offers>>
  BY DEF Resolve
<1>2. facts \in AllRequests /\ budget \in 0..Budget
  BY DEF PInv, Requested, Budgeted
<1>3. PassportCase(facts, budget, passport')
  BY <1>1, <1>2, PassportCases
<1>4. PassportTyped'
  <2>1. "" \notin Asked
    BY DEF Asked, QuestionFacts, EstimandFacts, MethodFacts, TargetRoles, StudyFacts
  <2>2. Stable(facts) \subseteq Methods
    BY BlockersAreAsked DEF Stable
  <2>3. MustClarify(facts) /\ Candidates(facts) # {} /\ budget > 0
          => Plan(facts, budget).question \in Asked
    <3> SUFFICES ASSUME MustClarify(facts), Candidates(facts) # {}, budget > 0
                 PROVE  Plan(facts, budget).question \in Asked
      OBVIOUS
    <3>1. budget \in 1..Budget
      BY <1>2 DEF Budget
    <3> QED
      BY <1>2, <3>1, PlanIs, BlockersAreAsked
  <2> QED
    BY <1>3, <2>1, <2>2, <2>3 DEF PassportTyped, PassportCase
<1>5. PassportIsOfTheRequest'
  <2>1. PassportOf(facts, budget)' = PassportOf(facts, budget)
    BY <1>1 DEF PassportOf, Pass, Abstain
  <2> QED
    BY <1>1, <2>1 DEF PassportIsOfTheRequest
<1>6. Budgeted' /\ Requested' /\ Planned' /\ OrderHangsOnDependence' /\ RefusedUntilInvalidated'
  BY <1>1 DEF PInv, Budgeted, Requested, Planned, BaseIsCurrent, OrderHangsOnDependence,
              RefusedUntilInvalidated
<1>7. IInv'
  BY ResolveKeeps DEF PInv
<1> QED
  BY <1>4, <1>5, <1>6, <1>7 DEF PInv

LEMMA PProposeKeeps == PInv /\ Propose => PInv'
<1> SUFFICES ASSUME PInv, Propose PROVE PInv'
  OBVIOUS
<1> DEFINE q == passport.question
<1>1. /\ UNCHANGED <<first, facts, budget, log, passport>>
      /\ passport.action = "clarify" /\ passport.base = Len(log) /\ q \in Asked
  BY DEF Propose
<1>2. PICK f \in AnswersTo(q) : offers' = offers \cup
                {[base |-> Len(log), question |-> q, answer |-> f,
                  changed |-> Changes(facts, q, f), facts |-> Revised(facts, q, f),
                  components |-> Components(facts, q, f),
                  due |-> passport.promise - QuestionCost(facts, q)]}
  BY DEF Propose, AnswersTo
<1>3. facts \in AllRequests /\ budget \in 0..Budget
  BY DEF PInv, Requested, Budgeted
<1>4. PassportCase(facts, budget, passport)
  <2>1. passport # NoPassport
    BY <1>1, NothingIsNotAQuestion
  <2>2. passport = PassportOf(facts, budget)
    BY <1>1, <2>1 DEF PInv, PassportIsOfTheRequest
  <2>3. PassportCase(facts, budget, PassportOf(facts, budget))
    BY <1>3, PassportCases
  <2> QED
    BY <2>2, <2>3
<1>5. /\ budget > 0 /\ MustClarify(facts) /\ Candidates(facts) # {}
      /\ q = Plan(facts, budget).question /\ passport.promise = Plan(facts, budget).loss
  BY <1>1, <1>4 DEF PassportCase
<1>6. Planned'
  <2>1. ASSUME NEW o \in offers', BaseIsCurrent(o)'
        PROVE  /\ o.question = Plan(facts, budget).question
               /\ o.answer \in AnswersTo(o.question)
               /\ o.due = Plan(facts, budget).loss - QuestionCost(facts, o.question)
    <3>1. CASE o \in offers
      BY <1>1, <2>1, <3>1 DEF PInv, Planned, BaseIsCurrent
    <3>2. CASE o \notin offers
      <4>1. o.question = q /\ o.answer = f
            /\ o.due = passport.promise - QuestionCost(facts, q)
        BY <1>2, <3>2
      <4> QED
        BY <1>5, <4>1
    <3> QED
      BY <3>1, <3>2
  <2> QED
    BY <1>1, <1>5, <2>1 DEF Planned
<1>7. Requested'
  <2>1. Revised(facts, q, f) \in AllRequests
    BY <1>1, <1>3, AnswersAreFacts, RevisedRequest
  <2>2. \A o \in offers' : o.facts \in AllRequests
    BY <1>2, <2>1 DEF PInv, Requested
  <2> QED
    BY <1>1, <2>2 DEF PInv, Requested
<1>8. PassportTyped' /\ Budgeted' /\ OrderHangsOnDependence' /\ RefusedUntilInvalidated'
  BY <1>1 DEF PInv, PassportTyped, Budgeted, OrderHangsOnDependence, RefusedUntilInvalidated
<1>9. PassportIsOfTheRequest'
  <2>1. PassportOf(facts, budget)' = PassportOf(facts, budget)
    BY <1>1 DEF PassportOf, Pass, Abstain
  <2> QED
    BY <1>1, <2>1 DEF PInv, PassportIsOfTheRequest
<1>10. IInv'
  BY ProposeKeeps DEF PInv
<1> QED
  BY <1>6, <1>7, <1>8, <1>9, <1>10 DEF PInv

\* The order of the measures after an answer to a question that may be asked.
LEMMA OrderAfterAnswer ==
  ASSUME NEW F, NEW q \in Asked, NEW f \in AnswersTo(q), ~Current(F[q]),
         F["order"] = NotApplicable => F["dependence"] = Confirmed(<<"independent">>)
  PROVE  LET G == Revised(F, q, f)
         IN  /\ G["order"] = NotApplicable => G["dependence"] = Confirmed(<<"independent">>)
             /\ F["order"] = NotApplicable => G["order"] = NotApplicable
             /\ q # "order" => G["order"] \in {F["order"], NotApplicable}
<1> DEFINE G == Revised(F, q, f)
<1>1. /\ "order" \notin Invalidates(q) /\ "dependence" \notin Invalidates(q)
      /\ "order" \in Addresses /\ "dependence" \in Addresses
  BY NamesAreAddresses DEF Invalidates
<1>2. G["dependence"] = IF q = "dependence" THEN f ELSE F["dependence"]
  BY <1>1 DEF Revised
<1>3. G["order"] = IF q = "order" THEN f
                   ELSE IF q = "dependence" THEN OrderAfter(F, f) ELSE F["order"]
  BY <1>1 DEF Revised
<1>4. Current(NotApplicable) /\ Current(Confirmed(<<"independent">>))
  BY DEF Current, NotApplicable, Confirmed, Fact
<1>5. CASE q = "order"
  <2>1. f # NotApplicable
    BY <1>5 DEF AnswersTo, AnswerFact, Confirmed, Refused, NotApplicable, Fact
  <2> QED
    BY <1>2, <1>3, <1>4, <1>5, <2>1
<1>6. CASE q = "dependence"
  <2>1. F["order"] # NotApplicable
    BY <1>4, <1>6
  <2>2. CASE f = Confirmed(<<"independent">>)
    BY <1>2, <1>3, <1>6, <2>1, <2>2 DEF OrderAfter
  <2>3. CASE f # Confirmed(<<"independent">>)
    <3>1. OrderAfter(F, f) = F["order"]
      BY <2>1, <2>3 DEF OrderAfter
    <3> QED
      BY <1>2, <1>3, <1>6, <2>1, <3>1
  <2> QED
    BY <2>2, <2>3
<1>7. CASE q \notin {"order", "dependence"}
  BY <1>2, <1>3, <1>7
<1> QED
  BY <1>5, <1>6, <1>7

\* A refusal is only undone by an invalidation.
LEMMA CommitKeepsRefusals ==
  ASSUME PInv, NEW o \in offers, Commit(o)
  PROVE  OrderHangsOnDependence' /\ RefusedUntilInvalidated'
<1> DEFINE q == o.question
           f == o.answer
<1>1. /\ q \in Asked /\ ~Current(facts[q]) /\ facts[q] # Refused /\ f \in AnswersTo(q)
      /\ facts' = Revised(facts, q, f) /\ o.changed = Changes(facts, q, f)
      /\ Len(log') = Len(log) + 1 /\ Len(log) \in Nat
      /\ DOMAIN log' = 1..(Len(log) + 1) /\ DOMAIN log = 1..Len(log)
      /\ \A i \in 1..Len(log) : log'[i] = log[i]
      /\ log'[Len(log) + 1].question = q /\ log'[Len(log) + 1].answer = f
      /\ log'[Len(log) + 1].changed = o.changed
  BY CommitIsPlanned DEF Commit
<1>2. /\ facts'["order"] = NotApplicable => facts'["dependence"] = Confirmed(<<"independent">>)
      /\ facts["order"] = NotApplicable => facts'["order"] = NotApplicable
      /\ q # "order" => facts'["order"] \in {facts["order"], NotApplicable}
  BY <1>1, OrderAfterAnswer DEF PInv, OrderHangsOnDependence
<1>3. q \in Addresses
  BY <1>1, NamesAreAddresses
<1>4. ASSUME NEW i \in DOMAIN log', log'[i].answer = Refused
      PROVE  \/ facts'[log'[i].question] = Refused
             \/ \E j \in (i + 1)..Len(log') :
                  log'[j].changed /\ log'[i].question \in Invalidates(log'[j].question)
             \/ log'[i].question = "order" /\ facts'["order"] = NotApplicable
  <2>1. CASE i = Len(log) + 1
    BY <1>1, <1>3, <1>4, <2>1, RevisedAnswers
  <2>2. CASE i \in 1..Len(log)
    <3> DEFINE r == log[i].question
    <3>1. log'[i] = log[i] /\ i \in DOMAIN log
      BY <1>1, <2>2
    <3>2. r \in Asked /\ r \in Addresses
      BY <3>1, NamesAreAddresses DEF PInv, IInv, Typed
    <3>3. \/ facts[r] = Refused
          \/ \E j \in (i + 1)..Len(log) : log[j].changed /\ r \in Invalidates(log[j].question)
          \/ r = "order" /\ facts["order"] = NotApplicable
      BY <1>4, <3>1 DEF PInv, RefusedUntilInvalidated
    <3>4. CASE facts[r] = Refused
      <4>1. r # q
        BY <1>1, <3>4
      <4>2. CASE Changes(facts, q, f) /\ r \in Invalidates(q)
        <5>1. Len(log) + 1 \in (i + 1)..Len(log')
          BY <1>1, <2>2
        <5> QED
          BY <1>1, <3>1, <4>2, <5>1
      <4>3. CASE ~(Changes(facts, q, f) /\ r \in Invalidates(q)) /\ r # "order"
        BY <1>1, <3>1, <3>2, <3>4, <4>1, <4>3 DEF Revised
      <4>4. CASE r = "order"
        BY <1>2, <3>1, <3>4, <4>1, <4>4
      <4> QED
        BY <4>2, <4>3, <4>4
    <3>5. CASE \E j \in (i + 1)..Len(log) : log[j].changed /\ r \in Invalidates(log[j].question)
      <4>1. PICK j \in (i + 1)..Len(log) : log[j].changed /\ r \in Invalidates(log[j].question)
        BY <3>5
      <4>2. j \in (i + 1)..Len(log') /\ log'[j] = log[j]
        BY <1>1, <2>2
      <4> QED
        BY <3>1, <4>1, <4>2
    <3>6. CASE r = "order" /\ facts["order"] = NotApplicable
      BY <1>2, <3>1, <3>6
    <3> QED
      BY <3>3, <3>4, <3>5, <3>6
  <2> QED
    BY <1>1, <1>4, <2>1, <2>2
<1> QED
  BY <1>2, <1>4 DEF OrderHangsOnDependence, RefusedUntilInvalidated

LEMMA PCommitKeeps ==
  ASSUME PInv, NEW o \in offers, Commit(o)
  PROVE  PInv'
<1>1. /\ o.answer \in AnswersTo(o.question) /\ o.question \in Asked
      /\ facts' \in AllRequests /\ first' = first
      /\ budget \in 1..Budget /\ budget' = budget - 1 /\ budget' + Len(log') = Budget
      /\ DOMAIN log' = 1..(Len(log) + 1) /\ DOMAIN log = 1..Len(log) /\ Len(log) \in Nat
      /\ \A i \in 1..Len(log) : log'[i] = log[i]
      /\ log'[Len(log) + 1].question = o.question /\ log'[Len(log) + 1].answer = o.answer
      /\ passport' = passport /\ passport.base # Len(log')
      /\ offers' \subseteq offers /\ \A p \in offers' : ~BaseIsCurrent(p)'
  BY CommitIsPlanned DEF Commit
<1>2. Budgeted'
  BY <1>1 DEF Budgeted, Budget
<1>3. Requested'
  <2>1. \A i \in DOMAIN log' : log'[i].answer \in AnswersTo(log'[i].question)
    BY <1>1 DEF PInv, Requested
  <2>2. first' \in AllRequests /\ facts' \in AllRequests
        /\ \A p \in offers' : p.facts \in AllRequests
    BY <1>1 DEF PInv, Requested
  <2> QED
    BY <2>1, <2>2 DEF Requested
<1>4. PassportTyped'
  BY <1>1 DEF PInv, PassportTyped
<1>5. PassportIsOfTheRequest' /\ Planned'
  BY <1>1 DEF PassportIsOfTheRequest, Planned
<1>6. OrderHangsOnDependence' /\ RefusedUntilInvalidated'
  BY CommitKeepsRefusals
<1>7. IInv'
  BY CommitKeeps DEF PInv
<1> QED
  BY <1>2, <1>3, <1>4, <1>5, <1>6, <1>7 DEF PInv

LEMMA PRefuseStaleKeeps == PInv /\ (RefuseStale \/ UNCHANGED vars) => PInv'
<1> SUFFICES ASSUME PInv, RefuseStale \/ UNCHANGED vars PROVE PInv'
  OBVIOUS
<1>1. offers' \subseteq offers /\ UNCHANGED <<first, facts, budget, log, passport>>
  BY DEF RefuseStale, vars
<1>2. PassportTyped' /\ Budgeted' /\ OrderHangsOnDependence' /\ RefusedUntilInvalidated'
  BY <1>1 DEF PInv, PassportTyped, Budgeted, OrderHangsOnDependence, RefusedUntilInvalidated
<1>3. Requested' /\ Planned'
  BY <1>1 DEF PInv, Requested, Planned, BaseIsCurrent
<1>4. PassportIsOfTheRequest'
  <2>1. PassportOf(facts, budget)' = PassportOf(facts, budget)
    BY <1>1 DEF PassportOf, Pass, Abstain
  <2> QED
    BY <1>1, <2>1 DEF PInv, PassportIsOfTheRequest
<1>5. IInv'
  BY RefuseStaleKeeps DEF PInv
<1> QED
  BY <1>2, <1>3, <1>4, <1>5 DEF PInv

LEMMA PNextKeeps == PInv /\ [Next]_vars => PInv'
<1> SUFFICES ASSUME PInv, [Next]_vars PROVE PInv'
  OBVIOUS
<1>1. CASE Resolve
  BY <1>1, PResolveKeeps
<1>2. CASE Propose
  BY <1>2, PProposeKeeps
<1>3. ASSUME NEW o \in offers, Commit(o) PROVE PInv'
  BY <1>3, PCommitKeeps DEF Commit
<1>4. CASE RefuseStale \/ UNCHANGED vars
  BY <1>4, PRefuseStaleKeeps
<1> QED
  BY <1>1, <1>2, <1>3, <1>4 DEF Next, CommitReady, CommitAccepted

LEMMA AlwaysPInv == Spec => []PInv
  BY PInitEstablishes, PNextKeeps, PTL DEF Spec

\* The question of a passport that is up to date may be asked.
LEMMA AskedIsCandidate ==
  ASSUME PInv, passport.action = "clarify", passport.base = Len(log)
  PROVE  passport.question \in Candidates(facts)
<1>1. passport # NoPassport
  BY NothingIsNotAQuestion
<1>2. facts \in AllRequests /\ budget \in 0..Budget
  BY DEF PInv, Requested, Budgeted
<1>3. PassportCase(facts, budget, passport)
  <2>1. passport = PassportOf(facts, budget)
    BY <1>1 DEF PInv, PassportIsOfTheRequest
  <2>2. PassportCase(facts, budget, PassportOf(facts, budget))
    BY <1>2, PassportCases
  <2> QED
    BY <2>1, <2>2
<1>4. /\ budget > 0 /\ MustClarify(facts) /\ Candidates(facts) # {}
      /\ passport.question = Plan(facts, budget).question
  BY <1>3 DEF PassportCase
<1>5. budget \in 1..Budget
  BY <1>2, <1>4 DEF Budget
<1> QED
  BY <1>2, <1>4, <1>5, PlanIs

\* The request, its budget of questions, its evidence, the passport and the candidates always
\* have the types that the code declares.
THEOREM RequestsAreTyped == Spec => []TypeOK
<1>1. PInv => TypeOK
  <2> SUFFICES ASSUME PInv PROVE TypeOK
    OBVIOUS
  <2>1. first \in AllRequests /\ facts \in AllRequests
        /\ budget \in 0..Budget /\ budget + Len(log) = Budget
    BY DEF PInv, Requested, Budgeted
  <2>2. \A i \in DOMAIN log : log[i].question \in Asked /\ log[i].answer \in AllFacts
    BY AnswersAreFacts DEF PInv, IInv, Typed, Requested
  <2>3. /\ passport.action \in {"none", "recommend_local", "clarify", "abstain"}
        /\ passport.base \in 0..Len(log)
        /\ passport.action = "clarify" <=> passport.question \in Asked
        /\ passport.action = "recommend_local" <=> passport.methods # {}
        /\ passport.methods \subseteq Methods
    BY DEF PInv, IInv, Based, PassportTyped
  <2>4. \A o \in offers : o.base \in 0..Len(log) /\ o.facts \in AllRequests
    BY DEF PInv, IInv, Based, Requested
  <2> QED
    BY <2>1, <2>2, <2>3, <2>4 DEF TypeOK
<1> QED
  BY <1>1, AlwaysPInv, PTL

\* Whatever is opened and however the commits interleave: a question that the user was not sure
\* about is asked again only after an answer has invalidated its fact (_apply_answer).
THEOREM RefusedQuestionsStayRefused == Spec => []RefusedStaysRefused
<1>1. PInv => RefusedStaysRefused
  <2> SUFFICES ASSUME PInv, NEW i \in DOMAIN log,
                      passport.action = "clarify", passport.base = Len(log),
                      log[i].question = passport.question, log[i].answer = Refused
               PROVE  \E j \in (i + 1)..Len(log) :
                        log[j].changed /\ passport.question \in Invalidates(log[j].question)
    BY DEF RefusedStaysRefused
  <2> DEFINE q == passport.question
  <2>1. q \in Candidates(facts)
    BY AskedIsCandidate
  <2>2. ~Current(facts[q]) /\ facts[q] # Refused
    BY <2>1 DEF Candidates, Blockers, Unresolved
  <2>3. Current(NotApplicable)
    BY DEF Current, NotApplicable, Fact
  <2>4. \/ facts[q] = Refused
        \/ \E j \in (i + 1)..Len(log) : log[j].changed /\ q \in Invalidates(log[j].question)
        \/ q = "order" /\ facts["order"] = NotApplicable
    BY DEF PInv, RefusedUntilInvalidated
  <2> QED
    BY <2>2, <2>3, <2>4
<1> QED
  BY <1>1, AlwaysPInv, PTL

------------------------------------------------------------------------------
(* Requests that the resolver and the planner cannot tell apart.            *)

\* They exclude the same methods, and of what the others read the same facts are current, the
\* same are refused and the same have been confirmed that these depend on.
Alike(A, B) ==
  \A m \in Methods :
    /\ ExcludedBy(A, m) <=> ExcludedBy(B, m)
    /\ ~ExcludedBy(A, m) =>
         \A a \in DOMAIN Rules[m] :
           /\ Current(A[a]) <=> Current(B[a])
           /\ A[a] = Refused <=> B[a] = Refused
           /\ \A b \in Depends[a] : A[b].state = "confirmed" <=> B[b].state = "confirmed"

\* The resolver and the terminal loss find the same of requests that are alike.
LEMMA AlikeIsResolvedAlike ==
  ASSUME NEW A, NEW B, Alike(A, B)
  PROVE  /\ Possible(A) = Possible(B) /\ Blockers(A) = Blockers(B)
         /\ MustClarify(A) <=> MustClarify(B)
         /\ Candidates(A) = Candidates(B)
         /\ TerminalLoss(A) = TerminalLoss(B)
         /\ \A q \in Candidates(A) :
              ~Current(A[q]) /\ ~Current(B[q]) /\ QuestionCost(A, q) = QuestionCost(B, q)
<1>1. Possible(A) = Possible(B) /\ Possible(A) \subseteq Methods
  BY DEF Alike, Possible
<1>2. \A m \in Possible(A) : Unresolved(A, m) = Unresolved(B, m)
  BY <1>1 DEF Alike, Possible, Unresolved
<1>3. Blockers(A) = Blockers(B)
  BY <1>1, <1>2 DEF Blockers
<1>4. Stable(A) = Stable(B)
  BY <1>1, <1>2 DEF Stable
<1>5. \A q \in Blockers(A) : \E m \in Methods : ~ExcludedBy(A, m) /\ q \in DOMAIN Rules[m]
                                               /\ ~Current(A[q])
  BY DEF Blockers, Unresolved, Possible
<1>6. \A q \in Blockers(A) : /\ A[q] = Refused <=> B[q] = Refused
                             /\ ~Current(A[q]) /\ ~Current(B[q])
  BY <1>5 DEF Alike
<1>7. Candidates(A) = Candidates(B)
  BY <1>3, <1>6 DEF Candidates
<1>8. ASSUME NEW q \in Candidates(A)
      PROVE  QuestionCost(A, q) = QuestionCost(B, q)
  <2>1. PICK m \in Methods : ~ExcludedBy(A, m) /\ q \in DOMAIN Rules[m]
    BY <1>5 DEF Candidates
  <2>2. \A b \in Depends[q] : A[b].state = "confirmed" <=> B[b].state = "confirmed"
    BY <2>1 DEF Alike
  <2>3. {b \in Depends[q] : A[b].state # "confirmed"}
          = {b \in Depends[q] : B[b].state # "confirmed"}
    BY <2>2
  <2> QED
    BY <2>3 DEF QuestionCost
<1>9. TerminalLoss(A) = TerminalLoss(B)
  BY <1>1, <1>3 DEF TerminalLoss
<1>10. \A q \in Candidates(A) : ~Current(A[q]) /\ ~Current(B[q])
  BY <1>6 DEF Candidates
<1> QED
  BY <1>1, <1>3, <1>4, <1>7, <1>8, <1>9, <1>10 DEF MustClarify

\* One fact of a request is replaced.
LEMMA RequestIsFunction ==
  ASSUME NEW F \in AllRequests, NEW q, NEW f
  PROVE  /\ DOMAIN F = Addresses
         /\ \A a \in Addresses : [F EXCEPT ![q] = f][a] = IF a = q THEN f ELSE F[a]
  BY DEF AllRequests

\* What is asked hangs on facts that a request has.
LEMMA DependsOnFacts ==
  \A m \in Methods : \A a \in DOMAIN Rules[m] : a \in Addresses /\ Depends[a] \subseteq Addresses
<1>1. \A a \in Asked : Depends[a] \subseteq Addresses
  BY DEF Depends, Asked, QuestionFacts, EstimandFacts, MethodFacts, TargetRoles, StudyFacts,
         Addresses, Context
<1> QED
  BY <1>1, RulesReadAsked, NamesAreAddresses

\* The same answer to the same question keeps them alike.
LEMMA AlikeAfterAnswer ==
  ASSUME NEW A \in AllRequests, NEW B \in AllRequests, Alike(A, B),
         NEW q, ~Current(A[q]), ~Current(B[q]), NEW f
  PROVE  Alike([A EXCEPT ![q] = f], [B EXCEPT ![q] = f])
<1> DEFINE X == [A EXCEPT ![q] = f]
           Y == [B EXCEPT ![q] = f]
<1>1. \A a \in Addresses : /\ X[a] = IF a = q THEN f ELSE A[a]
                           /\ Y[a] = IF a = q THEN f ELSE B[a]
  BY RequestIsFunction
<1> HIDE DEF X, Y
<1>2. SUFFICES ASSUME NEW m \in Methods
               PROVE  /\ ExcludedBy(X, m) <=> ExcludedBy(Y, m)
                      /\ ~ExcludedBy(X, m) =>
                           \A a \in DOMAIN Rules[m] :
                             /\ Current(X[a]) <=> Current(Y[a])
                             /\ X[a] = Refused <=> Y[a] = Refused
                             /\ \A b \in Depends[a] :
                                  X[b].state = "confirmed" <=> Y[b].state = "confirmed"
  BY DEF Alike, X, Y
<1>3. /\ ExcludedBy(A, m) <=> ExcludedBy(B, m)
      /\ ~ExcludedBy(A, m) =>
           \A a \in DOMAIN Rules[m] :
             /\ Current(A[a]) <=> Current(B[a])
             /\ A[a] = Refused <=> B[a] = Refused
             /\ \A b \in Depends[a] : A[b].state = "confirmed" <=> B[b].state = "confirmed"
  BY DEF Alike
<1>4. \A a \in DOMAIN Rules[m] : a \in Addresses /\ Depends[a] \subseteq Addresses
  BY DependsOnFacts
<1> DEFINE out == q \in DOMAIN Rules[m] /\ Current(f) /\ f.value \notin Rules[m][q]
<1>5. ExcludedBy(X, m) <=> ExcludedBy(A, m) \/ out
  BY <1>1, <1>4 DEF ExcludedBy
<1>6. ExcludedBy(Y, m) <=> ExcludedBy(B, m) \/ out
  BY <1>1, <1>4 DEF ExcludedBy
<1> HIDE DEF out
<1> QED
  BY <1>1, <1>3, <1>4, <1>5, <1>6

\* The planner finds the same of requests that are alike.
Discreet(h) == \A A, B \in AllRequests : Alike(A, B) => h[A] = h[B]

\* If what is left is the same for requests that are alike, so is it after a question ...
LEMMA WorstIsDiscreet ==
  ASSUME NEW h, Discreet(h), NEW A \in AllRequests, NEW B \in AllRequests, Alike(A, B),
         NEW q \in Candidates(A)
  PROVE  Worst(h, A, q) = Worst(h, B, q)
<1> DEFINE S == {h[[A EXCEPT ![q] = f]] : f \in Projections(q)}
           T == {h[[B EXCEPT ![q] = f]] : f \in Projections(q)}
<1>1. ~Current(A[q]) /\ ~Current(B[q]) /\ QuestionCost(A, q) = QuestionCost(B, q)
  BY AlikeIsResolvedAlike
<1>2. q \in Asked
  BY BlockersAreAsked
<1>3. \A f \in Projections(q) : h[[A EXCEPT ![q] = f]] = h[[B EXCEPT ![q] = f]]
  <2> SUFFICES ASSUME NEW f \in Projections(q)
               PROVE  h[[A EXCEPT ![q] = f]] = h[[B EXCEPT ![q] = f]]
    OBVIOUS
  <2>1. [A EXCEPT ![q] = f] \in AllRequests /\ [B EXCEPT ![q] = f] \in AllRequests
    BY <1>2, ProjectedRequest
  <2>2. Alike([A EXCEPT ![q] = f], [B EXCEPT ![q] = f])
    BY <1>1, AlikeAfterAnswer
  <2> QED
    BY <2>1, <2>2 DEF Discreet
<1>4. S = T
  BY <1>3
<1>5. Worst(h, A, q) = QuestionCost(A, q) + Max(S) /\ Worst(h, B, q) = QuestionCost(B, q) + Max(T)
  BY DEF Worst
<1> QED
  BY <1>1, <1>4, <1>5

\* ... and after the best of them ...
LEMMA SearchedIsDiscreet ==
  ASSUME NEW h, Discreet(h)
  PROVE  Discreet(Searched(h))
<1> SUFFICES ASSUME NEW A \in AllRequests, NEW B \in AllRequests, Alike(A, B)
             PROVE  Searched(h)[A] = Searched(h)[B]
  BY DEF Discreet
<1> DEFINE S == {Worst(h, A, q) : q \in Candidates(A)}
           T == {Worst(h, B, q) : q \in Candidates(B)}
<1>1. /\ MustClarify(A) <=> MustClarify(B)
      /\ Candidates(A) = Candidates(B)
      /\ TerminalLoss(A) = TerminalLoss(B)
  BY AlikeIsResolvedAlike
<1>2. \A q \in Candidates(A) : Worst(h, A, q) = Worst(h, B, q)
  BY WorstIsDiscreet
<1>3. S = T
  BY <1>1, <1>2
<1>4. /\ Searched(h)[A] = IF ~MustClarify(A) \/ Candidates(A) = {} THEN TerminalLoss(A)
                          ELSE Min(S)
      /\ Searched(h)[B] = IF ~MustClarify(B) \/ Candidates(B) = {} THEN TerminalLoss(B)
                          ELSE Min(T)
  BY DEF Searched
<1> HIDE DEF S, T
<1> QED
  BY <1>1, <1>3, <1>4

\* ... within every budget.
LEMMA SearchIsDiscreet ==
  \A n \in 0..Budget : Discreet(Search[n])
<1>1. Discreet(Search[0])
  BY SearchIs, AlikeIsResolvedAlike DEF Discreet
<1>2. Discreet(Search[1])
  <2>1. Search[1] = Searched(Search[0])
    BY SearchIs DEF Budget
  <2> QED
    BY <1>1, <2>1, SearchedIsDiscreet
<1>3. Discreet(Search[2])
  <2>1. Search[2] = Searched(Search[1])
    BY SearchIs DEF Budget
  <2> QED
    BY <1>2, <2>1, SearchedIsDiscreet
<1>4. Discreet(Search[3])
  <2>1. Search[3] = Searched(Search[2])
    BY SearchIs DEF Budget
  <2> QED
    BY <1>3, <2>1, SearchedIsDiscreet
<1> QED
  BY <1>1, <1>2, <1>3, <1>4 DEF Budget

------------------------------------------------------------------------------
(* An answer is like one of those that the planner projects.                *)

\* Two answers that no rule tells apart.
LEMMA LikeAnswers ==
  ASSUME NEW F \in AllRequests, NEW q \in Addresses, NEW v, NEW w,
         \A m \in Methods : q \in DOMAIN Rules[m] => (v \in Rules[m][q] <=> w \in Rules[m][q])
  PROVE  Alike([F EXCEPT ![q] = Confirmed(v)], [F EXCEPT ![q] = Confirmed(w)])
<1> DEFINE X == [F EXCEPT ![q] = Confirmed(v)]
           Y == [F EXCEPT ![q] = Confirmed(w)]
<1>1. \A a \in Addresses : /\ X[a] = IF a = q THEN Confirmed(v) ELSE F[a]
                           /\ Y[a] = IF a = q THEN Confirmed(w) ELSE F[a]
  BY RequestIsFunction
<1> HIDE DEF X, Y
<1>2. \A u : /\ Current(Confirmed(u)) /\ Confirmed(u).value = u
             /\ Confirmed(u).state = "confirmed" /\ Confirmed(u) # Refused
  BY DEF Current, Confirmed, Refused, Fact
<1>3. SUFFICES ASSUME NEW m \in Methods
               PROVE  /\ ExcludedBy(X, m) <=> ExcludedBy(Y, m)
                      /\ \A a \in DOMAIN Rules[m] :
                           /\ Current(X[a]) <=> Current(Y[a])
                           /\ X[a] = Refused <=> Y[a] = Refused
                           /\ \A b \in Depends[a] :
                                X[b].state = "confirmed" <=> Y[b].state = "confirmed"
  BY DEF Alike, X, Y
<1>4. \A a \in DOMAIN Rules[m] : a \in Addresses /\ Depends[a] \subseteq Addresses
  BY DependsOnFacts
<1>5. \A a \in DOMAIN Rules[m] :
        (Current(X[a]) /\ X[a].value \notin Rules[m][a])
          <=> (Current(Y[a]) /\ Y[a].value \notin Rules[m][a])
  BY <1>1, <1>2, <1>4
<1>6. ExcludedBy(X, m) <=> ExcludedBy(Y, m)
  BY <1>5 DEF ExcludedBy
<1>7. \A a \in Addresses : /\ Current(X[a]) <=> Current(Y[a])
                           /\ X[a] = Refused <=> Y[a] = Refused
                           /\ X[a].state = "confirmed" <=> Y[a].state = "confirmed"
  BY <1>1, <1>2
<1> QED
  BY <1>4, <1>6, <1>7

\* Requests that differ in a fact of excluded methods only, on which nothing hangs that others read.
LEMMA LikeBut ==
  ASSUME NEW x, NEW A \in AllRequests, NEW B \in AllRequests,
         \A a \in Addresses \ {x} : A[a] = B[a],
         \A m \in Methods :
           IF x \in DOMAIN Rules[m] THEN ExcludedBy(A, m) /\ ExcludedBy(B, m)
           ELSE \A a \in DOMAIN Rules[m] : x \notin Depends[a]
  PROVE  Alike(A, B)
<1> SUFFICES ASSUME NEW m \in Methods
             PROVE  /\ ExcludedBy(A, m) <=> ExcludedBy(B, m)
                    /\ ~ExcludedBy(A, m) =>
                         \A a \in DOMAIN Rules[m] :
                           /\ Current(A[a]) <=> Current(B[a])
                           /\ A[a] = Refused <=> B[a] = Refused
                           /\ \A b \in Depends[a] :
                                A[b].state = "confirmed" <=> B[b].state = "confirmed"
  BY DEF Alike
<1>1. \A a \in DOMAIN Rules[m] : a \in Addresses /\ Depends[a] \subseteq Addresses
  BY DependsOnFacts
<1>2. CASE x \in DOMAIN Rules[m]
  BY <1>2
<1>3. CASE x \notin DOMAIN Rules[m]
  <2>1. \A a \in DOMAIN Rules[m] : A[a] = B[a]
    BY <1>1, <1>3
  <2>2. \A a \in DOMAIN Rules[m] : \A b \in Depends[a] : A[b] = B[b]
    BY <1>1, <1>3
  <2>3. ExcludedBy(A, m) <=> ExcludedBy(B, m)
    BY <2>1 DEF ExcludedBy
  <2> QED
    BY <2>1, <2>2, <2>3
<1> QED
  BY <1>2, <1>3

\* An answer that is a list of variables is empty, or it is one of the two variables' lists.
LEMMA AnswersAreLists ==
  ASSUME NEW q \in Asked \ DOMAIN ChoiceQuestions
  PROVE  /\ q \in ListFacts
         /\ \A v \in Answers(q) : v # None => v \in NonEmpty /\ v \notin Empty
         /\ None \in Empty /\ None \notin NonEmpty
         /\ Projections(q) = {Confirmed(v) : v \in
              (Answers(q) \ {v \in Answers(q) : v # None})
                \cup {CHOOSE v \in {v \in Answers(q) : v # None} : TRUE}}
         /\ \E v \in Answers(q) : v # None
<1>1. q \in ListFacts
  BY DEF Asked, ChoiceQuestions, QuestionFacts, EstimandFacts, MethodFacts, StudyFacts,
         ListFacts, LowSeverity
<1>2. /\ <<"x">> # None /\ <<"y">> # None /\ <<"x", "y">> # None /\ <<"y", "x">> # None
      /\ <<"x">> # NA /\ <<"y">> # NA /\ <<"x", "y">> # NA /\ <<"y", "x">> # NA
  BY DEF None, NA
<1>3. Answers(q) = IF q = "order" THEN {<<"x", "y">>, <<"y", "x">>}
                   ELSE IF q = "repeated" THEN {None, <<"x", "y">>, <<"y", "x">>}
                   ELSE IF q \in LowSeverity THEN {None, <<"x">>}
                   ELSE {<<"x">>, <<"y">>}
  BY DEF Answers
<1>4. \A v \in Answers(q) : v # None => v \in {<<"x">>, <<"y">>, <<"x", "y">>, <<"y", "x">>}
  BY <1>3
<1>5. \A v \in Answers(q) : v # None => v \in NonEmpty /\ v \notin Empty
  BY <1>2, <1>4 DEF NonEmpty, VariableLists, Empty
<1>6. None \in Empty /\ None \notin NonEmpty
  BY <1>2 DEF NonEmpty, VariableLists, Empty
<1>7. \E v \in Answers(q) : v # None
  BY <1>2, <1>3
<1>8. Projections(q) = {Confirmed(v) : v \in
              (Answers(q) \ {v \in Answers(q) : v # None})
                \cup {CHOOSE v \in {v \in Answers(q) : v # None} : TRUE}}
  BY DEF Projections
<1> QED
  BY <1>1, <1>5, <1>6, <1>7, <1>8

\* A request is like itself.
LEMMA AlikeIsReflexive == \A A : Alike(A, A)
  BY DEF Alike

\* Nothing hangs on the order, and only the order on the repeated measures.
LEMMA DependsOfOrder ==
  /\ \A a \in Asked : "order" \notin Depends[a]
  /\ \A a \in Asked : "repeated" \in Depends[a] => a = "order"
  BY DEF Depends, Asked, QuestionFacts, EstimandFacts, MethodFacts, TargetRoles, StudyFacts

\* Whatever the user answers to a question that may be asked, if it invalidates nothing then the
\* request is like one that the planner has looked at.
LEMMA AnswerIsProjected ==
  ASSUME NEW F \in AllRequests, NEW q \in Candidates(F), NEW v \in Answers(q),
         ~(Changes(F, q, AnswerFact(q, v)) /\ Invalidates(q) # {}),
         F["order"] = NotApplicable => F["dependence"] = Confirmed(<<"independent">>)
  PROVE  \E p \in Projections(q) : Alike(Revised(F, q, AnswerFact(q, v)), [F EXCEPT ![q] = p])
<1> DEFINE f == AnswerFact(q, v)
<1>1. q \in Asked /\ q \in Addresses /\ ~Current(F[q])
  BY BlockersAreAsked, NamesAreAddresses DEF Candidates, Blockers, Unresolved
<1>2. \A u : Current(Confirmed(u)) /\ Confirmed(u).value = u /\ Confirmed(u).state = "confirmed"
  BY DEF Current, Confirmed, Fact
<1>3. Current(NotApplicable) /\ NotApplicable.value = NA /\ NotApplicable # Confirmed(v)
  BY DEF Current, NotApplicable, Confirmed, Fact
<1>4. f = IF q = "repeated" /\ v = None THEN NotApplicable ELSE Confirmed(v)
  BY DEF AnswerFact
<1>5. Invalidates(q) = {}
  <2>1. SUFFICES ASSUME Invalidates(q) # {} PROVE FALSE
    OBVIOUS
  <2>2. q \in {"goal", "template", "causal"}
    BY <2>1 DEF Invalidates
  <2>3. f = Confirmed(v)
    BY <1>4, <2>2
  <2>4. Changes(F, q, f)
    BY <1>1, <1>2, <2>3 DEF Changes
  <2> QED
    BY <2>1, <2>4
<1>6. Revised(F, q, f) = [a \in Addresses |->
         IF a = q THEN f ELSE IF a = "order" /\ q = "dependence" THEN OrderAfter(F, f) ELSE F[a]]
  BY <1>5 DEF Revised
<1> HIDE DEF f
<1>7. \A g : [F EXCEPT ![q] = g] = [a \in Addresses |-> IF a = q THEN g ELSE F[a]]
  BY DEF AllRequests
<1>8. \A p \in Projections(q) : [F EXCEPT ![q] = p] \in AllRequests
  BY <1>1, ProjectedRequest
<1>9. f \in AllFacts
  <2>1. f \in AnswersTo(q)
    BY DEF AnswersTo, f
  <2> QED
    BY <1>1, <2>1, AnswersAreFacts
<1>10. Revised(F, q, f) \in AllRequests
  BY <1>9, RevisedRequest
<1>11. CASE q = "dependence"
  <2>1. f = Confirmed(v) /\ F["order"] # NotApplicable
    BY <1>1, <1>2, <1>4, <1>11
  <2>2. q \in DOMAIN ChoiceQuestions
    BY <1>11 DEF ChoiceQuestions
  <2>3. f \in Projections(q)
    BY <1>1, <2>1, <2>2, ProjectionsAre
  <2>4. CASE f = Confirmed(<<"independent">>)
    <3> DEFINE A == Revised(F, q, f)
               B == [F EXCEPT ![q] = f]
    <3>1. \A a \in Addresses \ {"order"} : A[a] = B[a]
      BY <1>6, <1>7
    <3>2. A[q] = f /\ B[q] = f
      BY <1>1, <1>6, <1>7
    <3>3. A \in AllRequests /\ B \in AllRequests
      BY <1>8, <1>10, <2>3
    <3> HIDE DEF A, B
    <3>4. ASSUME NEW m \in Methods
          PROVE  IF "order" \in DOMAIN Rules[m] THEN ExcludedBy(A, m) /\ ExcludedBy(B, m)
                 ELSE \A a \in DOMAIN Rules[m] : "order" \notin Depends[a]
      <4>1. CASE "order" \in DOMAIN Rules[m]
        <5>1. q \in DOMAIN Rules[m] /\ Rules[m][q] = Singles({"paired"})
          BY <1>11, <4>1, RulesOfLists
        <5>2. <<"independent">> \notin Singles({"paired"})
          BY DEF Singles
        <5>3. Current(f) /\ f.value \notin Rules[m][q]
          BY <1>2, <2>4, <5>1, <5>2
        <5> QED
          BY <3>2, <4>1, <5>1, <5>3 DEF ExcludedBy
      <4>2. CASE "order" \notin DOMAIN Rules[m]
        BY <4>2, DependsOfOrder, RulesReadAsked
      <4> QED
        BY <4>1, <4>2
    <3>5. Alike(A, B)
      BY <3>1, <3>3, <3>4, LikeBut
    <3> QED
      BY <2>3, <3>5 DEF A, B, f
  <2>5. CASE f # Confirmed(<<"independent">>)
    <3>1. OrderAfter(F, f) = F["order"]
      BY <2>1, <2>5 DEF OrderAfter
    <3>2. Revised(F, q, f) = [F EXCEPT ![q] = f]
      BY <1>6, <1>7, <3>1
    <3> QED
      BY <2>3, <3>2, AlikeIsReflexive DEF f
  <2> QED
    BY <2>4, <2>5
<1>12. CASE q # "dependence"
  <2>1. Revised(F, q, f) = [F EXCEPT ![q] = f]
    BY <1>6, <1>7, <1>12
  <2>2. CASE q \in DOMAIN ChoiceQuestions
    <3>1. f = Confirmed(v)
      BY <1>4, <2>2 DEF ChoiceQuestions
    <3>2. f \in Projections(q)
      BY <1>1, <2>2, <3>1, ProjectionsAre
    <3> QED
      BY <2>1, <3>2, AlikeIsReflexive DEF f
  <2>3. CASE q \notin DOMAIN ChoiceQuestions
    <3> DEFINE open == {u \in Answers(q) : u # None}
               one == CHOOSE u \in open : TRUE
    <3>1. /\ q \in ListFacts
          /\ \A u \in Answers(q) : u # None => u \in NonEmpty /\ u \notin Empty
          /\ None \in Empty /\ None \notin NonEmpty
          /\ Projections(q) = {Confirmed(u) : u \in (Answers(q) \ open) \cup {one}}
          /\ \E u \in Answers(q) : u # None
      BY <1>1, <2>3, AnswersAreLists
    <3>2. one \in open
      BY <3>1
    <3>3. v = None => Confirmed(v) \in Projections(q)
      BY <3>1
    <3>4. Confirmed(one) \in Projections(q)
      BY <3>1
    <3> HIDE DEF one
    <3>5. CASE v # None
      <4>1. /\ v \in NonEmpty /\ v \notin Empty /\ one \in NonEmpty /\ one \notin Empty
        BY <3>1, <3>2, <3>5
      <4>2. \A m \in Methods : q \in DOMAIN Rules[m] => (v \in Rules[m][q] <=> one \in Rules[m][q])
        BY <3>1, <4>1, RulesOfLists
      <4>3. Alike([F EXCEPT ![q] = Confirmed(v)], [F EXCEPT ![q] = Confirmed(one)])
        BY <1>1, <4>2, LikeAnswers
      <4>4. f = Confirmed(v)
        BY <1>4, <3>5
      <4> QED
        BY <2>1, <3>4, <4>3, <4>4 DEF f
    <3>6. CASE v = None /\ q # "repeated"
      <4>1. f = Confirmed(v)
        BY <1>4, <3>6
      <4> QED
        BY <2>1, <3>3, <3>6, <4>1, AlikeIsReflexive DEF f
    <3>7. CASE v = None /\ q = "repeated"
      <4> DEFINE A == [F EXCEPT ![q] = f]
                 B == [F EXCEPT ![q] = Confirmed(None)]
      <4>1. f = NotApplicable /\ Confirmed(None) \in Projections(q)
        BY <1>4, <3>3, <3>7
      <4>2. \A a \in Addresses \ {q} : A[a] = B[a]
        BY <1>7
      <4>3. A[q] = f /\ B[q] = Confirmed(None)
        BY <1>1, <1>7
      <4>4. A \in AllRequests /\ B \in AllRequests
        BY <1>8, <1>10, <2>1, <4>1
      <4> HIDE DEF A, B
      <4>5. ASSUME NEW m \in Methods
            PROVE  IF q \in DOMAIN Rules[m] THEN ExcludedBy(A, m) /\ ExcludedBy(B, m)
                   ELSE \A a \in DOMAIN Rules[m] : q \notin Depends[a]
        <5>1. CASE q \in DOMAIN Rules[m]
          <6>1. Rules[m][q] = NonEmpty
            BY <3>7, <5>1, RulesOfLists
          <6>2. NA \notin NonEmpty
            BY DEF NA, NonEmpty, VariableLists
          <6> QED
            BY <1>2, <1>3, <3>1, <4>1, <4>3, <5>1, <6>1, <6>2 DEF ExcludedBy
        <5>2. CASE q \notin DOMAIN Rules[m]
          <6>1. "order" \notin DOMAIN Rules[m]
            BY <3>7, <5>2, RulesOfLists
          <6> QED
            BY <3>7, <5>2, <6>1, DependsOfOrder, RulesReadAsked
        <5> QED
          BY <5>1, <5>2
      <4>6. Alike(A, B)
        BY <4>2, <4>4, <4>5, LikeBut
      <4> QED
        BY <2>1, <4>1, <4>6 DEF A, B, f
    <3> QED
      BY <3>5, <3>6, <3>7
  <2> QED
    BY <2>2, <2>3
<1> QED
  BY <1>11, <1>12

------------------------------------------------------------------------------
(* The planner's promise.                                                   *)

\* After an answer that invalidates nothing, the planner finds no more left than was promised.
DueIsKept ==
  LET e == log[Len(log)]
  IN  (log # <<>> /\ e.answer # Refused /\ ~(e.changed /\ Invalidates(e.question) # {}))
        => Search[budget][facts] <= e.due

\* A commit keeps the promise of the plan that its question came from.
LEMMA CommitKeepsPromise ==
  ASSUME PInv, NEW o \in offers, Commit(o)
  PROVE  DueIsKept'
<1> DEFINE q == o.question
           f == o.answer
           h == Search[budget - 1]
<1>1. /\ q \in Candidates(facts) /\ q \in Asked
      /\ MustClarify(facts) /\ Candidates(facts) # {}
      /\ q = Plan(facts, budget).question /\ f \in AnswersTo(q)
      /\ o.due = Plan(facts, budget).loss - QuestionCost(facts, q)
      /\ facts' = Revised(facts, q, f) /\ facts' \in AllRequests
      /\ budget \in 1..Budget /\ budget' = budget - 1
      /\ Len(log') = Len(log) + 1
      /\ log'[Len(log) + 1] = [question |-> q, answer |-> f,
                               changed |-> o.changed, due |-> o.due]
      /\ o.changed = Changes(facts, q, f)
  BY CommitIsPlanned DEF Commit
<1>2. log'[Len(log')].question = q /\ log'[Len(log')].answer = f
      /\ log'[Len(log')].changed = o.changed /\ log'[Len(log')].due = o.due
  BY <1>1
<1>3. facts \in AllRequests
  BY DEF PInv, Requested
<1>4. SUFFICES ASSUME f # Refused, ~(Changes(facts, q, f) /\ Invalidates(q) # {})
               PROVE  h[facts'] <= o.due
  BY <1>1, <1>2 DEF DueIsKept
<1>5. PICK v \in Answers(q) : f = AnswerFact(q, v)
  BY <1>1, <1>4 DEF AnswersTo
<1>6. facts["order"] = NotApplicable => facts["dependence"] = Confirmed(<<"independent">>)
  BY DEF PInv, OrderHangsOnDependence
<1>7. PICK p \in Projections(q) : Alike(Revised(facts, q, f), [facts EXCEPT ![q] = p])
  BY <1>1, <1>3, <1>4, <1>5, <1>6, AnswerIsProjected
<1>8. budget - 1 \in 0..Budget
  BY <1>1 DEF Budget
<1>9. h \in [AllRequests -> Nat] /\ Discreet(h)
  BY <1>8, SearchIsNumber, SearchIsDiscreet
<1>10. o.due = Worst(h, facts, q) - QuestionCost(facts, q)
  BY <1>1, <1>3, PlanIs
<1>11. [facts EXCEPT ![q] = p] \in AllRequests
  BY <1>1, <1>3, ProjectedRequest
<1> HIDE DEF h
<1>12. h[facts'] = h[[facts EXCEPT ![q] = p]]
  BY <1>1, <1>7, <1>9, <1>11 DEF Discreet
<1>13. h[[facts EXCEPT ![q] = p]] <= Worst(h, facts, q) - QuestionCost(facts, q)
  BY <1>1, <1>3, <1>9, WorstIs
<1> QED
  BY <1>10, <1>12, <1>13

LEMMA NextKeepsPromise == PInv /\ DueIsKept /\ [Next]_vars => DueIsKept'
<1> SUFFICES ASSUME PInv, DueIsKept, [Next]_vars PROVE DueIsKept'
  OBVIOUS
<1>1. CASE UNCHANGED <<log, facts, budget>>
  BY <1>1 DEF DueIsKept
<1>2. ASSUME NEW o \in offers, Commit(o) PROVE DueIsKept'
  BY <1>2, CommitKeepsPromise DEF Commit
<1> QED
  BY <1>1, <1>2 DEF Next, Resolve, Propose, RefuseStale, CommitReady, CommitAccepted, vars

\* Whatever the user answers that invalidates nothing, the next passport leaves no more to be
\* resolved than the plan promised at worst, less what the question cost (build_plan).
THEOREM PromisesAreKept == Spec => []PromiseKept
<1>1. Init => DueIsKept
  BY DEF Init, DueIsKept
<1>2. PInv /\ DueIsKept => PromiseKept
  <2> DEFINE e == log[Len(log)]
  <2> SUFFICES ASSUME PInv, DueIsKept, log # <<>>, passport.base = Len(log),
                      passport.reason \notin OutsideThePlan, e.answer # Refused,
                      ~(e.changed /\ Invalidates(e.question) # {})
               PROVE  passport.promise <= e.due
    BY DEF PromiseKept
  <2>1. passport # NoPassport
    <3>1. PICK S : log \in Seq(S)
      BY DEF PInv, IInv, Typed
    <3>2. \A seq \in Seq(S) : seq # <<>> => Len(seq) # 0
      BY EmptySeq
    <3>3. NoPassport.base = 0
      BY DEF NoPassport
    <3> QED
      BY <3>1, <3>2, <3>3
  <2>2. passport = PassportOf(facts, budget)
    BY <2>1 DEF PInv, PassportIsOfTheRequest
  <2>3. facts \in AllRequests /\ budget \in 0..Budget
    BY DEF PInv, Requested, Budgeted
  <2>4. passport.promise = Search[budget][facts]
    BY <2>2, <2>3, PromiseIs
  <2>5. Search[budget][facts] <= e.due
    BY DEF DueIsKept
  <2> QED
    BY <2>4, <2>5
<1> QED
  BY <1>1, <1>2, AlwaysPInv, NextKeepsPromise, PTL DEF Spec

------------------------------------------------------------------------------
(* The requests of the intake.                                              *)

ProfileFacts == {"goal", "causal", "template", "basis", "scale", "target", "contrast"}

\* The facts that a profile says something of.
LEMMA ProfileDomain ==
  ASSUME NEW g, NEW t, NEW b, NEW s, NEW more
  PROVE  DOMAIN Profile(g, t, b, s, more) = (DOMAIN more) \cup ProfileFacts
<1> DEFINE own == [goal |-> <<g>>, causal |-> <<"noncausal">>, template |-> <<t>>,
                   basis |-> <<b>>, scale |-> <<s>>]
           rest == [target |-> NotApplicable, contrast |-> NotApplicable]
           head == With(ConfirmedAll(more), ConfirmedAll(own))
<1>1. Profile(g, t, b, s, more) = With(head, rest)
  BY DEF Profile
<1>2. DOMAIN rest = {"target", "contrast"}
  OBVIOUS
<1>3. DOMAIN own = {"goal", "causal", "template", "basis", "scale"}
  OBVIOUS
<1> HIDE DEF own, rest
<1>4. DOMAIN ConfirmedAll(more) = DOMAIN more /\ DOMAIN ConfirmedAll(own) = DOMAIN own
  BY DEF ConfirmedAll
<1>5. DOMAIN head = (DOMAIN more) \cup DOMAIN own
  BY <1>4 DEF With
<1> HIDE DEF head
<1>6. DOMAIN With(head, rest) = (DOMAIN head) \cup DOMAIN rest
  BY WithIs
<1>7. DOMAIN Profile(g, t, b, s, more) = (DOMAIN head) \cup DOMAIN rest
  BY <1>1, <1>6
<1>8. (DOMAIN own) \cup DOMAIN rest = ProfileFacts
  BY <1>2, <1>3 DEF ProfileFacts
<1> QED
  BY <1>5, <1>7, <1>8

\* What a request of the intake says: what its profile says, and of the rest nothing.
IntakeCase(G, template, more) ==
  /\ \A a \in (DOMAIN more) \cap Addresses : G[a] = Confirmed(more[a])
  /\ \A a \in ProfileFacts : Current(G[a])
  /\ "template" \notin DOMAIN more => G["template"] = Confirmed(<<template>>)
  /\ \A a \in Addresses \ ((DOMAIN more) \cup ProfileFacts) : G[a] = Unknown

\* So does the intake build them.
LEMMA IntakeIs ==
  ASSUME NEW p, NEW g, NEW t, NEW b, NEW s, NEW more, Profiles[p] = Profile(g, t, b, s, more)
  PROVE  IntakeCase(Intake(p), t, more)
<1> DEFINE P == Profile(g, t, b, s, more)
           G == Intake(p)
<1>1. DOMAIN P = (DOMAIN more) \cup ProfileFacts
  BY ProfileDomain
<1>2. \A a \in Addresses : G[a] = IF a \in DOMAIN P THEN P[a] ELSE Unknown
  BY DEF Intake
<1>3. ProfileFacts \subseteq Addresses
  BY DEF ProfileFacts, Addresses, Asked, QuestionFacts, EstimandFacts, MethodFacts
<1>4. ASSUME NEW a \in DOMAIN P
      PROVE  IF a \in DOMAIN more THEN P[a] = Confirmed(more[a])
             ELSE \/ a = "goal" /\ P[a] = Confirmed(<<g>>)
                  \/ a = "causal" /\ P[a] = Confirmed(<<"noncausal">>)
                  \/ a = "template" /\ P[a] = Confirmed(<<t>>)
                  \/ a = "basis" /\ P[a] = Confirmed(<<b>>)
                  \/ a = "scale" /\ P[a] = Confirmed(<<s>>)
                  \/ a \in {"target", "contrast"} /\ P[a] = NotApplicable
  BY ProfileIs
<1> HIDE DEF P, G
<1>5. Current(NotApplicable) /\ \A v : Current(Confirmed(v))
  BY DEF Current, NotApplicable, Confirmed, Fact
<1>6. \A a \in DOMAIN P : Current(P[a])
  <2> SUFFICES ASSUME NEW a \in DOMAIN P PROVE Current(P[a])
    OBVIOUS
  <2>1. CASE a \in DOMAIN more
    BY <1>4, <1>5, <2>1
  <2>2. CASE a \notin DOMAIN more
    BY <1>4, <1>5, <2>2
  <2> QED
    BY <2>1, <2>2
<1>7. \A a \in (DOMAIN more) \cap Addresses : G[a] = Confirmed(more[a])
  BY <1>1, <1>2, <1>4
<1>8. \A a \in ProfileFacts : Current(G[a])
  BY <1>1, <1>2, <1>3, <1>6
<1>9. "template" \notin DOMAIN more => G["template"] = Confirmed(<<t>>)
  <2>1. "template" \in ProfileFacts
    BY DEF ProfileFacts
  <2> QED
    BY <1>1, <1>2, <1>3, <1>4, <2>1
<1>10. \A a \in Addresses \ ((DOMAIN more) \cup ProfileFacts) : G[a] = Unknown
  BY <1>1, <1>2
<1>11. IntakeCase(G, t, more)
  BY <1>7, <1>8, <1>9, <1>10 DEF IntakeCase
<1> QED
  BY <1>11 DEF G

\* What the proofs need of them.
StudyQuestions == {"dependence", "weight", "cluster"}

OwnMethod(G, p) ==
  /\ \A m \in Methods \ {p} : \E a \in (DOMAIN Rules[m]) \ StudyFacts :
       Current(G[a]) /\ G[a].value \notin Rules[m][a]
  /\ p \in Methods
  /\ \A a \in (DOMAIN Rules[p]) \ StudyQuestions : Current(G[a])
  /\ G["weight"] = Unknown /\ G["cluster"] = Unknown
  /\ IF p = "paired"
     THEN /\ G["order"] = Confirmed(<<"x", "y">>) /\ G["repeated"] = Confirmed(<<"x", "y">>)
          /\ G["outcome"] = Confirmed(<<"y">>) /\ G["dependence"] = Confirmed(<<"paired">>)
     ELSE G["order"] = Unknown

TemplateOf(m) ==
  CASE m = "summary" -> "summary" [] m = "frequency" -> "frequency_distribution"
    [] m = "welch" -> "group_contrast" [] m = "paired" -> "within_unit_change"
    [] OTHER -> "association"

\* A template that a method does not accept rules it out.
LEMMA TemplateExcludes ==
  ASSUME NEW G, NEW m \in Methods, NEW t, G["template"] = Confirmed(<<t>>), t # TemplateOf(m)
  PROVE  \E a \in (DOMAIN Rules[m]) \ StudyFacts :
           Current(G[a]) /\ G[a].value \notin Rules[m][a]
<1>1. "template" \in DOMAIN Rules[m] /\ Rules[m]["template"] = Singles({TemplateOf(m)})
  <2>1. ASSUME NEW r, NEW u, NEW c, NEW d, NEW roles, RuleCase(r, u, c, d, roles)
        PROVE  "template" \in DOMAIN r /\ r["template"] = Singles({u})
    BY <2>1 DEF RuleCase, CommonFacts
  <2>2. CASE m = "summary"
    BY <2>1, <2>2, RulesAre DEF TemplateOf
  <2>3. CASE m = "frequency"
    BY <2>1, <2>3, RulesAre DEF TemplateOf
  <2>4. CASE m = "pearson"
    BY <2>1, <2>4, RulesAre DEF TemplateOf
  <2>5. CASE m = "spearman"
    BY <2>1, <2>5, RulesAre DEF TemplateOf
  <2>6. CASE m = "welch"
    BY <2>1, <2>6, RulesAre DEF TemplateOf
  <2>7. CASE m = "paired"
    BY <2>1, <2>7, RulesAre DEF TemplateOf
  <2> QED
    BY <2>2, <2>3, <2>4, <2>5, <2>6, <2>7, RulesAre
<1>2. Current(G["template"]) /\ G["template"].value = <<t>>
  BY DEF Current, Confirmed, Fact
<1>3. <<t>> \notin Singles({TemplateOf(m)})
  BY DEF Singles
<1>4. "template" \notin StudyFacts
  BY DEF StudyFacts
<1> QED
  BY <1>1, <1>2, <1>3, <1>4

\* So does the target of the other association.
LEMMA TargetExcludes ==
  ASSUME NEW G, NEW m \in {"pearson", "spearman"}, NEW c, G["target"] = Confirmed(<<c>>),
         c # IF m = "pearson" THEN "product_moment" ELSE "rank_monotonic"
  PROVE  \E a \in (DOMAIN Rules[m]) \ StudyFacts :
           Current(G[a]) /\ G[a].value \notin Rules[m][a]
<1> DEFINE u == IF m = "pearson" THEN "product_moment" ELSE "rank_monotonic"
<1>1. "target" \in DOMAIN Rules[m] /\ Rules[m]["target"] = Singles({u})
  <2>1. ASSUME NEW r, NEW t, NEW v, NEW d, NEW roles, RuleCase(r, t, v, d, roles)
        PROVE  "target" \in DOMAIN r /\ r["target"] = Singles({v})
    BY <2>1 DEF RuleCase, CommonFacts
  <2>2. CASE m = "pearson"
    BY <2>1, <2>2, RulesAre
  <2>3. CASE m = "spearman"
    BY <2>1, <2>3, RulesAre
  <2> QED
    BY <2>2, <2>3
<1>2. Current(G["target"]) /\ G["target"].value = <<c>>
  BY DEF Current, Confirmed, Fact
<1>3. <<c>> \notin Singles({u})
  BY DEF Singles
<1>4. "target" \notin StudyFacts
  BY DEF StudyFacts
<1> QED
  BY <1>1, <1>2, <1>3, <1>4

\* A profile whose roles are those of its method.
LEMMA CaseIsOwn ==
  ASSUME NEW G, NEW p \in Methods, NEW more, IntakeCase(G, TemplateOf(p), more),
         NEW c, NEW d, NEW roles, RuleCase(Rules[p], TemplateOf(p), c, d, roles),
         roles \subseteq (DOMAIN more) \cup {"contrast"},
         DOMAIN more \subseteq Addresses, (DOMAIN more) \cap {"template", "weight", "cluster"} = {},
         p \in {"pearson", "spearman"} =>
           /\ "target" \in DOMAIN more
           /\ more["target"] = <<IF p = "pearson" THEN "product_moment" ELSE "rank_monotonic">>,
         IF p = "paired"
         THEN /\ {"order", "repeated", "outcome", "dependence"} \subseteq DOMAIN more
              /\ more["order"] = <<"x", "y">> /\ more["repeated"] = <<"x", "y">>
              /\ more["outcome"] = <<"y">> /\ more["dependence"] = <<"paired">>
         ELSE "order" \notin DOMAIN more
  PROVE  OwnMethod(G, p)
<1>1. /\ \A a \in DOMAIN more : G[a] = Confirmed(more[a])
      /\ \A a \in ProfileFacts : Current(G[a])
      /\ G["template"] = Confirmed(<<TemplateOf(p)>>)
      /\ \A a \in Addresses \ ((DOMAIN more) \cup ProfileFacts) : G[a] = Unknown
  BY DEF IntakeCase
<1>2. ASSUME NEW m \in Methods \ {p}
      PROVE  \E a \in (DOMAIN Rules[m]) \ StudyFacts :
               Current(G[a]) /\ G[a].value \notin Rules[m][a]
  <2>1. CASE TemplateOf(p) # TemplateOf(m)
    BY <1>1, <2>1, TemplateExcludes
  <2>2. CASE TemplateOf(p) = TemplateOf(m)
    <3>1. {p, m} = {"pearson", "spearman"}
      BY <2>2, RulesAre DEF TemplateOf
    <3> DEFINE u == IF p = "pearson" THEN "product_moment" ELSE "rank_monotonic"
               w == IF m = "pearson" THEN "product_moment" ELSE "rank_monotonic"
    <3>2. G["target"] = Confirmed(<<u>>)
      BY <1>1, <3>1
    <3>3. u # w /\ m \in {"pearson", "spearman"}
      BY <3>1
    <3> QED
      BY <3>2, <3>3, TargetExcludes
  <2> QED
    BY <2>1, <2>2
<1>3. \A v : Current(Confirmed(v))
  BY DEF Current, Confirmed, Fact
<1>4. \A a \in (DOMAIN Rules[p]) \ StudyQuestions : Current(G[a])
  <2>1. DOMAIN Rules[p] = CommonFacts \cup roles
    BY DEF RuleCase
  <2>2. CommonFacts \ StudyQuestions \subseteq ProfileFacts /\ "contrast" \in ProfileFacts
    BY DEF CommonFacts, StudyQuestions, ProfileFacts, LowSeverity
  <2> QED
    BY <1>1, <1>3, <2>1, <2>2
<1>5. \A a \in {"weight", "cluster", "order"} \ DOMAIN more : G[a] = Unknown
  <2>1. {"weight", "cluster", "order"} \subseteq Addresses \ ProfileFacts
    BY DEF Addresses, Asked, StudyFacts, ProfileFacts
  <2> QED
    BY <1>1, <2>1
<1>6. G["weight"] = Unknown /\ G["cluster"] = Unknown
  BY <1>5
<1>7. IF p = "paired"
      THEN /\ G["order"] = Confirmed(<<"x", "y">>) /\ G["repeated"] = Confirmed(<<"x", "y">>)
           /\ G["outcome"] = Confirmed(<<"y">>) /\ G["dependence"] = Confirmed(<<"paired">>)
      ELSE G["order"] = Unknown
  BY <1>1, <1>5
<1> QED
  BY <1>2, <1>4, <1>6, <1>7 DEF OwnMethod

\* Each profile is one of its own method.
LEMMA IntakesAre ==
  ASSUME NEW p \in DOMAIN Profiles
  PROVE  OwnMethod(Intake(p), p)
<1>1. p \in {"summary", "frequency", "welch", "paired", "pearson", "spearman"}
  BY DEF Profiles
<1>2. {"outcome", "predictor", "group", "repeated", "order", "contrast", "dependence", "layout",
       "timing", "target"} \subseteq Addresses
  BY DEF Addresses, Asked, EstimandFacts, MethodFacts, TargetRoles, StudyFacts, Context
<1>3. CASE p = "summary"
  <2> DEFINE more == [outcome |-> <<"x">>]
  <2>1. Profiles[p] = Profile("describe", "summary", "descriptive", "distribution", more)
    BY <1>3 DEF Profiles
  <2>2. TemplateOf(p) = "summary" /\ DOMAIN more = {"outcome"}
    BY <1>3 DEF TemplateOf
  <2> HIDE DEF more
  <2>3. IntakeCase(Intake(p), TemplateOf(p), more)
    BY <2>1, <2>2, IntakeIs
  <2>4. RuleCase(Rules[p], TemplateOf(p), "not_applicable", "independent", {"outcome"})
    BY <1>3, <2>2, RulesAre
  <2>5. p \in Methods
    BY <1>3, RulesAre
  <2>6. /\ {"outcome"} \subseteq (DOMAIN more) \cup {"contrast"}
        /\ DOMAIN more \subseteq Addresses
        /\ (DOMAIN more) \cap {"template", "weight", "cluster"} = {}
        /\ "order" \notin DOMAIN more
    BY <1>2, <2>2
  <2> QED
    BY <1>3, <2>3, <2>4, <2>5, <2>6, CaseIsOwn
<1>4. CASE p = "frequency"
  <2> DEFINE more == [outcome |-> <<"x">>]
  <2>1. Profiles[p] = Profile("describe", "frequency_distribution", "descriptive",
                              "distribution", more)
    BY <1>4 DEF Profiles
  <2>2. TemplateOf(p) = "frequency_distribution" /\ DOMAIN more = {"outcome"}
    BY <1>4 DEF TemplateOf
  <2> HIDE DEF more
  <2>3. IntakeCase(Intake(p), TemplateOf(p), more)
    BY <2>1, <2>2, IntakeIs
  <2>4. RuleCase(Rules[p], TemplateOf(p), "not_applicable", "independent", {"outcome"})
    BY <1>4, <2>2, RulesAre
  <2>5. p \in Methods
    BY <1>4, RulesAre
  <2>6. /\ {"outcome"} \subseteq (DOMAIN more) \cup {"contrast"}
        /\ DOMAIN more \subseteq Addresses
        /\ (DOMAIN more) \cap {"template", "weight", "cluster"} = {}
        /\ "order" \notin DOMAIN more
    BY <1>2, <2>2
  <2> QED
    BY <1>4, <2>3, <2>4, <2>5, <2>6, CaseIsOwn
<1>5. CASE p = "welch"
  <2> DEFINE more == [contrast |-> <<"pairwise">>, outcome |-> <<"x">>, group |-> <<"y">>,
                      dependence |-> <<"independent">>]
             roles == {"contrast", "outcome", "group"}
  <2>1. Profiles[p] = Profile("compare", "group_contrast", "associational", "difference", more)
    BY <1>5 DEF Profiles
  <2>2. TemplateOf(p) = "group_contrast"
        /\ DOMAIN more = {"contrast", "outcome", "group", "dependence"}
    BY <1>5 DEF TemplateOf
  <2> HIDE DEF more
  <2>3. IntakeCase(Intake(p), TemplateOf(p), more)
    BY <2>1, <2>2, IntakeIs
  <2>4. RuleCase(Rules[p], TemplateOf(p), "not_applicable", "independent", roles)
    BY <1>5, <2>2, RulesAre
  <2>5. p \in Methods
    BY <1>5, RulesAre
  <2>6. /\ roles \subseteq (DOMAIN more) \cup {"contrast"}
        /\ DOMAIN more \subseteq Addresses
        /\ (DOMAIN more) \cap {"template", "weight", "cluster"} = {}
        /\ "order" \notin DOMAIN more
    BY <1>2, <2>2
  <2> HIDE DEF roles
  <2> QED
    BY <1>5, <2>3, <2>4, <2>5, <2>6, CaseIsOwn
<1>6. CASE p = "paired"
  <2> DEFINE more == [contrast |-> <<"pairwise">>, outcome |-> <<"y">>,
                      repeated |-> <<"x", "y">>, order |-> <<"x", "y">>,
                      dependence |-> <<"paired">>, layout |-> <<"wide_repeated">>,
                      timing |-> <<"repeated_panel">>]
             roles == {"contrast", "outcome", "repeated", "order"}
  <2>1. Profiles[p] = Profile("compare", "within_unit_change", "associational", "difference",
                              more)
    BY <1>6 DEF Profiles
  <2>2. TemplateOf(p) = "within_unit_change"
        /\ DOMAIN more = {"contrast", "outcome", "repeated", "order", "dependence", "layout",
                          "timing"}
    BY <1>6 DEF TemplateOf
  <2>3. /\ more["order"] = <<"x", "y">> /\ more["repeated"] = <<"x", "y">>
        /\ more["outcome"] = <<"y">> /\ more["dependence"] = <<"paired">>
    OBVIOUS
  <2> HIDE DEF more
  <2>4. IntakeCase(Intake(p), TemplateOf(p), more)
    BY <2>1, <2>2, IntakeIs
  <2>5. RuleCase(Rules[p], TemplateOf(p), "not_applicable", "paired", roles)
    BY <1>6, <2>2, RulesAre
  <2>6. p \in Methods
    BY <1>6, RulesAre
  <2>7. /\ roles \subseteq (DOMAIN more) \cup {"contrast"}
        /\ DOMAIN more \subseteq Addresses
        /\ (DOMAIN more) \cap {"template", "weight", "cluster"} = {}
        /\ {"order", "repeated", "outcome", "dependence"} \subseteq DOMAIN more
    BY <1>2, <2>2
  <2> HIDE DEF roles
  <2> QED
    BY <1>6, <2>3, <2>4, <2>5, <2>6, <2>7, CaseIsOwn
<1>7. CASE p \in {"pearson", "spearman"}
  <2> DEFINE c == IF p = "pearson" THEN "product_moment" ELSE "rank_monotonic"
             more == [outcome |-> <<"x">>, predictor |-> <<"y">>, target |-> <<c>>]
             roles == {"outcome", "predictor"}
  <2>1. Profiles[p] = Profile("associate", "association", "associational", "correlation", more)
    BY <1>7 DEF Profiles
  <2>2. TemplateOf(p) = "association" /\ DOMAIN more = {"outcome", "predictor", "target"}
        /\ more["target"] = <<c>>
    BY <1>7 DEF TemplateOf
  <2> HIDE DEF more
  <2>3. IntakeCase(Intake(p), TemplateOf(p), more)
    BY <2>1, <2>2, IntakeIs
  <2>4. RuleCase(Rules[p], TemplateOf(p), c, "independent", roles)
    BY <1>7, <2>2, RulesAre
  <2>5. p \in Methods
    BY <1>7, RulesAre
  <2>6. /\ roles \subseteq (DOMAIN more) \cup {"contrast"}
        /\ DOMAIN more \subseteq Addresses
        /\ (DOMAIN more) \cap {"template", "weight", "cluster"} = {}
        /\ "order" \notin DOMAIN more /\ "target" \in DOMAIN more
    BY <1>2, <2>2
  <2> HIDE DEF roles
  <2> QED
    BY <1>7, <2>2, <2>3, <2>4, <2>5, <2>6, CaseIsOwn
<1> QED
  BY <1>1, <1>3, <1>4, <1>5, <1>6, <1>7

\* A request that has grown out of one of the intake by answers about the study.
Agrees(F, G, p) ==
  /\ \A a \in Addresses \ StudyFacts : F[a] = G[a]
  /\ IF p = "paired" THEN F["order"] = G["order"] /\ F["dependence"] = G["dependence"]
     ELSE F["order"].state # "confirmed"

\* The weights and the clusters are what the user said of them.
Weighed ==
  \A a \in LowSeverity :
    facts[a] = Unknown \/ \E i \in DOMAIN log : log[i].question = a /\ log[i].answer = facts[a]

\* As long as the user was sure, there is a question left for every fact that is open.
Open(F, a) == IF Current(F[a]) THEN 0 ELSE 1

Affordable ==
  (\A i \in DOMAIN log : log[i].answer # Refused)
    => Open(facts, "dependence") + Open(facts, "weight") + Open(facts, "cluster") <= budget

IntakeInv ==
  \A p \in DOMAIN Profiles : first = Intake(p) =>
    Agrees(facts, first, p) /\ Weighed /\ Affordable

\* Such a request is one that only its own method can fit, and only the study is open.
LEMMA AgreeingIsDecided ==
  ASSUME NEW F, NEW G, NEW p, OwnMethod(G, p), Agrees(F, G, p)
  PROVE  /\ Possible(F) \subseteq {p}
         /\ Candidates(F) \subseteq Blockers(F) /\ Blockers(F) \subseteq StudyQuestions
         /\ p = "paired" => "dependence" \notin Blockers(F)
         /\ ~Contradictory(F)
<1>1. \A m \in Methods : DOMAIN Rules[m] \subseteq Addresses
  BY RulesReadAsked, NamesAreAddresses
<1>2. \A m \in Methods : \A a \in (DOMAIN Rules[m]) \ StudyFacts : F[a] = G[a]
  BY <1>1 DEF Agrees
<1>3. \A m \in Methods \ {p} : ExcludedBy(F, m)
  BY <1>2 DEF OwnMethod, ExcludedBy
<1>4. Possible(F) \subseteq {p}
  BY <1>3 DEF Possible
<1>5. \A v : Current(Confirmed(v)) /\ Confirmed(v).value = v
  BY DEF Current, Confirmed, Fact
<1>6. p \in Methods
  BY DEF OwnMethod
<1>7. Unresolved(F, p) \subseteq StudyQuestions
  <2> SUFFICES ASSUME NEW a \in DOMAIN Rules[p], ~Current(F[a]) PROVE a \in StudyQuestions
    BY DEF Unresolved
  <2>1. CASE a \notin StudyFacts
    <3>1. F[a] = G[a]
      BY <1>2, <1>6, <2>1
    <3> QED
      BY <3>1 DEF OwnMethod
  <2>2. CASE a = "order"
    <3>1. p = "paired"
      BY <1>6, <2>2, RulesOfLists
    <3>2. F["order"] = Confirmed(<<"x", "y">>)
      BY <3>1 DEF Agrees, OwnMethod
    <3> QED
      BY <1>5, <2>2, <3>2
  <2> QED
    BY <2>1, <2>2 DEF StudyFacts, StudyQuestions
<1>8. Blockers(F) \subseteq Unresolved(F, p)
  BY <1>4 DEF Blockers
<1>9. p = "paired" => "dependence" \notin Blockers(F)
  <2> SUFFICES ASSUME p = "paired" PROVE Current(F["dependence"])
    BY <1>8 DEF Unresolved
  <2>1. F["dependence"] = Confirmed(<<"paired">>)
    BY DEF Agrees, OwnMethod
  <2> QED
    BY <1>5, <2>1
<1>10. ~Contradictory(F)
  <2>1. CASE p = "paired"
    <3>1. F["order"] = Confirmed(<<"x", "y">>)
      BY <2>1 DEF Agrees, OwnMethod
    <3>2. F["repeated"] = Confirmed(<<"x", "y">>) /\ F["outcome"] = Confirmed(<<"y">>)
      <4>1. "repeated" \in Addresses \ StudyFacts /\ "outcome" \in Addresses \ StudyFacts
        BY DEF Addresses, Asked, EstimandFacts, TargetRoles, StudyFacts
      <4>2. F["repeated"] = G["repeated"] /\ F["outcome"] = G["outcome"]
        BY <4>1 DEF Agrees
      <4> QED
        BY <2>1, <4>2 DEF OwnMethod
    <3>3. /\ F["order"].value = <<"x", "y">> /\ F["repeated"].value = <<"x", "y">>
          /\ F["outcome"].value = <<"y">>
      BY <1>5, <3>1, <3>2
    <3>4. F["order"].value[Len(F["order"].value)] = "y"
      BY <3>3
    <3> QED
      BY <3>3, <3>4 DEF Contradictory
  <2>2. CASE p # "paired"
    BY <2>2 DEF Agrees, Contradictory
  <2> QED
    BY <2>1, <2>2
<1>11. Candidates(F) \subseteq Blockers(F)
  BY DEF Candidates
<1> QED
  BY <1>4, <1>7, <1>8, <1>9, <1>10, <1>11

\* An answer about the study changes its own fact, and the order with the dependence.
LEMMA StudyAnswers ==
  ASSUME NEW F, NEW q \in StudyQuestions, NEW f
  PROVE  /\ \A a \in Addresses \ {q, "order"} : Revised(F, q, f)[a] = F[a]
         /\ Revised(F, q, f)[q] = f
         /\ Revised(F, q, f)["order"] = IF q = "dependence" THEN OrderAfter(F, f) ELSE F["order"]
         /\ Components(F, q, f) = {"study"}
<1>1. Invalidates(q) = {} /\ q \in Addresses /\ "order" \in Addresses /\ q # "order"
  BY DEF Invalidates, StudyQuestions, Addresses, Asked, StudyFacts
<1>2. Revised(F, q, f) = [a \in Addresses |->
         IF a = q THEN f ELSE IF a = "order" /\ q = "dependence" THEN OrderAfter(F, f) ELSE F[a]]
  BY <1>1 DEF Revised
<1>3. q \notin QuestionFacts /\ q \notin EstimandFacts
  BY DEF StudyQuestions, QuestionFacts, EstimandFacts, MethodFacts, TargetRoles
<1>4. Components(F, q, f) = {"study"}
  BY <1>3 DEF Components, Component
<1> QED
  BY <1>1, <1>2, <1>4

LEMMA InitIntake == Init => IntakeInv
<1> SUFFICES ASSUME Init, NEW p \in DOMAIN Profiles, first = Intake(p)
             PROVE  Agrees(facts, first, p) /\ Weighed /\ Affordable
  BY DEF IntakeInv
<1>1. facts = first /\ budget = 3 /\ OwnMethod(first, p)
  BY IntakesAre DEF Init, Budget
<1>2. Agrees(facts, first, p)
  <2>1. Unknown.state # "confirmed"
    BY DEF Unknown, Fact
  <2> QED
    BY <1>1, <2>1 DEF Agrees, OwnMethod
<1>3. Weighed
  <2>1. facts["weight"] = Unknown /\ facts["cluster"] = Unknown
    BY <1>1 DEF OwnMethod
  <2> QED
    BY <2>1 DEF Weighed, LowSeverity
<1>4. Affordable
  BY <1>1 DEF Affordable, Open
<1> QED
  BY <1>2, <1>3, <1>4

LEMMA CommitKeepsIntake ==
  ASSUME PInv, IntakeInv, NEW o \in offers, Commit(o)
  PROVE  IntakeInv'
<1> SUFFICES ASSUME NEW p \in DOMAIN Profiles, first' = Intake(p)
             PROVE  Agrees(facts', first', p) /\ Weighed' /\ Affordable'
  BY DEF IntakeInv, Agrees
<1> DEFINE q == o.question
           f == o.answer
<1>1. /\ q \in Candidates(facts) /\ f \in AnswersTo(q) /\ ~Current(facts[q])
      /\ facts' = Revised(facts, q, f) /\ first' = first
      /\ budget \in 1..Budget /\ budget' = budget - 1
      /\ Len(log') = Len(log) + 1 /\ Len(log) \in Nat
      /\ DOMAIN log' = 1..(Len(log) + 1) /\ DOMAIN log = 1..Len(log)
      /\ \A i \in 1..Len(log) : log'[i] = log[i]
      /\ log'[Len(log) + 1].question = q /\ log'[Len(log) + 1].answer = f
  BY CommitIsPlanned DEF Commit
<1>2. Agrees(facts, first, p) /\ Weighed /\ Affordable
  BY <1>1 DEF IntakeInv
<1>3. OwnMethod(first, p)
  BY <1>1, IntakesAre
<1>4. q \in StudyQuestions /\ (p = "paired" => q # "dependence")
  BY <1>1, <1>2, <1>3, AgreeingIsDecided
<1>5. /\ \A a \in Addresses \ {q, "order"} : facts'[a] = facts[a]
      /\ facts'[q] = f
      /\ facts'["order"] = IF q = "dependence" THEN OrderAfter(facts, f) ELSE facts["order"]
  BY <1>1, <1>4, StudyAnswers
<1>6. Agrees(facts', first', p)
  <2>1. StudyQuestions \subseteq StudyFacts /\ "order" \in StudyFacts
        /\ "dependence" \in Addresses
    BY DEF StudyQuestions, StudyFacts, Addresses, Asked
  <2>2. \A a \in Addresses \ StudyFacts : facts'[a] = first'[a]
    BY <1>1, <1>2, <1>4, <1>5, <2>1 DEF Agrees
  <2>3. CASE p = "paired"
    BY <1>1, <1>2, <1>4, <1>5, <2>1, <2>2, <2>3 DEF Agrees
  <2>4. CASE p # "paired"
    <3>1. OrderAfter(facts, f).state # "confirmed"
      <4>1. facts["order"].state # "confirmed"
        BY <1>2, <2>4 DEF Agrees
      <4>2. NotApplicable.state # "confirmed" /\ Unknown.state # "confirmed"
        BY DEF NotApplicable, Unknown, Fact
      <4> QED
        BY <4>1, <4>2 DEF OrderAfter
    <3>2. facts["order"].state # "confirmed"
      BY <1>2, <2>4 DEF Agrees
    <3> QED
      BY <1>5, <2>2, <2>4, <3>1, <3>2 DEF Agrees
  <2> QED
    BY <2>3, <2>4
<1>7. Weighed'
  <2> SUFFICES ASSUME NEW a \in LowSeverity
               PROVE  \/ facts'[a] = Unknown
                      \/ \E i \in DOMAIN log' : log'[i].question = a /\ log'[i].answer = facts'[a]
    BY DEF Weighed
  <2>1. CASE a = q
    BY <1>1, <1>5, <2>1
  <2>2. CASE a # q
    <3>1. facts'[a] = facts[a]
      BY <1>5, <2>2 DEF LowSeverity, Addresses, Asked, StudyFacts
    <3>2. facts[a] = Unknown
          \/ \E i \in DOMAIN log : log[i].question = a /\ log[i].answer = facts[a]
      BY <1>2 DEF Weighed
    <3> QED
      BY <1>1, <3>1, <3>2
  <2> QED
    BY <2>1, <2>2
<1>8. Affordable'
  <2> SUFFICES ASSUME \A i \in DOMAIN log' : log'[i].answer # Refused
               PROVE  Open(facts', "dependence") + Open(facts', "weight")
                        + Open(facts', "cluster") <= budget'
    BY DEF Affordable, Open
  <2>1. f # Refused /\ \A i \in DOMAIN log : log[i].answer # Refused
    BY <1>1
  <2>2. Open(facts, "dependence") + Open(facts, "weight") + Open(facts, "cluster") <= budget
    BY <1>2, <2>1 DEF Affordable
  <2>3. Current(f)
    <3>1. PICK v \in Answers(q) : f = AnswerFact(q, v)
      BY <1>1, <2>1 DEF AnswersTo
    <3>2. f = Confirmed(v)
      BY <1>4, <3>1 DEF AnswerFact, StudyQuestions
    <3> QED
      BY <3>2 DEF Current, Confirmed, Fact
  <2>4. Open(facts, q) = 1 /\ Open(facts', q) = 0
    BY <1>1, <1>5, <2>3 DEF Open
  <2>5. \A a \in StudyQuestions \ {q} : Open(facts', a) = Open(facts, a)
    <3>1. StudyQuestions \subseteq Addresses \ {"order"}
      BY DEF StudyQuestions, Addresses, Asked, StudyFacts
    <3> QED
      BY <1>5, <3>1 DEF Open
  <2>6. \A F, a : Open(F, a) \in {0, 1}
    BY DEF Open
  <2>7. CASE q = "dependence"
    BY <1>1, <2>2, <2>4, <2>5, <2>6, <2>7 DEF StudyQuestions, Budget
  <2>8. CASE q = "weight"
    BY <1>1, <2>2, <2>4, <2>5, <2>6, <2>8 DEF StudyQuestions, Budget
  <2>9. CASE q = "cluster"
    BY <1>1, <2>2, <2>4, <2>5, <2>6, <2>9 DEF StudyQuestions, Budget
  <2> QED
    BY <1>4, <2>7, <2>8, <2>9 DEF StudyQuestions
<1> QED
  BY <1>6, <1>7, <1>8

LEMMA NextKeepsIntake == PInv /\ IntakeInv /\ [Next]_vars => IntakeInv'
<1> SUFFICES ASSUME PInv, IntakeInv, [Next]_vars PROVE IntakeInv'
  OBVIOUS
<1>1. CASE UNCHANGED <<first, facts, budget, log>>
  BY <1>1 DEF IntakeInv, Agrees, Weighed, Affordable, Open
<1>2. ASSUME NEW o \in offers, Commit(o) PROVE IntakeInv'
  BY <1>2, CommitKeepsIntake DEF Commit
<1> QED
  BY <1>1, <1>2 DEF Next, Resolve, Propose, RefuseStale, CommitReady, CommitAccepted, vars

------------------------------------------------------------------------------
(* What the user of the intake sees.                                        *)

\* Why a passport abstains.
LEMMA ReasonsAre ==
  ASSUME NEW F, NEW left
  PROVE  LET r == PassportOf(F, left).reason
         IN  /\ r = "integrity" => Contradictory(F)
             /\ r = "clarification_budget_exhausted" => Blockers(F) # {} /\ left = 0
  BY DEF PassportOf, Pass, Abstain

\* The parts of IntakeIsDecided.
Decided(p) ==
  /\ passport.action = "recommend_local" =>
       /\ passport.methods = {p}
       /\ \A a \in LowSeverity :
            \E i \in DOMAIN log : log[i].question = a /\ log[i].answer = Confirmed(None)
  /\ passport.reason = "clarification_budget_exhausted" =>
       \E i \in DOMAIN log : log[i].answer = Refused
  /\ passport.reason # "integrity"
  /\ \A o \in offers : o.components = {"study"}

\* A passport for a request of the intake is as promised.
LEMMA ResolveDecides ==
  ASSUME PInv, IntakeInv, IntakeIsDecided, Resolve
  PROVE  IntakeIsDecided'
<1> SUFFICES ASSUME NEW p \in DOMAIN Profiles, first' = Intake(p)
             PROVE  Decided(p)'
  BY DEF IntakeIsDecided, Decided
<1>1. passport' = PassportOf(facts, budget) /\ UNCHANGED <<first, facts, budget, log, offers>>
  BY DEF Resolve
<1>2. Agrees(facts, first, p) /\ Weighed /\ Affordable /\ OwnMethod(first, p)
  BY <1>1, IntakesAre DEF IntakeInv
<1>3. /\ Possible(facts) \subseteq {p} /\ Blockers(facts) \subseteq StudyQuestions
      /\ ~Contradictory(facts)
  BY <1>2, AgreeingIsDecided
<1>4. facts \in AllRequests /\ budget \in 0..Budget
      /\ \A i \in DOMAIN log : log[i].answer \in AnswersTo(log[i].question)
  BY DEF PInv, Requested, Budgeted
<1>5. ASSUME passport'.action = "recommend_local"
      PROVE  /\ passport'.methods = {p}
             /\ \A a \in LowSeverity :
                  \E i \in DOMAIN log : log[i].question = a /\ log[i].answer = Confirmed(None)
  <2>1. PassportCase(facts, budget, passport')
    BY <1>1, <1>4, PassportCases
  <2>2. passport'.methods = Stable(facts) /\ Stable(facts) # {}
    BY <1>5, <2>1 DEF PassportCase
  <2>3. Stable(facts) = {p}
    BY <1>3, <2>2 DEF Stable
  <2>4. p \in Methods /\ ~ExcludedBy(facts, p) /\ Unresolved(facts, p) = {}
    BY <2>3 DEF Stable, Possible
  <2>5. ASSUME NEW a \in LowSeverity
        PROVE  \E i \in DOMAIN log : log[i].question = a /\ log[i].answer = Confirmed(None)
    <3>1. a \in DOMAIN Rules[p] /\ Rules[p][a] = Empty
      BY <2>4, LowRules
    <3>2. Current(facts[a]) /\ facts[a].value \in Empty
      BY <2>4, <3>1 DEF ExcludedBy, Unresolved
    <3>3. ~Current(Unknown) /\ ~Current(Refused)
      BY DEF Current, Unknown, Refused, Fact
    <3>4. PICK i \in DOMAIN log : log[i].question = a /\ log[i].answer = facts[a]
      BY <1>2, <3>2, <3>3 DEF Weighed
    <3>5. PICK v \in Answers(a) : facts[a] = Confirmed(v)
      <4>1. facts[a] \in AnswersTo(a)
        BY <1>4, <3>4
      <4>2. a # "repeated"
        BY DEF LowSeverity
      <4> QED
        BY <3>2, <3>3, <4>1, <4>2 DEF AnswersTo, AnswerFact
    <3>6. v \in Empty
      BY <3>2, <3>5 DEF Confirmed, Fact
    <3>7. a \in Asked \ DOMAIN ChoiceQuestions
      BY DEF LowSeverity, Asked, StudyFacts, ChoiceQuestions
    <3>8. v = None
      BY <3>6, <3>7, AnswersAreLists
    <3> QED
      BY <3>4, <3>5, <3>8
  <2> QED
    BY <2>2, <2>3, <2>5
<1>6. ASSUME passport'.reason = "clarification_budget_exhausted"
      PROVE  \E i \in DOMAIN log : log[i].answer = Refused
  <2>1. Blockers(facts) # {} /\ budget = 0
    BY <1>1, <1>6, ReasonsAre
  <2>2. PICK a \in StudyQuestions : ~Current(facts[a])
    BY <1>3, <2>1 DEF Blockers, Unresolved
  <2>3. Open(facts, a) = 1 /\ \A b : Open(facts, b) \in {0, 1}
    BY <2>2 DEF Open
  <2>4. Open(facts, "dependence") + Open(facts, "weight") + Open(facts, "cluster") > 0
    BY <2>2, <2>3 DEF StudyQuestions
  <2>5. ~(Open(facts, "dependence") + Open(facts, "weight") + Open(facts, "cluster") <= budget)
    BY <2>1, <2>3, <2>4
  <2> QED
    BY <1>2, <2>5 DEF Affordable
<1>7. passport'.reason # "integrity"
  BY <1>1, <1>3, ReasonsAre
<1>8. \A o \in offers : o.components = {"study"}
  BY <1>1 DEF IntakeIsDecided
<1> QED
  BY <1>1, <1>5, <1>6, <1>7, <1>8 DEF Decided

LEMMA NextDecides ==
  ASSUME PInv, IntakeInv, IntakeIsDecided, [Next]_vars
  PROVE  IntakeIsDecided'
<1>1. CASE Resolve
  BY <1>1, ResolveDecides
<1>2. ASSUME first' = first, passport' = passport,
             DOMAIN log \subseteq DOMAIN log', \A i \in DOMAIN log : log'[i] = log[i],
             \A p \in DOMAIN Profiles : first = Intake(p) =>
               \A o \in offers' \ offers : o.components = {"study"}
      PROVE  IntakeIsDecided'
  <2> SUFFICES ASSUME NEW p \in DOMAIN Profiles, first' = Intake(p)
               PROVE  Decided(p)'
    BY DEF IntakeIsDecided, Decided
  <2>1. Decided(p)
    BY <1>2 DEF IntakeIsDecided, Decided
  <2>2. passport.action = "recommend_local" =>
          /\ passport.methods = {p}
          /\ \A a \in LowSeverity :
               \E i \in DOMAIN log' : log'[i].question = a /\ log'[i].answer = Confirmed(None)
    BY <1>2, <2>1 DEF Decided
  <2>3. passport.reason = "clarification_budget_exhausted" =>
          \E i \in DOMAIN log' : log'[i].answer = Refused
    BY <1>2, <2>1 DEF Decided
  <2>4. passport.reason # "integrity" /\ \A o \in offers' : o.components = {"study"}
    BY <1>2, <2>1 DEF Decided
  <2> QED
    BY <1>2, <2>2, <2>3, <2>4 DEF Decided
<1>3. CASE Propose
  <2> DEFINE q == passport.question
  <2>1. /\ UNCHANGED <<first, facts, budget, log, passport>>
        /\ passport.action = "clarify" /\ passport.base = Len(log)
    BY <1>3 DEF Propose
  <2>2. PICK f : offers' = offers \cup
                  {[base |-> Len(log), question |-> q, answer |-> f,
                    changed |-> Changes(facts, q, f), facts |-> Revised(facts, q, f),
                    components |-> Components(facts, q, f),
                    due |-> passport.promise - QuestionCost(facts, q)]}
    BY <1>3 DEF Propose
  <2>3. ASSUME NEW p \in DOMAIN Profiles, first = Intake(p), NEW o \in offers' \ offers
        PROVE  o.components = {"study"}
    <3>1. q \in Candidates(facts)
      BY <2>1, AskedIsCandidate
    <3>2. Agrees(facts, first, p) /\ OwnMethod(first, p)
      BY <2>3, IntakesAre DEF IntakeInv
    <3>3. q \in StudyQuestions
      BY <3>1, <3>2, AgreeingIsDecided
    <3>4. o.components = Components(facts, q, f)
      BY <2>2, <2>3
    <3> HIDE DEF q
    <3>5. Components(facts, q, f) = {"study"}
      BY <3>3, StudyAnswers
    <3> QED
      BY <3>4, <3>5
  <2> QED
    BY <1>2, <2>1, <2>2, <2>3
<1>4. ASSUME NEW o \in offers, Commit(o) PROVE IntakeIsDecided'
  <2>1. /\ first' = first /\ passport' = passport /\ offers' \subseteq offers
        /\ DOMAIN log' = 1..(Len(log) + 1) /\ DOMAIN log = 1..Len(log) /\ Len(log) \in Nat
        /\ \A i \in 1..Len(log) : log'[i] = log[i]
    BY <1>4, CommitIsPlanned DEF Commit
  <2>2. DOMAIN log \subseteq DOMAIN log' /\ \A i \in DOMAIN log : log'[i] = log[i]
    BY <2>1
  <2> QED
    BY <1>2, <2>1, <2>2
<1>5. CASE RefuseStale \/ UNCHANGED vars
  <2>1. offers' \subseteq offers /\ UNCHANGED <<first, log, passport>>
    BY <1>5 DEF RefuseStale, vars
  <2>2. DOMAIN log \subseteq DOMAIN log' /\ \A i \in DOMAIN log : log'[i] = log[i]
    BY <2>1
  <2> QED
    BY <1>2, <2>1, <2>2
<1> QED
  BY <1>1, <1>3, <1>4, <1>5 DEF Next, CommitReady, CommitAccepted

\* Whatever is opened and however many candidates wait: a request of the intake gets its
\* profile's own method, or the user was not sure (build_p1_request, resolve_and_plan).
THEOREM IntakesAreDecided == Spec => []IntakeIsDecided
<1>1. Init => IntakeIsDecided
  <2> SUFFICES ASSUME Init PROVE IntakeIsDecided
    OBVIOUS
  <2>1. passport = NoPassport /\ offers = {}
    BY DEF Init
  <2>2. passport.action = "none" /\ passport.reason = ""
    BY <2>1 DEF NoPassport
  <2> QED
    BY <2>1, <2>2 DEF IntakeIsDecided
<1>2. PInv /\ IntakeInv /\ IntakeIsDecided /\ [Next]_vars => IntakeIsDecided'
  BY NextDecides
<1> QED
  BY <1>1, <1>2, AlwaysPInv, InitIntake, NextKeepsIntake, PTL DEF Spec

------------------------------------------------------------------------------
(* The handoff: the roles of a request and the variables in them.           *)

\* Two variables in one list.
LEMMA PairOf ==
  ASSUME NEW x, NEW y
  PROVE  <<x>> \o <<y>> = <<x, y>>
<1>1. <<x>> \in Seq({x, y}) /\ y \in {x, y}
  OBVIOUS
<1>2. Append(<<x>>, y) = <<x>> \o <<y>>
  BY <1>1, AppendIsConcat
<1>3. Append(<<x>>, y) = <<x, y>>
  <2>1. Append(<<x>>, y) = [i \in 1..2 |-> IF i = 1 THEN x ELSE y]
    BY <1>1
  <2>2. <<x, y>> = [i \in 1..2 |-> IF i = 1 THEN x ELSE y]
    OBVIOUS
  <2> QED
    BY <2>1, <2>2
<1> QED
  BY <1>2, <1>3

LEMMA NothingAdded ==
  ASSUME NEW x, NEW y
  PROVE  /\ <<x>> \o <<>> = <<x>> /\ <<>> \o <<x>> = <<x>>
         /\ <<x, y>> \o <<>> = <<x, y>> /\ <<>> \o <<>> = <<>>
<1>1. <<x>> \in Seq({x, y}) /\ <<x, y>> \in Seq({x, y}) /\ <<>> \in Seq({x, y})
  OBVIOUS
<1> QED
  BY <1>1, ConcatEmptySeq

\* The outcome and the role beside it, if there is one, in the order of the intake.
LEMMA RolesInOrder ==
  ASSUME NEW bound, "outcome" \in bound
  PROVE  /\ bound = {"outcome"} => InOrder(IntakeOrder, bound) = <<"outcome">>
         /\ \A r \in {"group", "repeated", "predictor"} :
              bound = {"outcome", r} => InOrder(IntakeOrder, bound) = <<"outcome", r>>
<1> DEFINE Of(r) == IF r \in bound THEN <<r>> ELSE <<>>
<1>1. InOrder(IntakeOrder, bound)
        = ((Of("outcome") \o Of("group")) \o Of("repeated")) \o Of("predictor")
  BY DEF InOrder, IntakeOrder
<1>2. \A r : Of(r) = IF r \in bound THEN <<r>> ELSE <<>>
  OBVIOUS
<1> HIDE DEF Of
<1>3. Of("outcome") = <<"outcome">>
  BY <1>2
<1>4. ASSUME NEW r
      PROVE  /\ <<"outcome">> \o <<>> = <<"outcome">>
             /\ <<"outcome", r>> \o <<>> = <<"outcome", r>>
             /\ <<"outcome">> \o <<r>> = <<"outcome", r>>
  <2>1. <<"outcome">> \o <<>> = <<"outcome">> /\ <<"outcome", r>> \o <<>> = <<"outcome", r>>
    BY NothingAdded
  <2>2. <<"outcome">> \o <<r>> = <<"outcome", r>>
    BY PairOf
  <2> QED
    BY <2>1, <2>2
<1>5. CASE bound = {"outcome"}
  <2>1. Of("group") = <<>> /\ Of("repeated") = <<>> /\ Of("predictor") = <<>>
    BY <1>2, <1>5
  <2>2. InOrder(IntakeOrder, bound) = <<"outcome">>
    BY <1>1, <1>3, <1>4, <2>1
  <2> QED
    BY <1>5, <2>2
<1>6. CASE bound = {"outcome", "group"}
  <2>1. Of("group") = <<"group">> /\ Of("repeated") = <<>> /\ Of("predictor") = <<>>
    BY <1>2, <1>6
  <2>2. InOrder(IntakeOrder, bound) = <<"outcome", "group">>
    BY <1>1, <1>3, <1>4, <2>1
  <2> QED
    BY <1>6, <2>2
<1>7. CASE bound = {"outcome", "repeated"}
  <2>1. Of("group") = <<>> /\ Of("repeated") = <<"repeated">> /\ Of("predictor") = <<>>
    BY <1>2, <1>7
  <2>2. InOrder(IntakeOrder, bound) = <<"outcome", "repeated">>
    BY <1>1, <1>3, <1>4, <2>1
  <2> QED
    BY <1>7, <2>2
<1>8. CASE bound = {"outcome", "predictor"}
  <2>1. Of("group") = <<>> /\ Of("repeated") = <<>> /\ Of("predictor") = <<"predictor">>
    BY <1>2, <1>8
  <2>2. InOrder(IntakeOrder, bound) = <<"outcome", "predictor">>
    BY <1>1, <1>3, <1>4, <2>1
  <2> QED
    BY <1>8, <2>2
<1> QED
  BY <1>5, <1>6, <1>7, <1>8

\* A list of one variable or of two different ones repeats nothing.
LEMMA Injective ==
  ASSUME NEW x, NEW y, x # y
  PROVE  IsInjective(<<x>>) /\ IsInjective(<<x, y>>)
BY DEF IsInjective

\* What the intake confirms of the question and the estimand.
IntakeSays(G, goal, template, basis, scale, more) ==
  /\ G["goal"] = Confirmed(<<goal>>) /\ G["causal"] = Confirmed(<<"noncausal">>)
  /\ G["template"] = Confirmed(<<template>>) /\ G["basis"] = Confirmed(<<basis>>)
  /\ G["scale"] = Confirmed(<<scale>>)
  /\ \A a \in {"target", "contrast"} :
       G[a] = IF a \in DOMAIN more THEN Confirmed(more[a]) ELSE NotApplicable
  /\ \A a \in (DOMAIN more) \cap Addresses : G[a] = Confirmed(more[a])
  /\ \A a \in Addresses \ ((DOMAIN more) \cup ProfileFacts) : G[a] = Unknown

LEMMA IntakeSaysAll ==
  ASSUME NEW p, NEW g, NEW t, NEW b, NEW s, NEW more, Profiles[p] = Profile(g, t, b, s, more),
         (DOMAIN more) \cap {"goal", "causal", "template", "basis", "scale"} = {}
  PROVE  IntakeSays(Intake(p), g, t, b, s, more)
<1> DEFINE P == Profile(g, t, b, s, more)
           G == Intake(p)
<1>1. DOMAIN P = (DOMAIN more) \cup ProfileFacts
  BY ProfileDomain
<1>2. \A a \in Addresses : G[a] = IF a \in DOMAIN P THEN P[a] ELSE Unknown
  BY DEF Intake
<1>3. {"goal", "causal", "template", "basis", "scale", "target", "contrast"} \subseteq Addresses
  BY DEF Addresses, Asked, QuestionFacts, EstimandFacts, MethodFacts
<1>4. ASSUME NEW a \in DOMAIN P
      PROVE  IF a \in DOMAIN more THEN P[a] = Confirmed(more[a])
             ELSE \/ a = "goal" /\ P[a] = Confirmed(<<g>>)
                  \/ a = "causal" /\ P[a] = Confirmed(<<"noncausal">>)
                  \/ a = "template" /\ P[a] = Confirmed(<<t>>)
                  \/ a = "basis" /\ P[a] = Confirmed(<<b>>)
                  \/ a = "scale" /\ P[a] = Confirmed(<<s>>)
                  \/ a \in {"target", "contrast"} /\ P[a] = NotApplicable
  BY ProfileIs
<1>5. IntakeCase(G, t, more)
  BY IntakeIs
<1> HIDE DEF P, G
<1>6. {"goal", "causal", "template", "basis", "scale", "target", "contrast"} \subseteq DOMAIN P
  BY <1>1 DEF ProfileFacts
<1>7. /\ P["goal"] = Confirmed(<<g>>) /\ P["causal"] = Confirmed(<<"noncausal">>)
      /\ P["template"] = Confirmed(<<t>>) /\ P["basis"] = Confirmed(<<b>>)
      /\ P["scale"] = Confirmed(<<s>>)
  BY <1>4, <1>6
<1>8. \A a \in {"target", "contrast"} :
        P[a] = IF a \in DOMAIN more THEN Confirmed(more[a]) ELSE NotApplicable
  BY <1>4, <1>6
<1>9. \A a \in {"goal", "causal", "template", "basis", "scale", "target", "contrast"} : G[a] = P[a]
  BY <1>2, <1>3, <1>6
<1>10. IntakeSays(G, g, t, b, s, more)
  BY <1>5, <1>7, <1>8, <1>9 DEF IntakeSays, IntakeCase
<1> QED
  BY <1>10 DEF G

\* The rows of the table.
LEMMA RowIs ==
  ASSUME NEW step, NEW roles, NEW goal, NEW template, NEW basis, NEW scale, NEW target,
         NEW contrast, NEW dependence
  PROVE  LET r == Row(step, roles, goal, template, basis, scale, target, contrast, dependence)
         IN  /\ r.roles = roles
             /\ DOMAIN r.facts = ProfileFacts \cup StudyQuestions
             /\ r.facts["goal"] = Confirmed(<<goal>>)
             /\ r.facts["causal"] = Confirmed(<<"noncausal">>)
             /\ r.facts["template"] = Confirmed(<<template>>)
             /\ r.facts["basis"] = Confirmed(<<basis>>)
             /\ r.facts["scale"] = Confirmed(<<scale>>)
             /\ r.facts["target"] = target /\ r.facts["contrast"] = contrast
             /\ r.facts["dependence"] = Confirmed(<<dependence>>)
             /\ r.facts["weight"] = Confirmed(None) /\ r.facts["cluster"] = Confirmed(None)
<1> DEFINE fs == [goal |-> Confirmed(<<goal>>), causal |-> Confirmed(<<"noncausal">>),
                  template |-> Confirmed(<<template>>), basis |-> Confirmed(<<basis>>),
                  scale |-> Confirmed(<<scale>>), target |-> target, contrast |-> contrast,
                  dependence |-> Confirmed(<<dependence>>),
                  weight |-> Confirmed(None), cluster |-> Confirmed(None)]
           r == Row(step, roles, goal, template, basis, scale, target, contrast, dependence)
<1>1. r.facts = fs /\ r.roles = roles
  BY DEF Row
<1>2. DOMAIN fs = ProfileFacts \cup StudyQuestions
  BY DEF ProfileFacts, StudyQuestions
<1>3. /\ fs["goal"] = Confirmed(<<goal>>) /\ fs["causal"] = Confirmed(<<"noncausal">>)
      /\ fs["template"] = Confirmed(<<template>>) /\ fs["basis"] = Confirmed(<<basis>>)
      /\ fs["scale"] = Confirmed(<<scale>>) /\ fs["target"] = target
      /\ fs["contrast"] = contrast /\ fs["dependence"] = Confirmed(<<dependence>>)
      /\ fs["weight"] = Confirmed(None) /\ fs["cluster"] = Confirmed(None)
  OBVIOUS
<1> HIDE DEF fs, r
<1>4. /\ r.roles = roles /\ r.facts = fs
  BY <1>1
<1> QED
  BY <1>2, <1>3, <1>4 DEF r

\* The role beside the outcome.
Beside(p) ==
  CASE p = "welch" -> "group" [] p = "paired" -> "repeated"
    [] p \in {"pearson", "spearman"} -> "predictor" [] OTHER -> "none"

\* The roles of a profile, the variables of its outcome and those of the other role.
DependenceOf(p) == IF p = "paired" THEN "paired" ELSE "independent"
RolesOf(p)   == IF Beside(p) = "none" THEN <<"outcome">> ELSE <<"outcome", Beside(p)>>
OutcomeOf(p) == IF p = "paired" THEN <<"y">> ELSE <<"x">>
OtherOf(p)   == IF p = "paired" THEN <<"x", "y">> ELSE <<"y">>

\* A request of the profile, as it comes from the intake, fits the profile's row: but for what
\* is left open about the study.
FitsRow(G, p) ==
  /\ \A a \in ProfileFacts : G[a] = Rows[p].facts[a]
  /\ DOMAIN Rows[p].facts = ProfileFacts \cup StudyQuestions
  /\ Rows[p].facts["weight"] = Confirmed(None) /\ Rows[p].facts["cluster"] = Confirmed(None)
  /\ Rows[p].facts["dependence"] = Confirmed(<<DependenceOf(p)>>)
  /\ Rows[p].roles = RolesOf(p)
  /\ G["outcome"] = Confirmed(OutcomeOf(p))
  /\ \A r \in {"group", "repeated", "predictor"} :
       G[r] = IF r # Beside(p) THEN Unknown ELSE Confirmed(OtherOf(p))
  /\ G["weight"] = Unknown /\ G["cluster"] = Unknown
  /\ \A a \in {"dependence", "order"} : G[a] = Unknown \/ \E v : G[a] = Confirmed(v)

LEMMA SaysFitsRow ==
  ASSUME NEW G, NEW p, NEW step, NEW roles, NEW goal, NEW template, NEW basis, NEW scale,
         NEW target, NEW contrast, NEW dependence, NEW more,
         IntakeSays(G, goal, template, basis, scale, more),
         Rows[p] = Row(step, roles, goal, template, basis, scale, target, contrast, dependence),
         target = IF "target" \in DOMAIN more THEN Confirmed(more["target"]) ELSE NotApplicable,
         contrast = IF "contrast" \in DOMAIN more THEN Confirmed(more["contrast"])
                    ELSE NotApplicable,
         dependence = DependenceOf(p),
         roles = RolesOf(p),
         "outcome" \in DOMAIN more,
         more["outcome"] = OutcomeOf(p),
         \A r \in {"group", "repeated", "predictor"} : r \in DOMAIN more <=> r = Beside(p),
         Beside(p) # "none" => more[Beside(p)] = OtherOf(p),
         "weight" \notin DOMAIN more, "cluster" \notin DOMAIN more
  PROVE  FitsRow(G, p)
<1> DEFINE r == Rows[p]
<1>1. /\ r.roles = roles
      /\ DOMAIN r.facts = ProfileFacts \cup StudyQuestions
      /\ r.facts["goal"] = Confirmed(<<goal>>)
      /\ r.facts["causal"] = Confirmed(<<"noncausal">>)
      /\ r.facts["template"] = Confirmed(<<template>>)
      /\ r.facts["basis"] = Confirmed(<<basis>>)
      /\ r.facts["scale"] = Confirmed(<<scale>>)
      /\ r.facts["target"] = target /\ r.facts["contrast"] = contrast
      /\ r.facts["dependence"] = Confirmed(<<dependence>>)
      /\ r.facts["weight"] = Confirmed(None) /\ r.facts["cluster"] = Confirmed(None)
  BY RowIs
<1> HIDE DEF r
<1>2. \A a \in ProfileFacts : G[a] = r.facts[a]
  <2>1. G["target"] = target /\ G["contrast"] = contrast
    BY DEF IntakeSays
  <2>2. /\ G["goal"] = r.facts["goal"] /\ G["causal"] = r.facts["causal"]
        /\ G["template"] = r.facts["template"] /\ G["basis"] = r.facts["basis"]
        /\ G["scale"] = r.facts["scale"]
    BY <1>1 DEF IntakeSays
  <2> QED
    BY <1>1, <2>1, <2>2 DEF ProfileFacts
<1>3. {"outcome", "group", "repeated", "predictor", "weight", "cluster"}
        \subseteq Addresses \ ProfileFacts
  BY DEF Addresses, Asked, EstimandFacts, TargetRoles, StudyFacts, ProfileFacts
<1>4. /\ \A a \in (DOMAIN more) \cap Addresses : G[a] = Confirmed(more[a])
      /\ \A a \in Addresses \ ((DOMAIN more) \cup ProfileFacts) : G[a] = Unknown
  BY DEF IntakeSays
<1>5. /\ G["outcome"] = Confirmed(OutcomeOf(p))
      /\ G["weight"] = Unknown /\ G["cluster"] = Unknown
  BY <1>3, <1>4
<1>6. ASSUME NEW a \in {"group", "repeated", "predictor"}
      PROVE  G[a] = IF a # Beside(p) THEN Unknown ELSE Confirmed(OtherOf(p))
  <2>1. CASE a = Beside(p)
    <3>1. a \in (DOMAIN more) \cap Addresses /\ Beside(p) # "none"
      BY <1>3, <2>1
    <3>2. G[a] = Confirmed(more[a])
      BY <1>4, <3>1
    <3> QED
      BY <2>1, <3>1, <3>2
  <2>2. CASE a # Beside(p)
    <3>1. a \in Addresses \ ((DOMAIN more) \cup ProfileFacts)
      BY <1>3, <2>2
    <3> QED
      BY <1>4, <2>2, <3>1
  <2> QED
    BY <2>1, <2>2
<1>7. /\ \A a \in ProfileFacts : G[a] = Rows[p].facts[a]
      /\ DOMAIN Rows[p].facts = ProfileFacts \cup StudyQuestions
      /\ Rows[p].facts["weight"] = Confirmed(None) /\ Rows[p].facts["cluster"] = Confirmed(None)
      /\ Rows[p].facts["dependence"] = Confirmed(<<dependence>>)
      /\ Rows[p].roles = roles
  BY <1>1, <1>2 DEF r
<1>8. \A a \in {"dependence", "order"} : G[a] = Unknown \/ \E v : G[a] = Confirmed(v)
  <2>1. {"dependence", "order"} \subseteq Addresses \ ProfileFacts
    BY DEF Addresses, Asked, StudyFacts, ProfileFacts
  <2> QED
    BY <1>4, <2>1
<1> QED
  BY <1>5, <1>6, <1>7, <1>8 DEF FitsRow

LEMMA IntakesFitRows ==
  ASSUME NEW p \in DOMAIN Profiles
  PROVE  FitsRow(Intake(p), p)
<1>1. p \in {"summary", "frequency", "welch", "paired", "pearson", "spearman"}
  BY DEF Profiles
<1>2. CASE p \in {"summary", "frequency"}
  <2> DEFINE more == [outcome |-> <<"x">>]
             t == IF p = "summary" THEN "summary" ELSE "frequency_distribution"
             step == IF p = "summary" THEN "descriptives_table1" ELSE "frequency_crosstab"
  <2>1. Profiles[p] = Profile("describe", t, "descriptive", "distribution", more)
    BY <1>2 DEF Profiles
  <2>2. Rows[p] = Row(step, <<"outcome">>, "describe", t, "descriptive", "distribution",
                      NotApplicable, NotApplicable, "independent")
    BY <1>2 DEF Rows, Described
  <2>3. DOMAIN more = {"outcome"} /\ more["outcome"] = <<"x">> /\ Beside(p) = "none"
        /\ RolesOf(p) = <<"outcome">> /\ OutcomeOf(p) = <<"x">> /\ DependenceOf(p) = "independent"
    BY <1>2 DEF Beside, RolesOf, OutcomeOf, DependenceOf
  <2> HIDE DEF more, t, step
  <2>4. IntakeSays(Intake(p), "describe", t, "descriptive", "distribution", more)
    BY <2>1, <2>3, IntakeSaysAll
  <2> QED
    BY <1>2, <2>2, <2>3, <2>4, SaysFitsRow
<1>3. CASE p = "welch"
  <2> DEFINE more == [contrast |-> <<"pairwise">>, outcome |-> <<"x">>, group |-> <<"y">>,
                      dependence |-> <<"independent">>]
  <2>1. Profiles[p] = Profile("compare", "group_contrast", "associational", "difference", more)
    BY <1>3 DEF Profiles
  <2>2. Rows[p] = Row("compare_groups", <<"outcome", "group">>, "compare", "group_contrast",
                      "associational", "difference", NotApplicable,
                      Confirmed(<<"pairwise">>), "independent")
    BY <1>3 DEF Rows, Compared
  <2>3. /\ DOMAIN more = {"contrast", "outcome", "group", "dependence"}
        /\ more["outcome"] = <<"x">> /\ more["group"] = <<"y">>
        /\ more["contrast"] = <<"pairwise">> /\ Beside(p) = "group"
        /\ RolesOf(p) = <<"outcome", "group">> /\ OutcomeOf(p) = <<"x">>
        /\ OtherOf(p) = <<"y">> /\ DependenceOf(p) = "independent"
    BY <1>3 DEF Beside, RolesOf, OutcomeOf, OtherOf, DependenceOf
  <2> HIDE DEF more
  <2>4. IntakeSays(Intake(p), "compare", "group_contrast", "associational", "difference", more)
    BY <2>1, <2>3, IntakeSaysAll
  <2> QED
    BY <1>3, <2>2, <2>3, <2>4, SaysFitsRow
<1>4. CASE p = "paired"
  <2> DEFINE more == [contrast |-> <<"pairwise">>, outcome |-> <<"y">>,
                      repeated |-> <<"x", "y">>, order |-> <<"x", "y">>,
                      dependence |-> <<"paired">>, layout |-> <<"wide_repeated">>,
                      timing |-> <<"repeated_panel">>]
  <2>1. Profiles[p] = Profile("compare", "within_unit_change", "associational", "difference",
                              more)
    BY <1>4 DEF Profiles
  <2>2. Rows[p] = Row("paired_comparison", <<"outcome", "repeated">>, "compare",
                      "within_unit_change", "associational", "difference", NotApplicable,
                      Confirmed(<<"pairwise">>), "paired")
    BY <1>4 DEF Rows, Compared
  <2>3. /\ DOMAIN more = {"contrast", "outcome", "repeated", "order", "dependence", "layout",
                          "timing"}
        /\ more["outcome"] = <<"y">> /\ more["repeated"] = <<"x", "y">>
        /\ more["contrast"] = <<"pairwise">> /\ Beside(p) = "repeated"
        /\ RolesOf(p) = <<"outcome", "repeated">> /\ OutcomeOf(p) = <<"y">>
        /\ OtherOf(p) = <<"x", "y">> /\ DependenceOf(p) = "paired"
    BY <1>4 DEF Beside, RolesOf, OutcomeOf, OtherOf, DependenceOf
  <2> HIDE DEF more
  <2>4. IntakeSays(Intake(p), "compare", "within_unit_change", "associational", "difference",
                   more)
    BY <2>1, <2>3, IntakeSaysAll
  <2> QED
    BY <1>4, <2>2, <2>3, <2>4, SaysFitsRow
<1>5. CASE p \in {"pearson", "spearman"}
  <2> DEFINE c == IF p = "pearson" THEN "product_moment" ELSE "rank_monotonic"
             more == [outcome |-> <<"x">>, predictor |-> <<"y">>, target |-> <<c>>]
  <2>1. Profiles[p] = Profile("associate", "association", "associational", "correlation", more)
    BY <1>5 DEF Profiles
  <2>2. Rows[p] = Row("correlation", <<"outcome", "predictor">>, "associate", "association",
                      "associational", "correlation", Confirmed(<<c>>), NotApplicable,
                      "independent")
    BY <1>5 DEF Rows, Associated
  <2>3. /\ DOMAIN more = {"outcome", "predictor", "target"}
        /\ more["outcome"] = <<"x">> /\ more["predictor"] = <<"y">>
        /\ more["target"] = <<c>> /\ Beside(p) = "predictor"
        /\ RolesOf(p) = <<"outcome", "predictor">> /\ OutcomeOf(p) = <<"x">>
        /\ OtherOf(p) = <<"y">> /\ DependenceOf(p) = "independent"
    BY <1>5 DEF Beside, RolesOf, OutcomeOf, OtherOf, DependenceOf
  <2> HIDE DEF more, c
  <2>4. IntakeSays(Intake(p), "associate", "association", "associational", "correlation", more)
    BY <2>1, <2>3, IntakeSaysAll
  <2> QED
    BY <1>5, <2>2, <2>3, <2>4, SaysFitsRow
<1> QED
  BY <1>1, <1>2, <1>3, <1>4, <1>5

------------------------------------------------------------------------------
(* The handoff: how a request of the intake grows.                          *)

\* Two requests that say the same but for the study.
OffStudy(F, G) == \A a \in Addresses \ StudyFacts : F[a] = G[a]

\* Such a request fits no other method, and only the study is open.
LEMMA OnlyOwnFits ==
  ASSUME NEW F, NEW G, NEW p, OwnMethod(G, p), OffStudy(F, G)
  PROVE  Possible(F) \subseteq {p} /\ Blockers(F) \subseteq StudyFacts
<1>1. \A m \in Methods : \A a \in (DOMAIN Rules[m]) \ StudyFacts : F[a] = G[a]
  BY RulesReadAsked, NamesAreAddresses DEF OffStudy
<1>2. \A m \in Methods \ {p} : ExcludedBy(F, m)
  BY <1>1 DEF OwnMethod, ExcludedBy
<1>3. Possible(F) \subseteq {p}
  BY <1>2 DEF Possible
<1>4. Unresolved(F, p) \subseteq StudyFacts
  <2>1. StudyQuestions \subseteq StudyFacts
    BY DEF StudyQuestions, StudyFacts
  <2> QED
    BY <1>1, <2>1 DEF Unresolved, OwnMethod
<1>5. Blockers(F) \subseteq Unresolved(F, p)
  BY <1>3 DEF Blockers
<1> QED
  BY <1>3, <1>4, <1>5

\* What the answers have made of the request: they were about the study, and a fact of it is as
\* the request came or as it was answered; the order may have followed the dependence.
Grown ==
  /\ OffStudy(facts, first)
  /\ \A a \in StudyFacts \ {"order"} : facts[a] = first[a] \/ facts[a] \in AnswersTo(a)
  /\ \/ facts["order"] \in {first["order"], Unknown, NotApplicable}
     \/ facts["order"] \in AnswersTo("order")
  /\ \A i \in DOMAIN log : log[i].question \in StudyFacts

GrownInv ==
  /\ first \in Requests
  /\ \A p \in DOMAIN Profiles : OffStudy(first, Intake(p)) => Grown

LEMMA InitGrown == Init => GrownInv
<1> SUFFICES ASSUME Init PROVE GrownInv
  OBVIOUS
<1>1. first \in Requests /\ facts = first /\ log = <<>>
  BY DEF Init
<1>2. DOMAIN log = {}
  BY <1>1
<1> QED
  BY <1>1, <1>2 DEF GrownInv, Grown, OffStudy

LEMMA CommitKeepsGrown ==
  ASSUME PInv, GrownInv, NEW o \in offers, Commit(o)
  PROVE  GrownInv'
<1> DEFINE q == o.question
           f == o.answer
<1>1. /\ q \in Candidates(facts) /\ f \in AnswersTo(q)
      /\ facts' = Revised(facts, q, f) /\ first' = first
      /\ DOMAIN log' = 1..(Len(log) + 1) /\ DOMAIN log = 1..Len(log) /\ Len(log) \in Nat
      /\ \A i \in 1..Len(log) : log'[i] = log[i]
      /\ log'[Len(log) + 1].question = q
  BY CommitIsPlanned DEF Commit
<1> HIDE DEF q, f
<1> SUFFICES ASSUME NEW p \in DOMAIN Profiles, OffStudy(first, Intake(p))
             PROVE  Grown'
  BY <1>1 DEF GrownInv, OffStudy
<1>2. Grown
  BY DEF GrownInv
<1>3. OffStudy(facts, Intake(p)) /\ OwnMethod(Intake(p), p)
  BY <1>2, IntakesAre DEF Grown, OffStudy
<1>4. q \in StudyFacts
  <2>1. Blockers(facts) \subseteq StudyFacts
    BY <1>3, OnlyOwnFits
  <2> QED
    BY <1>1, <2>1 DEF Candidates
<1>5. Invalidates(q) = {} /\ StudyFacts \subseteq Addresses /\ "order" \in StudyFacts
  BY <1>4 DEF Invalidates, StudyFacts, Addresses, Asked
<1>6. facts' = [a \in Addresses |->
         IF a = q THEN f ELSE IF a = "order" /\ q = "dependence" THEN OrderAfter(facts, f)
         ELSE facts[a]]
  BY <1>1, <1>5 DEF Revised
<1>7. OffStudy(facts, first)'
  BY <1>1, <1>2, <1>4, <1>5, <1>6 DEF Grown, OffStudy
<1>8. ASSUME NEW a \in StudyFacts \ {"order"}
      PROVE  facts'[a] = first'[a] \/ facts'[a] \in AnswersTo(a)
  <2>1. facts'[a] = IF a = q THEN f ELSE facts[a]
    BY <1>5, <1>6
  <2>2. facts[a] = first[a] \/ facts[a] \in AnswersTo(a)
    BY <1>2 DEF Grown
  <2> QED
    BY <1>1, <2>1, <2>2
<1>9. \/ facts'["order"] \in {first'["order"], Unknown, NotApplicable}
      \/ facts'["order"] \in AnswersTo("order")
  <2>1. \/ facts["order"] \in {first["order"], Unknown, NotApplicable}
        \/ facts["order"] \in AnswersTo("order")
    BY <1>2 DEF Grown
  <2>2. OrderAfter(facts, f) \in {NotApplicable, Unknown, facts["order"]}
    BY DEF OrderAfter
  <2>3. facts'["order"] = IF q = "order" THEN f
                          ELSE IF q = "dependence" THEN OrderAfter(facts, f) ELSE facts["order"]
    BY <1>5, <1>6
  <2> QED
    BY <1>1, <2>1, <2>2, <2>3
<1>10. \A i \in DOMAIN log' : log'[i].question \in StudyFacts
  BY <1>1, <1>2, <1>4 DEF Grown
<1> QED
  BY <1>7, <1>8, <1>9, <1>10 DEF Grown

LEMMA NextKeepsGrown == PInv /\ GrownInv /\ [Next]_vars => GrownInv'
<1> SUFFICES ASSUME PInv, GrownInv, [Next]_vars PROVE GrownInv'
  OBVIOUS
<1>1. CASE UNCHANGED <<first, facts, log>>
  BY <1>1 DEF GrownInv, Grown, OffStudy
<1>2. ASSUME NEW o \in offers, Commit(o) PROVE GrownInv'
  BY <1>2, CommitKeepsGrown DEF Commit
<1> QED
  BY <1>1, <1>2 DEF Next, Resolve, Propose, RefuseStale, CommitReady, CommitAccepted, vars

\* What a request may say of the study before it is asked.
LEMMA StudyAtFirst ==
  ASSUME first \in Requests
  PROVE  /\ first["weight"] = Unknown /\ first["cluster"] = Unknown
         /\ \A a \in {"dependence", "order"} : first[a] = Unknown \/ \E v : first[a] = Confirmed(v)
<1>1. {"weight", "cluster", "dependence", "order"} \subseteq Addresses \ {"causal"}
  BY DEF Addresses, Asked, StudyFacts
<1>2. CASE first = CausalRequest
  BY <1>1, <1>2 DEF CausalRequest
<1>3. CASE first # CausalRequest
  <2>1. PICK p \in DOMAIN Profiles, open \in Opened : first = OpenedRequest(p, open)
    BY <1>3 DEF Requests
  <2>2. \A a \in Addresses : first[a] \in {Unknown, Intake(p)[a]}
    BY <2>1 DEF OpenedRequest
  <2>3. FitsRow(Intake(p), p)
    BY IntakesFitRows
  <2> QED
    BY <1>1, <2>2, <2>3 DEF FitsRow
<1> QED
  BY <1>2, <1>3

------------------------------------------------------------------------------
(* The handoff: what is recommended is prepared.                            *)

\* Nothing is recommended on roles that contradict the order of a pair.
LEMMA RecommendedIsSound ==
  ASSUME NEW F, NEW left, PassportOf(F, left).action = "recommend_local"
  PROVE  ~Contradictory(F)
BY DEF PassportOf, Abstain, Pass

\* A fact is its state and its value.
LEMMA FactParts ==
  ASSUME NEW v
  PROVE  /\ Current(Confirmed(v)) /\ Confirmed(v).state = "confirmed" /\ Confirmed(v).value = v
         /\ Confirmed(v) # Unknown
         /\ ~Current(Unknown) /\ ~Current(Refused) /\ NotApplicable.value = NA
         /\ Unknown.value = None
  BY DEF Current, Confirmed, Unknown, Refused, NotApplicable, Fact

\* When the profile's method is stable, the user has said of the study what the row asks for.
LEMMA StudyIsSettled ==
  ASSUME PInv, GrownInv, NEW p \in DOMAIN Profiles, OffStudy(first, Intake(p)),
         p \in Stable(facts), ~Contradictory(facts)
  PROVE  /\ facts["dependence"] = Confirmed(<<DependenceOf(p)>>)
         /\ facts["weight"] = Confirmed(None) /\ facts["cluster"] = Confirmed(None)
         /\ p = "paired" => facts["order"] = Confirmed(<<"x", "y">>)
<1>1. Grown /\ first \in Requests /\ FitsRow(Intake(p), p)
  BY IntakesFitRows DEF GrownInv
<1>2. p \in Methods /\ ~ExcludedBy(facts, p) /\ Unresolved(facts, p) = {}
  BY DEF Stable, Possible
<1>3. \A a \in DOMAIN Rules[p] : Current(facts[a]) /\ facts[a].value \in Rules[p][a]
  BY <1>2 DEF ExcludedBy, Unresolved
<1>4. \A a \in StudyFacts \ {"order"} : facts[a] = first[a] \/ facts[a] \in AnswersTo(a)
  BY <1>1 DEF Grown
<1>5. \A a \in StudyFacts : \A f \in AnswersTo(a) :
        f = Refused \/ \E v \in Answers(a) : f = Confirmed(v)
  BY DEF AnswersTo, AnswerFact, StudyFacts
<1>6. \A v : /\ Current(Confirmed(v)) /\ Confirmed(v).state = "confirmed"
             /\ Confirmed(v).value = v
  BY FactParts
<1>7. ~Current(Unknown) /\ ~Current(Refused) /\ NotApplicable.value = NA
  BY FactParts
<1>8. /\ first["weight"] = Unknown /\ first["cluster"] = Unknown
      /\ \A a \in {"dependence", "order"} : first[a] = Unknown \/ \E v : first[a] = Confirmed(v)
  BY <1>1, StudyAtFirst
<1>9. facts["dependence"] = Confirmed(<<DependenceOf(p)>>)
  <2>1. "dependence" \in DOMAIN Rules[p] /\ Rules[p]["dependence"] = Singles({DependenceOf(p)})
    <3>1. ASSUME NEW r, NEW t, NEW c, NEW d, NEW roles, RuleCase(r, t, c, d, roles)
          PROVE  "dependence" \in DOMAIN r /\ r["dependence"] = Singles({d})
      BY <3>1 DEF RuleCase, CommonFacts
    <3>2. CASE p = "summary"
      BY <3>1, <3>2, RulesAre DEF DependenceOf
    <3>3. CASE p = "frequency"
      BY <3>1, <3>3, RulesAre DEF DependenceOf
    <3>4. CASE p = "pearson"
      BY <3>1, <3>4, RulesAre DEF DependenceOf
    <3>5. CASE p = "spearman"
      BY <3>1, <3>5, RulesAre DEF DependenceOf
    <3>6. CASE p = "welch"
      BY <3>1, <3>6, RulesAre DEF DependenceOf
    <3>7. CASE p = "paired"
      BY <3>1, <3>7, RulesAre DEF DependenceOf
    <3> QED
      BY <1>2, <3>2, <3>3, <3>4, <3>5, <3>6, <3>7, RulesAre
  <2>2. Current(facts["dependence"]) /\ facts["dependence"].value = <<DependenceOf(p)>>
    BY <1>3, <2>1 DEF Singles
  <2>3. "dependence" \in StudyFacts \ {"order"}
    BY DEF StudyFacts
  <2>4. PICK v : facts["dependence"] = Confirmed(v)
    BY <1>4, <1>5, <1>7, <1>8, <2>2, <2>3
  <2> QED
    BY <1>6, <2>2, <2>4
<1>10. ASSUME NEW a \in LowSeverity PROVE facts[a] = Confirmed(None)
  <2>1. Current(facts[a]) /\ facts[a].value \in Empty
    BY <1>2, <1>3, LowRules
  <2>2. a \in StudyFacts \ {"order"} /\ first[a] = Unknown
    BY <1>8 DEF LowSeverity, StudyFacts
  <2>3. PICK v \in Answers(a) : facts[a] = Confirmed(v)
    BY <1>4, <1>5, <1>7, <2>1, <2>2
  <2>4. v \in Empty
    BY <1>6, <2>1, <2>3
  <2>5. a \in Asked \ DOMAIN ChoiceQuestions
    BY DEF LowSeverity, Asked, StudyFacts, ChoiceQuestions
  <2>6. v = None
    BY <2>4, <2>5, AnswersAreLists
  <2> QED
    BY <2>3, <2>6
<1>11. ASSUME p = "paired" PROVE facts["order"] = Confirmed(<<"x", "y">>)
  <2>1. "order" \in DOMAIN Rules[p] /\ Rules[p]["order"] = NonEmpty
    BY <1>11, RulesAre DEF RuleCase
  <2>2. Current(facts["order"]) /\ facts["order"].value \in NonEmpty
    BY <1>3, <2>1
  <2>3. NA \notin NonEmpty
    <3>1. /\ <<"x">> # NA /\ <<"y">> # NA /\ <<"x", "y">> # NA /\ <<"y", "x">> # NA
      BY DEF NA
    <3> QED
      BY <3>1 DEF NonEmpty, VariableLists
  <2>4. "order" \in StudyFacts
    BY DEF StudyFacts
  <2>5. \/ facts["order"] \in {first["order"], Unknown, NotApplicable}
        \/ facts["order"] \in AnswersTo("order")
    BY <1>1 DEF Grown
  <2>6. PICK v : facts["order"] = Confirmed(v)
    BY <1>5, <1>7, <1>8, <2>2, <2>3, <2>4, <2>5
  <2>7. facts["repeated"] = Confirmed(<<"x", "y">>)
    <3>1. "repeated" \in Addresses \ StudyFacts
      BY DEF Addresses, Asked, EstimandFacts, TargetRoles, StudyFacts
    <3>2. facts["repeated"] = Intake(p)["repeated"]
      BY <1>1, <3>1 DEF Grown, OffStudy
    <3>3. Intake(p)["repeated"] = Confirmed(<<"x", "y">>)
      BY <1>1, <1>11 DEF FitsRow, Beside, OtherOf
    <3> QED
      BY <3>2, <3>3
  <2>8. v = <<"x", "y">>
    BY <1>6, <2>6, <2>7 DEF Contradictory
  <2> QED
    BY <2>6, <2>8
<1> QED
  BY <1>9, <1>10, <1>11 DEF LowSeverity

\* The roles of the request are the row's, in the row's order.
LEMMA RolesAreTheRows ==
  ASSUME GrownInv, NEW p \in DOMAIN Profiles, OffStudy(first, Intake(p))
  PROVE  BoundRoles = RolesOf(p)
<1>1. Grown /\ FitsRow(Intake(p), p)
  BY IntakesFitRows DEF GrownInv
<1>2. TargetRoles \subseteq Addresses \ StudyFacts
  BY DEF Addresses, Asked, EstimandFacts, TargetRoles, StudyFacts
<1>3. {r \in TargetRoles : \E i \in DOMAIN log : log[i].question = r} = {}
  BY <1>1, <1>2 DEF Grown
<1> DEFINE bound == {r \in TargetRoles : first[r] # Unknown}
<1>4. {} \cup bound = bound
  OBVIOUS
<1>5. BoundRoles = InOrder(IntakeOrder, bound)
  BY <1>3, <1>4, Zenon DEF BoundRoles
<1>6. \A v : Confirmed(v) # Unknown
  BY FactParts
<1>7. \A r \in TargetRoles : first[r] = Intake(p)[r]
  BY <1>2 DEF OffStudy
<1>8. "outcome" \in bound
  BY <1>1, <1>6, <1>7 DEF FitsRow, TargetRoles
<1>9. \A r \in {"group", "repeated", "predictor"} : r \in bound <=> r = Beside(p)
  BY <1>1, <1>6, <1>7 DEF FitsRow, TargetRoles
<1>10. Beside(p) \in {"group", "repeated", "predictor", "none"}
  BY DEF Beside
<1>11. bound \subseteq {"outcome", "group", "repeated", "predictor"}
  BY DEF TargetRoles
<1> HIDE DEF bound
<1>12. CASE Beside(p) = "none"
  <2>1. bound = {"outcome"}
    BY <1>8, <1>9, <1>11, <1>12
  <2>2. InOrder(IntakeOrder, bound) = <<"outcome">>
    BY <1>8, <2>1, RolesInOrder
  <2> QED
    BY <1>5, <1>12, <2>2 DEF RolesOf
<1>13. CASE Beside(p) # "none"
  <2>1. bound = {"outcome", Beside(p)} /\ Beside(p) \in {"group", "repeated", "predictor"}
    BY <1>8, <1>9, <1>10, <1>11, <1>13
  <2>2. InOrder(IntakeOrder, bound) = <<"outcome", Beside(p)>>
    BY <1>8, <2>1, RolesInOrder
  <2> QED
    BY <1>5, <1>13, <2>2 DEF RolesOf
<1> QED
  BY <1>12, <1>13

\* The step for a profile has the variables that the user chose for its roles.
ParamsOf(p) ==
  IF Beside(p) = "none" THEN OutcomeOf(p)
  ELSE IF p = "paired" THEN OtherOf(p) ELSE OutcomeOf(p) \o OtherOf(p)

LEMMA ParamsAre ==
  ASSUME NEW p \in DOMAIN Profiles, NEW F, \A r \in TargetRoles : F[r] = Intake(p)[r]
  PROVE  /\ Params(F, p) = ParamsOf(p) /\ Closed(p, ParamsOf(p))
         /\ (p = "paired" => F["order"] = Confirmed(<<"x", "y">>)) => Fits(F, p)
         /\ ParamsOf(p) = IF p = "paired" THEN F["repeated"].value
                          ELSE F["outcome"].value \o F["group"].value \o F["predictor"].value
<1>1. p \in {"summary", "frequency", "welch", "paired", "pearson", "spearman"}
  BY DEF Profiles
<1>2. FitsRow(Intake(p), p)
  BY IntakesFitRows
<1>3. /\ F["outcome"] = Confirmed(OutcomeOf(p))
      /\ \A r \in {"group", "repeated", "predictor"} :
           F[r] = IF r # Beside(p) THEN Unknown ELSE Confirmed(OtherOf(p))
      /\ Rows[p].roles = RolesOf(p)
  BY <1>2 DEF FitsRow, TargetRoles
<1>4. \A v : Confirmed(v).value = v
  BY FactParts
<1>5. Unknown.value = <<>>
  BY FactParts DEF None
<1>6. /\ <<"x">> # <<>> /\ <<"x", "y">> # <<>> /\ Len(<<"x">>) = 1 /\ Len(<<"y">>) = 1
      /\ Len(<<"x", "y">>) = 2 /\ <<"x">> # <<"y">>
      /\ <<"y">>[1] = "y" /\ <<"x", "y">>[2] = "y"
  OBVIOUS
<1>7. IsInjective(<<"x">>) /\ IsInjective(<<"x", "y">>)
  <2>1. "x" # "y"
    OBVIOUS
  <2> QED
    BY <2>1, Injective
<1>8. /\ <<"x">> \o <<>> = <<"x">> /\ <<"x">> \o <<"y">> = <<"x", "y">>
      /\ <<"x", "y">> \o <<>> = <<"x", "y">>
  BY NothingAdded, PairOf
<1>9. CASE p \in {"summary", "frequency"}
  <2>1. Beside(p) = "none" /\ OutcomeOf(p) = <<"x">> /\ p # "paired"
    BY <1>9 DEF Beside, OutcomeOf
  <2>2. /\ F["outcome"].value = <<"x">> /\ F["group"].value = <<>>
        /\ F["predictor"].value = <<>>
    BY <1>3, <1>4, <1>5, <2>1
  <2>3. ParamsOf(p) = <<"x">> /\ Params(F, p) = <<"x">>
    BY <1>9, <2>1, <2>2 DEF ParamsOf, Params
  <2>4. Closed(p, <<"x">>)
    BY <1>6, <1>7, <1>9 DEF Closed
  <2>5. Fits(F, p)
    BY <1>9 DEF Fits
  <2> QED
    BY <1>8, <2>1, <2>2, <2>3, <2>4, <2>5
<1>10. CASE p \in {"welch", "pearson", "spearman"}
  <2> DEFINE other == IF p = "welch" THEN "group" ELSE "predictor"
  <2>1. /\ Beside(p) = other /\ OutcomeOf(p) = <<"x">> /\ OtherOf(p) = <<"y">>
        /\ p # "paired" /\ other \in {"group", "predictor"} /\ other # "none"
    BY <1>10 DEF Beside, OutcomeOf, OtherOf
  <2>2. Rows[p].roles[2] = other
    BY <1>3, <2>1 DEF RolesOf
  <2> HIDE DEF other
  <2>3. /\ F["outcome"].value = <<"x">> /\ F[other].value = <<"y">>
        /\ F["group"].value = IF other = "group" THEN <<"y">> ELSE <<>>
        /\ F["predictor"].value = IF other = "predictor" THEN <<"y">> ELSE <<>>
    BY <1>3, <1>4, <1>5, <2>1
  <2>4. ParamsOf(p) = <<"x", "y">>
    BY <1>8, <2>1 DEF ParamsOf
  <2>5. Params(F, p) = <<"x", "y">>
    <3>1. Params(F, p) = F["outcome"].value \o F[Rows[p].roles[2]].value
      BY <1>10 DEF Params
    <3> QED
      BY <1>8, <2>2, <2>3, <3>1
  <2>6. Closed(p, <<"x", "y">>)
    BY <1>6, <1>7, <1>10 DEF Closed
  <2>7. Fits(F, p)
    <3>1. One(F, "outcome") /\ One(F, other) /\ F["outcome"].value # F[other].value
      BY <1>6, <2>3 DEF One
    <3> QED
      BY <1>10, <2>2, <3>1 DEF Fits
  <2>8. F["outcome"].value \o F["group"].value \o F["predictor"].value = <<"x", "y">>
    <3>1. CASE other = "group"
      BY <1>8, <2>3, <3>1
    <3>2. CASE other = "predictor"
      BY <1>8, <2>3, <3>2
    <3> QED
      BY <2>1, <3>1, <3>2
  <2> QED
    BY <2>1, <2>4, <2>5, <2>6, <2>7, <2>8
<1>11. CASE p = "paired"
  <2>1. Beside(p) = "repeated" /\ OutcomeOf(p) = <<"y">> /\ OtherOf(p) = <<"x", "y">>
    BY <1>11 DEF Beside, OutcomeOf, OtherOf
  <2>2. F["outcome"].value = <<"y">> /\ F["repeated"].value = <<"x", "y">>
    BY <1>3, <1>4, <2>1
  <2>3. ParamsOf(p) = <<"x", "y">> /\ Params(F, p) = <<"x", "y">>
    BY <1>11, <2>1, <2>2 DEF ParamsOf, Params
  <2>4. Closed(p, <<"x", "y">>)
    BY <1>6, <1>7, <1>11 DEF Closed
  <2>5. F["order"] = Confirmed(<<"x", "y">>) => Fits(F, p)
    BY <1>6, <1>11, <2>2 DEF Fits, One
  <2> QED
    BY <1>11, <2>2, <2>3, <2>4, <2>5
<1> QED
  BY <1>1, <1>9, <1>10, <1>11

\* What is recommended is what is stable.
LEMMA MethodsAreStable ==
  ASSUME NEW F, NEW left, NEW passed, PassportCase(F, left, passed),
         passed.action = "recommend_local"
  PROVE  passed.methods = Stable(F) /\ Stable(F) # {}
BY Zenon DEF PassportCase

\* A recommendation that is up to date maps to the step of its profile.
LEMMA RecommendedIsMapped ==
  ASSUME PInv, GrownInv, NEW p \in DOMAIN Profiles, OffStudy(first, Intake(p)),
         passport.action = "recommend_local", Binds(passport)
  PROVE  Mappings = {[step |-> Rows[p].step, params |-> ParamsOf(p)]}
<1>1. Grown /\ FitsRow(Intake(p), p) /\ OwnMethod(Intake(p), p)
  BY IntakesFitRows, IntakesAre DEF GrownInv
<1>2. facts \in AllRequests /\ budget \in 0..Budget
  BY DEF PInv, Requested, Budgeted
<1>3. passport = PassportOf(facts, budget)
  BY NothingIsNotAQuestion DEF PInv, PassportIsOfTheRequest, Binds
<1>4. passport.methods = Stable(facts) /\ Stable(facts) # {}
  <2>1. PassportCase(facts, budget, PassportOf(facts, budget))
    BY <1>2, PassportCases
  <2>2. PassportCase(facts, budget, passport)
    BY <1>3, <2>1
  <2> QED
    BY <2>2, MethodsAreStable
<1>5. passport.methods = {p}
  <2>1. OffStudy(facts, Intake(p))
    BY <1>1 DEF Grown, OffStudy
  <2>2. Stable(facts) \subseteq {p}
    BY <1>1, <2>1, OnlyOwnFits DEF Stable
  <2> QED
    BY <1>4, <2>2
<1>6. ~Contradictory(facts)
  BY <1>3, RecommendedIsSound
<1>7. /\ facts["dependence"] = Confirmed(<<DependenceOf(p)>>)
      /\ facts["weight"] = Confirmed(None) /\ facts["cluster"] = Confirmed(None)
      /\ p = "paired" => facts["order"] = Confirmed(<<"x", "y">>)
  BY <1>4, <1>5, <1>6, StudyIsSettled
<1>8. /\ TargetRoles \subseteq Addresses \ StudyFacts
      /\ ProfileFacts \subseteq Addresses \ StudyFacts
  BY DEF Addresses, Asked, QuestionFacts, EstimandFacts, MethodFacts, TargetRoles, StudyFacts,
         ProfileFacts
<1>9. \A a \in ProfileFacts \cup TargetRoles : facts[a] = Intake(p)[a]
  BY <1>1, <1>8 DEF Grown, OffStudy
<1>10. Matches(facts, Rows[p])
  <2>1. \A a \in DOMAIN Rows[p].facts : facts[a] = Rows[p].facts[a]
    BY <1>1, <1>7, <1>9 DEF FitsRow, StudyQuestions
  <2>2. BoundRoles = Rows[p].roles
    BY <1>1, RolesAreTheRows DEF FitsRow
  <2>3. ASSUME NEW i \in DOMAIN Rows[p].roles
        PROVE  facts[Rows[p].roles[i]].state = "confirmed"
               /\ facts[Rows[p].roles[i]].value # None
    <3> DEFINE r == Rows[p].roles[i]
    <3>1. Rows[p].roles = RolesOf(p)
      BY <1>1 DEF FitsRow
    <3>2. Beside(p) \in {"group", "repeated", "predictor", "none"}
      BY DEF Beside
    <3>3. r = "outcome" \/ (r = Beside(p) /\ r \in {"group", "repeated", "predictor"})
      BY <3>1, <3>2 DEF RolesOf
    <3> HIDE DEF r
    <3>4. facts[r] = Intake(p)[r]
      BY <1>9, <3>3 DEF TargetRoles
    <3>5. facts[r] = Confirmed(OutcomeOf(p)) \/ facts[r] = Confirmed(OtherOf(p))
      BY <1>1, <3>3, <3>4 DEF FitsRow
    <3>6. OutcomeOf(p) # None /\ OtherOf(p) # None
      BY DEF OutcomeOf, OtherOf, None
    <3>7. \A v : Confirmed(v).state = "confirmed" /\ Confirmed(v).value = v
      BY FactParts
    <3>8. facts[r].state = "confirmed" /\ facts[r].value # None
      BY <3>5, <3>6, <3>7
    <3> QED
      BY <3>8 DEF r
  <2> QED
    BY <2>1, <2>2, <2>3 DEF Matches
<1>11. Params(facts, p) = ParamsOf(p) /\ Closed(p, ParamsOf(p)) /\ Fits(facts, p)
  BY <1>7, <1>9, ParamsAre
<1>12. \A n \in passport.methods : n = p
  BY <1>5
<1>13. Mappings = {[step |-> Rows[m].step, params |-> Params(facts, m)] : m \in {p}}
  <2>1. {n \in passport.methods :
           /\ Binds(passport) /\ passport.action = "recommend_local"
           /\ passport.methods = {n}
           /\ Matches(facts, Rows[n]) /\ Fits(facts, n)
           /\ Closed(n, Params(facts, n))} = {p}
    BY <1>5, <1>10, <1>11
  <2> QED
    BY <2>1 DEF Mappings
<1> QED
  BY <1>11, <1>13

\* A recommendation is not a dead end, whatever the user has left open about the study and
\* whatever he answered: it maps to its profile's step, with the variables chosen at the start
\* (map_passport_to_step).
THEOREM RecommendationsArePrepared == Spec => []RecommendationIsPrepared
<1>1. PInv /\ GrownInv => RecommendationIsPrepared
  <2> SUFFICES ASSUME PInv, GrownInv, NEW p \in DOMAIN Profiles,
                      \A a \in Addresses \ StudyFacts : first[a] = Intake(p)[a],
                      passport.action = "recommend_local", Binds(passport)
               PROVE  Mappings =
                        {[step   |-> Rows[p].step,
                          params |-> IF p = "paired" THEN first["repeated"].value
                                     ELSE first["outcome"].value \o first["group"].value
                                            \o first["predictor"].value]}
    BY DEF RecommendationIsPrepared
  <2>1. Mappings = {[step |-> Rows[p].step, params |-> ParamsOf(p)]}
    BY RecommendedIsMapped DEF OffStudy
  <2>2. \A r \in TargetRoles : first[r] = Intake(p)[r]
    BY DEF Addresses, Asked, EstimandFacts, TargetRoles, StudyFacts
  <2>3. ParamsOf(p) = IF p = "paired" THEN first["repeated"].value
                      ELSE first["outcome"].value \o first["group"].value
                             \o first["predictor"].value
    BY <2>2, ParamsAre
  <2> QED
    BY <2>1, <2>3
<1> QED
  BY <1>1, AlwaysPInv, InitGrown, NextKeepsGrown, PTL DEF Spec
==============================================================================
