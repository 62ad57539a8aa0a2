-------------------------- MODULE ClarificationLoop --------------------------
(***************************************************************************)
(* The clarification loop of the Research OS: a request (facts and a       *)
(* budget of questions) is resolved into a passport that recommends, asks  *)
(* one question or abstains; the answer to the question becomes a          *)
(* candidate revision, which is committed to the request it was built on   *)
(* and to no other; then the request is resolved anew.                     *)
(*                                                                         *)
(*   src/src/modori/research_os/resolver.py     what the facts allow       *)
(*   src/src/modori/research_os/counterfactual_planner.py  which question  *)
(*   src/src/modori/research_os/service.py      the passport               *)
(*   src/src/modori/research_os/transition.py   the answer                 *)
(*                                                                         *)
(* The planner's bound on evaluated states (250,000) is far above what the *)
(* P1 catalogue can reach, and its integrity exits (a question that cannot *)
(* resolve its fact, a refusal that would recommend, no relevant question) *)
(* need a registry other than P1's: they are not modelled.  Only the       *)
(* surface on which every method is authorised is modelled; P1 has no      *)
(* external routes.                                                        *)
(***************************************************************************)
EXTENDS P1Catalog, FiniteSetsExt

CONSTANTS
  Opened,      \* sets of facts that a request may leave open besides what its profile does
  MaxOffers    \* bound on the candidates that wait for their commit

Budget == 3    \* questions of a new request, and the most a request may have

VARIABLES
  first,     \* the request the session began with
  facts,     \* the facts of the request now
  budget,    \* question_budget_remaining
  log,       \* decision evidence: one entry for each committed answer
  passport,  \* the last passport
  offers     \* candidate revisions that are not committed yet

vars == <<first, facts, budget, log, passport, offers>>

Values     == {None, NA} \cup VariableLists \cup Singles({"wide_repeated", "repeated_panel"})
                \cup UNION {Answers(q) : q \in Asked}
AllFacts   == {Fact(s, v) : s \in {"confirmed", "not_applicable", "unknown", "refused", "stale"},
                            v \in Values}
AllRequests == [Addresses -> AllFacts]

------------------------------------------------------------------------------
(* The resolver: what the facts say of each method.                         *)

Current(f) == f.state \in {"confirmed", "not_applicable"}

ExcludedBy(F, m) == \E a \in DOMAIN Rules[m] : Current(F[a]) /\ F[a].value \notin Rules[m][a]
\* Mutant: "not sure" settles the fact.
MutUnresolved(F, m) == {a \in DOMAIN Rules[m] : ~Current(F[a]) /\ F[a] # Refused}

Unresolved(F, m) == {a \in DOMAIN Rules[m] : ~Current(F[a])}

Possible(F)    == {m \in Methods : ~ExcludedBy(F, m)}
Stable(F)      == {m \in Possible(F) : Unresolved(F, m) = {}}
Blockers(F)    == UNION {Unresolved(F, m) : m \in Possible(F)}
MustClarify(F) == Stable(F) = {} /\ Blockers(F) # {}

\* Mutant: a refused question is a candidate like any other.
MutCandidates(F) == Blockers(F)

\* The questions that may be asked: one for each blocking fact that was not refused.
Candidates(F) == {q \in Blockers(F) : F[q] # Refused}

------------------------------------------------------------------------------
(* The planner.  A loss is compared field by field: blocking facts of       *)
(* severity E4, of E3, methods still possible, blocking facts, questions    *)
(* asked, dependency deficit, cost of answering.  No field exceeds 15, so   *)
(* that the fields are the digits of one number.                            *)

Digits(d1, d2, d3, d4, d5, d6, d7) ==
  d7 + 16 * (d6 + 16 * (d5 + 16 * (d4 + 16 * (d3 + 16 * (d2 + 16 * d1)))))

TerminalLoss(F) ==
  LET b == Blockers(F)
  IN  Digits(Cardinality(b \ LowSeverity), Cardinality(b \cap LowSeverity),
             Cardinality(Possible(F)), Cardinality(b), 0, 0, 0)

QuestionCost(F, q) ==
  Digits(0, 0, 0, 0, 1, Cardinality({a \in Depends[q] : F[a].state # "confirmed"}), KindCost(q))

\* Mutant: one answer stands for all.
MutProjections(q) == {Confirmed(CHOOSE v \in Answers(q) : TRUE)}

\* project_question_answers: one answer for each class that the rules tell apart.
Projections(q) ==
  LET open == {v \in Answers(q) : v # None}
  IN  {Confirmed(v) : v \in
         IF q \in DOMAIN ChoiceQuestions THEN Answers(q)
         ELSE (Answers(q) \ open) \cup {CHOOSE v \in open : TRUE}}

\* What asking q may leave, at the worst of its projected answers, where left[G] is what the
\* request G leaves; an answer is put into the question's own fact and changes no other.
Worst(left, F, q) ==
  QuestionCost(F, q) + Max({left[[F EXCEPT ![q] = f]] : f \in Projections(q)})

\* _search: the loss that is left at worst within a budget of n more questions, when each is
\* the best to ask.
Search[n \in 0..Budget] ==
  [F \in AllRequests |->
     IF n = 0 \/ ~MustClarify(F) \/ Candidates(F) = {} THEN TerminalLoss(F)
     ELSE Min({Worst(Search[n - 1], F, q) : q \in Candidates(F)})]

\* _evaluate_candidate: the loss of asking q first.
Loss(F, q, left) == Worst(Search[left - 1], F, q)

\* build_plan: the least loss, and of equal ones the first question by id.
Plan(F, left) ==
  LET loss == [q \in Candidates(F) |-> Loss(F, q, left)]
      best == {q \in Candidates(F) : \A r \in Candidates(F) : loss[q] <= loss[r]}
      q    == CHOOSE q \in best :
                \E i \in DOMAIN ById : /\ ById[i] = q
                                       /\ \A j \in 1..(i - 1) : ById[j] \notin best
  IN  [question |-> q, loss |-> loss[q]]

------------------------------------------------------------------------------
(* The service: the passport of a request.                                  *)

\* _integrity_errors: the roles of a pair contradict its order.
Contradictory(F) ==
  /\ F["order"].state = "confirmed"
  /\ \/ /\ F["repeated"].state = "confirmed"
        /\ F["repeated"].value # F["order"].value
     \/ /\ F["template"] = Confirmed(<<"within_unit_change">>)
        /\ F["outcome"].state = "confirmed"
        /\ F["outcome"].value # <<F["order"].value[Len(F["order"].value)]>>

Pass(action, reason, question, methods, promise) ==
  [action |-> action, reason |-> reason, question |-> question, methods |-> methods,
   promise |-> promise, base |-> Len(log)]

Abstain(reason, promise) == Pass("abstain", reason, "", {}, promise)
NoPassport == [action |-> "none", reason |-> "", question |-> "", methods |-> {},
               promise |-> 0, base |-> 0]

\* Reasons that the planner knows nothing of.
OutsideThePlan == {"integrity", "unsupported_causal_target"}

\* The promise is the loss that is left at worst: the plan's, or what the facts leave.
PassportOf(F, left) ==
  IF Contradictory(F) THEN Abstain("integrity", 0)
  ELSE IF F["causal"] = Confirmed(<<"causal">>) THEN Abstain("unsupported_causal_target", 0)
  ELSE IF Stable(F) # {} THEN Pass("recommend_local", "", "", Stable(F), TerminalLoss(F))
  ELSE IF Blockers(F) = {} THEN Abstain("no_stable_supported_capability", TerminalLoss(F))
  ELSE IF left = 0 THEN Abstain("clarification_budget_exhausted", TerminalLoss(F))
  ELSE IF Candidates(F) = {} THEN Abstain("clarification_answer_unavailable", TerminalLoss(F))
  ELSE LET p == Plan(F, left) IN Pass("clarify", "", p.question, {}, p.loss)

\* resolve_and_plan, for the request as it is now
Resolve ==
  /\ passport = NoPassport \/ passport.base # Len(log)
  /\ passport' = PassportOf(facts, budget)
  /\ UNCHANGED <<first, facts, budget, log, offers>>

------------------------------------------------------------------------------
(* The transition service: an answer, the revision it makes, its commit.    *)

Stale == Fact("stale", None)   \* the value is kept for the reader; no rule reads it

Invalidate(f) == IF f.state \in {"confirmed", "stale"} THEN Stale ELSE Unknown

\* _fact_semantics_changed
Changes(F, q, f) == f.state = "confirmed" /\ F[q] # f

\* Mutant: the contrast of the former template is kept.
MutInvalidates(q) ==
  CASE q = "goal"     -> EstimandFacts
    [] q = "template" -> EstimandFacts \ {"template", "contrast"}
    [] q = "causal"   -> {"basis"}
    [] OTHER          -> {}

\* What _apply_answer invalidates when the answer to q changes its fact.
Invalidates(q) ==
  CASE q = "goal"     -> EstimandFacts
    [] q = "template" -> EstimandFacts \ {"template"}
    [] q = "causal"   -> {"basis"}
    [] OTHER          -> {}

\* The order of the repeated measures follows an answer about dependence.
OrderAfter(F, f) ==
  CASE f = Confirmed(<<"independent">>) -> NotApplicable
    [] f = Confirmed(<<"paired">>) /\ F["order"] = NotApplicable -> Unknown
    [] OTHER -> F["order"]

\* _fact_from_answer
AnswerFact(q, v) == IF q = "repeated" /\ v = None THEN NotApplicable ELSE Confirmed(v)

\* _apply_answer
Revised(F, q, f) ==
  LET gone == IF Changes(F, q, f) THEN Invalidates(q) ELSE {}
  IN  [a \in Addresses |->
         CASE a = q                                    -> f
           [] a # q /\ a \in gone                      -> Invalidate(F[a])
           [] a = "order" /\ q = "dependence"          -> OrderAfter(F, f)
           [] OTHER                                    -> F[a]]

\* EstimandSpec.__post_init__: a target of association goes with the template association.
ValidEstimand(F) ==
  IF F["template"] = Confirmed(<<"association">>) THEN F["target"] # Confirmed(NA)
  ELSE F["target"].state = "confirmed" => F["target"].value = NA

Component(a) ==
  IF a \in QuestionFacts THEN "question"
  ELSE IF a \in EstimandFacts THEN "estimand" ELSE "study"

Components(F, q, f) ==
  {Component(q)} \cup IF q \in QuestionFacts /\ Changes(F, q, f) THEN {"estimand"} ELSE {}

\* propose: the passport's question, which the registry knows, is answered on the request
\* that it was issued for.
Propose ==
  /\ passport.action = "clarify" /\ passport.base = Len(log)
  /\ passport.question \in Asked
  /\ Cardinality(offers) < MaxOffers
  /\ LET q == passport.question
     IN  \E f \in {AnswerFact(q, v) : v \in Answers(q)} \cup {Refused} :
           /\ ValidEstimand(Revised(facts, q, f))
           /\ offers' = offers \cup
                {[base |-> Len(log), question |-> q, answer |-> f,
                  changed |-> Changes(facts, q, f), facts |-> Revised(facts, q, f),
                  components |-> Components(facts, q, f),
                  due |-> passport.promise - QuestionCost(facts, q)]}
  /\ UNCHANGED <<first, facts, budget, log, passport>>

\* Mutant: a candidate may be as old as it likes.
MutBaseIsCurrent(o) == o.base <= Len(log)

\* _validate_commit_base: the request is still the one the candidate was built on.
BaseIsCurrent(o) == o.base = Len(log)

\* Mutant: a question that brought no answer is not counted.
MutSpent(o) == IF o.answer = Refused THEN budget ELSE Max({0, budget - 1})

Spent(o) == Max({0, budget - 1})

\* _committed_request: the components the candidate proposes replace those of the request.
Commit(o) ==
  /\ BaseIsCurrent(o)
  /\ facts' = [a \in Addresses |->
                 IF Component(a) \in o.components THEN o.facts[a] ELSE facts[a]]
  /\ budget' = Spent(o)
  /\ log' = Append(log, [question |-> o.question, answer |-> o.answer,
                         changed |-> o.changed, due |-> o.due])
  /\ offers' = offers \ {o}
  /\ UNCHANGED <<first, passport>>

\* An answer that leaves the estimand alone is committed as it is ...
CommitReady == \E o \in offers : "estimand" \notin o.components /\ Commit(o)

\* ... and one that revises it with a certificate of the user's acceptance.
CommitAccepted == \E o \in offers : "estimand" \in o.components /\ Commit(o)

\* A commit to another request than its base is refused; the candidate is of no use.
RefuseStale ==
  /\ \E o \in offers : ~BaseIsCurrent(o) /\ offers' = offers \ {o}
  /\ UNCHANGED <<first, facts, budget, log, passport>>

------------------------------------------------------------------------------

\* A request of the intake in which some more facts are left open, and the causal one.
OpenedRequest(p, open) == [a \in Addresses |-> IF a \in open THEN Unknown ELSE Intake(p)[a]]

Requests ==
  {CausalRequest} \cup {F \in {OpenedRequest(p, open) : p \in DOMAIN Profiles, open \in Opened} :
                           ValidEstimand(F)}

Init ==
  /\ first \in Requests /\ facts = first
  /\ budget = Budget /\ log = <<>> /\ passport = NoPassport /\ offers = {}

Next == Resolve \/ Propose \/ CommitReady \/ CommitAccepted \/ RefuseStale

Spec == Init /\ [][Next]_vars

------------------------------------------------------------------------------
(* What the loop promises.                                                  *)

\* The request, its budget and its evidence, the passport and the candidates have their types.
TypeOK ==
  /\ first \in AllRequests /\ facts \in AllRequests
  /\ budget \in 0..Budget
  /\ budget + Len(log) = Budget
  /\ \A i \in DOMAIN log : log[i].question \in Asked /\ log[i].answer \in AllFacts
  /\ passport.action \in {"none", "recommend_local", "clarify", "abstain"}
  /\ passport.base \in 0..Len(log)
  /\ passport.action = "clarify" <=> passport.question \in Asked
  /\ passport.action = "recommend_local" <=> passport.methods # {}
  /\ passport.methods \subseteq Methods
  /\ \A o \in offers : o.base \in 0..Len(log) /\ o.facts \in AllRequests

\* What a fact depends on according to the registry, directly or not.
Ancestors(a) ==
  LET Up(S) == S \cup UNION {Depends[b] : b \in S \cap Asked}
  IN  IF a \in Asked THEN Up(Up(Up(Depends[a]))) ELSE {}

\* A later answer was about the fact or about one it depends on.
TouchedAfter(i, a) == \E j \in (i + 1)..Len(log) : log[j].question \in {a} \cup Ancestors(a)

\* An answer that was committed is what the request says until a later answer is about the
\* same fact or one it depends on; a fact that nobody was asked about is as the request came
\* with it.  Candidates replace whole components: two of them, built on one request, would
\* each undo the other's answer (_validate_commit_base).
NoAnswerIsLost ==
  /\ \A i \in DOMAIN log :
       ~TouchedAfter(i, log[i].question) => facts[log[i].question] = log[i].answer
  /\ \A a \in Addresses : ~TouchedAfter(0, a) => facts[a] = first[a]

\* Once the goal, the causal intent or the template has changed, no part of the estimand that
\* depends on it counts as current before it is confirmed again (_apply_answer).
NothingOutlivesItsGoal ==
  \A i \in DOMAIN log : \A a \in EstimandFacts :
    (/\ log[i].changed
     /\ log[i].question \in Ancestors(a) \cap {"goal", "causal", "template"}
     /\ Current(facts[a]))
      => \E j \in (i + 1)..Len(log) : log[j].question = a

\* The planner's promise is kept: whatever the user answers, the next passport leaves no more
\* to be resolved than the plan said at worst, less the cost of the question.  Not promised:
\* a refusal, an answer that invalidates other facts, a request that the service stops.
PromiseKept ==
  LET e == log[Len(log)]
  IN  (/\ log # <<>> /\ passport.base = Len(log) /\ passport.reason \notin OutsideThePlan
       /\ e.answer # Refused
       /\ ~(e.changed /\ Invalidates(e.question) # {}))
        => passport.promise <= e.due

\* A request of the intake is decided within the budget: only the profile's own method is
\* recommended, and only after the user has said that there are no weights and no clusters;
\* the questions run out only on a user who was not sure; and every answer is about the study,
\* since the application cannot accept a revised estimand (its coordinator calls commit_ready).
IntakeIsDecided ==
  \A p \in DOMAIN Profiles : first = Intake(p) =>
    /\ passport.action = "recommend_local" =>
         /\ passport.methods = {p}
         /\ \A a \in LowSeverity :
              \E i \in DOMAIN log : log[i].question = a /\ log[i].answer = Confirmed(None)
    /\ passport.reason = "clarification_budget_exhausted" =>
         \E i \in DOMAIN log : log[i].answer = Refused
    /\ passport.reason # "integrity"
    /\ \A o \in offers : o.components = {"study"}

\* "Not sure" is no evidence: it neither opens a recommendation nor rules a method out.
RefusalOpensNothing ==
  LET e == log[Len(log)]
  IN  (log # <<>> /\ passport.base = Len(log) /\ e.answer = Refused)
        => /\ passport.action # "recommend_local"
           /\ passport.reason # "no_stable_supported_capability"

\* A question that the user was not sure about is asked again only after an answer has
\* invalidated its fact.
RefusedStaysRefused ==
  \A i \in DOMAIN log :
    (/\ passport.action = "clarify" /\ passport.base = Len(log)
     /\ log[i].question = passport.question /\ log[i].answer = Refused)
      => \E j \in (i + 1)..Len(log) :
           log[j].changed /\ passport.question \in Invalidates(log[j].question)
==============================================================================
