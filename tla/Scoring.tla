-------------------------------- MODULE Scoring --------------------------------
(***************************************************************************)
(* The scoring matrices of a tenant (modules/scoring): versions with an     *)
(* approval record, the validation of their bodies, and the score and the   *)
(* class they give (compute.ts).                                           *)
(*                                                                         *)
(* Numbers are integers; a weight is a number of points out of Top, which   *)
(* is 100 in the code.  Facts come down to the value each factor takes.     *)
(* A score is a fraction, an infinity or NaN, as in JavaScript.             *)
(***************************************************************************)
EXTENDS VersionedContent, Conditions, FiniteSets, SequencesExt

CONSTANTS
  Groups,        \* version groups of matrices
  Keys,          \* matrix keys
  Factors,       \* FACTOR_KEYS, a sequence
  Classes,       \* CLASSIFICATIONS, a sequence from the mildest to the most severe
  Top,           \* the highest score
  Rules,         \* hard rules: a trigger, a priority and the class each forces
  FactKeys,      \* keys of facts
  FactSets,      \* facts an intake may have collected: functions on some of the keys
  FactorTables,  \* what a request may put for `factors', one entry per factor
  RangeTables,   \* what a request may put for `thresholds'
  Admins,        \* administrators
  Nobody,        \* no approval
  MaxVersions    \* bound: versions of a group

ASSUME ScoringOK ==
  /\ Top \in Nat \ {0} /\ MaxVersions \in Nat /\ Nobody \notin Admins
  /\ Len(Classes) \in Nat \ {0} /\ DOMAIN Classes = 1..Len(Classes)
  /\ Len(Factors) \in Nat /\ DOMAIN Factors = 1..Len(Factors)
  /\ IsFiniteSet(Rules) /\ \A r \in Rules :
       r.priority \in Nat /\ r.class \in DOMAIN Classes /\ IsCondition(r.trigger)
  /\ IsFiniteSet(FactKeys) /\ \A F \in FactSets : DOMAIN F \subseteq FactKeys
  /\ \A t \in FactorTables : DOMAIN t = DOMAIN Factors /\ \A f \in DOMAIN t :
       t[f].weight \in 0..Top /\ t[f].min \in Int /\ t[f].max \in Int /\ t[f].values \subseteq Int
  /\ \A t \in RangeTables : DOMAIN t = DOMAIN Classes /\ \A i \in DOMAIN t :
       t[i].min \in 0..Top /\ t[i].max \in 0..Top

VARIABLE matrices   \* the collection of matrices

Contents == [factors : FactorTables, ranges : RangeTables]
Content(b) == [factors |-> b.factors, ranges |-> b.ranges]

-------------------------------------------------------------------------------
(* compute.ts *)

\* The sum of n fractions <<numerator, denominator>>, in order.
Total(t, n) ==
  LET total[i \in 0..n] ==
        IF i = 0 THEN <<0, 1>>
        ELSE <<total[i - 1][1] * t[i][2] + t[i][1] * total[i - 1][2], total[i - 1][2] * t[i][2]>>
  IN total[n]

Weights(c) == Total([f \in DOMAIN Factors |-> <<c.factors[f].weight, 1>>], Len(Factors))

\* Mutation: the last range need not end at the top.
RefinedOpenEnded(c) ==
  /\ Weights(c) = <<Top, 1>>
  /\ \A f \in DOMAIN Factors : /\ c.factors[f].max > c.factors[f].min
                               /\ c.factors[f].values \subseteq c.factors[f].min..c.factors[f].max
  /\ \A i \in DOMAIN Classes :
       /\ c.ranges[i].min = IF i = 1 THEN 0 ELSE c.ranges[i - 1].max + 1
       /\ c.ranges[i].max >= c.ranges[i].min

\* superRefine of MatrixBody.
Refined(c) ==
  /\ Weights(c) = <<Top, 1>>
  /\ \A f \in DOMAIN Factors : /\ c.factors[f].max > c.factors[f].min
                               /\ c.factors[f].values \subseteq c.factors[f].min..c.factors[f].max
  /\ \A i \in DOMAIN Classes :
       /\ c.ranges[i].min = IF i = 1 THEN 0 ELSE c.ranges[i - 1].max + 1
       /\ c.ranges[i].max >= c.ranges[i].min
  /\ c.ranges[Len(Classes)].max = Top

\* computeFactors: each factor takes the value of a mapping, or the minimum of its scale.
Values(c, f) == c.factors[f].values \cup {c.factors[f].min}
Readings(c)  == {v \in [DOMAIN Factors -> UNION {Values(c, f) : f \in DOMAIN Factors}] :
                   \A f \in DOMAIN Factors : v[f] \in Values(c, f)}

Span(c, f) == c.factors[f].max - c.factors[f].min
Rise(c, v, f) == c.factors[f].weight * (v[f] - c.factors[f].min)

\* A division by an empty scale: 0 / 0, or an infinity.
Flat(c)     == {f \in DOMAIN Factors : Span(c, f) = 0}
NaN(c, v)   == \/ \E f \in Flat(c) : Rise(c, v, f) = 0
               \/ \E f, g \in Flat(c) : Rise(c, v, f) > 0 /\ Rise(c, v, g) < 0
PlusInfinity(c, v)  == \E f \in Flat(c) : Rise(c, v, f) > 0
MinusInfinity(c, v) == \E f \in Flat(c) : Rise(c, v, f) < 0

\* The sum of the contributions, a flat scale aside.
Raw(c, v) == Total([f \in DOMAIN Factors |-> IF f \in Flat(c) THEN <<0, 1>>
                                           ELSE <<Rise(c, v, f), Span(c, f)>>], Len(Factors))

\* Math.round: to the nearest integer, a half upwards.
Rounded(q) ==
  LET n == q[1]
      d == q[2]
  IN IF d > 0 THEN (2 * n + d) \div (2 * d) ELSE (-2 * n - d) \div (-2 * d)

Clamp(n) == IF n < 0 THEN 0 ELSE IF n > Top THEN Top ELSE n

\* computeScore, where the score is a number.
computeScore(c, v) ==
  IF PlusInfinity(c, v) THEN Top
  ELSE IF MinusInfinity(c, v) THEN 0
  ELSE Clamp(Rounded(Raw(c, v)))

\* The ranges that hold the score.
Fitting(c, v) ==
  IF NaN(c, v) THEN {}
  ELSE {i \in DOMAIN Classes :
          computeScore(c, v) \in c.ranges[i].min..c.ranges[i].max}

\* classify: the first range that holds the score, else the most severe class.
classify(c, v) == IF Fitting(c, v) = {} THEN Len(Classes) ELSE Min(Fitting(c, v))

\* Mutation: rules of one priority stay in the order of the query.
BeforeByPriority(r, s) == r.priority < s.priority

\* The order of evaluate: the lower priority, then the more severe class.
Before(r, s) == \/ r.priority < s.priority
                \/ r.priority = s.priority /\ r.class > s.class

\* The places of the rules whose trigger matches, in a list as activeRules gives it, in no order.
Fired(rules, facts) == {n \in DOMAIN rules : matches(rules[n].trigger, facts)}

\* evaluate: the first of the sorted list; the sort is stable.
evaluate(rules, fired) ==
  rules[Min({n \in fired : \A m \in fired : ~Before(rules[m], rules[n])})]

\* The keys with a value.  (The code takes a text of blanks for one; texts are trimmed here.)
Present(facts) == {k \in DOMAIN facts : facts[k] # None /\ facts[k] # Empty}

\* computeConfidence: sure[k] is the confidence of a fact, in tenths.
computeConfidence(facts, sure, required) ==
  LET P == Cardinality(Present(facts))
      R == Cardinality(required)
      keys     == SetToSeq(Present(facts))
      sum      == Total([i \in 1..P |-> <<sure[keys[i]], 10>>], P)
      mean     == IF P = 0 THEN <<0, 1>> ELSE <<sum[1], sum[2] * P>>
      coverage == IF R = 0 THEN <<1, 1>> ELSE <<Cardinality(required \cap Present(facts)), R>>
  IN Rounded(Total(<<<<70 * coverage[1], coverage[2]>>, <<30 * mean[1], mean[2]>>>>, 2))

\* simulate: what POST /scoring/simulate and submit get.
simulate(c, v, rules, facts, sure, required, limits) ==
  LET fired      == Fired(rules, facts)
      zero       == ~NaN(c, v) /\ computeScore(c, v) = 0
      confidence == computeConfidence(facts, sure, required)
  IN [ruleDriven          |-> fired # {},
      class               |-> IF fired = {} THEN classify(c, v) ELSE evaluate(rules, fired).class,
      zero                |-> zero,
      errorReview         |-> zero /\ fired = {},
      professionalConsult |-> confidence < limits.professionalConsultBelow,
      mandatoryReview     |-> confidence < limits.mandatoryReviewBelow]

-------------------------------------------------------------------------------
(* scoringService *)

Init == matrices = [g \in Groups |-> <<>>]

\* seen is history: what the approver approved.
Body(key, c, author, approver, seen) ==
  [key |-> key, factors |-> c.factors, ranges |-> c.ranges,
   createdBy |-> author, approvedBy |-> approver, seen |-> seen]

\* create: the body passed MatrixBody.
Create(g, a) ==
  /\ matrices[g] = <<>>
  /\ \E k \in Keys, c \in Contents :
       /\ Refined(c) /\ MayCreate(matrices, k)
       /\ matrices' = createDraft(matrices, g, Body(k, c, a, Nobody, Nobody))

MayAppend(g, n) == matrices[g][n].status = "draft" \/ Len(matrices[g]) < MaxVersions

\* Mutation: an edit keeps the approval.
UpdateApproved(g, n, a) ==
  /\ MayUpdate(matrices, g, n) /\ MayAppend(g, n)
  /\ LET old == matrices[g][n].body IN
     \E c \in Contents :
       /\ c.factors = old.factors \/ c.ranges = old.ranges
       /\ matrices' = updateAsNewVersion(matrices, g, n, Body(old.key, c, a, old.approvedBy, old.seen))

\* update: MatrixPatch checks the parts by themselves; the latest editor is the author.
Update(g, n, a) ==
  /\ MayUpdate(matrices, g, n) /\ MayAppend(g, n)
  /\ LET old == matrices[g][n].body IN
     \E c \in Contents :
       /\ c.factors = old.factors \/ c.ranges = old.ranges
       /\ matrices' = updateAsNewVersion(matrices, g, n, Body(old.key, c, a, Nobody, Nobody))

\* approve: a draft, by another administrator than its author.
Approve(g, n, a) ==
  /\ matrices[g][n].status = "draft" /\ matrices[g][n].body.createdBy # a
  /\ matrices' = [matrices EXCEPT ![g][n].body.approvedBy = a,
                                 ![g][n].body.seen = Content(matrices[g][n].body)]

\* activate, with validateForActivation: the approval record is complete.
Activate(g, n) ==
  /\ MayActivate(matrices, g, n) /\ matrices[g][n].body.approvedBy # Nobody
  /\ matrices' = activate(matrices, g, n)

Deactivate(g, n) ==
  /\ MayDeactivate(matrices, g, n)
  /\ matrices' = deactivate(matrices, g, n)

\* The scoring sheet of a dataset of author a that administrator b reviewed: the parsed body
\* replaces the current matrix of its key, or starts a group, approved and active at once.
ApplySheet(a, b) ==
  /\ a # b
  /\ \E k \in Keys, c \in Contents, g \in Groups :
       /\ Refined(c)
       /\ \/ /\ matrices[g] = <<>> /\ MayCreate(matrices, k)
             /\ matrices' = [matrices EXCEPT ![g] =
                  <<[status |-> "active", isCurrent |-> TRUE, body |-> Body(k, c, a, b, c)]>>]
          \/ \E n \in DOMAIN matrices[g] :
             /\ <<g, n>> \in Current(matrices) /\ matrices[g][n].body.key = k
             /\ MayUpdate(matrices, g, n) /\ MayAppend(g, n)
             /\ matrices' = activate(updateAsNewVersion(matrices, g, n, Body(k, c, a, b, c)),
                                     g, Len(matrices[g]) + 1)

Next ==
  \/ \E g \in Groups : \/ \E a \in Admins : Create(g, a)
                       \/ \E n \in DOMAIN matrices[g] :
                            \/ Activate(g, n) \/ Deactivate(g, n)
                            \/ \E a \in Admins : Update(g, n, a) \/ Approve(g, n, a)
  \/ \E a, b \in Admins : ApplySheet(a, b)

Spec == Init /\ [][Next]_matrices

-------------------------------------------------------------------------------
(* Properties *)

\* Every active matrix was approved, as it is, by an administrator who is not its author: edits of
\* an approved draft, copies of an active version and sheets keep no older approval.
MatrixFourEyes ==
  \A v \in Current(matrices) :
    LET b == At(matrices, v).body IN
    b.approvedBy \in Admins \ {b.createdBy} /\ b.seen = Content(b)

\* With a body MatrixBody accepts, no reading of the factors needs the bounds of computeScore or
\* the last line of classify: the rounded sum is a score, and exactly one range holds it.
RefinedIsExact ==
  \A v \in Current(matrices) :
    LET c == Content(At(matrices, v).body) IN
    Refined(c) => \A r \in Readings(c) :
      /\ ~NaN(c, r) /\ Rounded(Raw(c, r)) \in 0..Top
      /\ Cardinality(Fitting(c, r)) = 1

\* A result does not depend on the order in which the rules are listed: by the database for a
\* what-if, by id for a submission.  Only a score of 0 that no rule overrides is left to review, and
\* an intake that has every required fact from clicked answers is sent to nobody for want of
\* confidence, whatever the limits of the matrix.  Facts learned later, or the same facts spelled in
\* another way, take no rule back.
ResultIsDetermined ==
  \A v \in Current(matrices), F \in FactSets :
    LET c == Content(At(matrices, v).body)
        S == {x \in Rules : matches(x.trigger, F)}
        strongest == {x \in S : \A y \in S : x.priority <= y.priority}
        clicked   == [k \in DOMAIN F |-> 10]
        limits    == [professionalConsultBelow |-> 100, mandatoryReviewBelow |-> 100]
    IN /\ \A rules \in SetToSeqs(Rules), r \in Readings(c) :
            LET result == simulate(c, r, rules, F, clicked, Present(F), limits) IN
            /\ result.ruleDriven <=> S # {}
            /\ S # {} => result.class = Max({x.class : x \in strongest})
            /\ result.errorReview <=> result.zero /\ S = {}
            /\ Present(F) # {} => ~result.professionalConsult /\ ~result.mandatoryReview
       /\ \A G \in FactSets :
            (\A k \in DOMAIN F : k \in DOMAIN G /\ normalizeValue(F[k]) = normalizeValue(G[k]))
              => \A x \in S : matches(x.trigger, G)

\* The comment in classify: the last line is unreachable, because the schema makes the thresholds
\* contiguous.
FallthroughUnreachable ==
  \A v \in Current(matrices) :
    LET c == Content(At(matrices, v).body) IN \A r \in Readings(c) : Fitting(c, r) # {}
===============================================================================
