------------------------------ MODULE Conditions ------------------------------
(***************************************************************************)
(* The condition language of hard rules, scoring mappings and gated         *)
(* questions (modules/shared/conditions.ts): comparisons of one fact with   *)
(* given values, grouped by all and any.                                   *)
(*                                                                         *)
(* A value is <<"boolean", b>>, <<"number", n>>, <<"text", t>> with t       *)
(* trimmed and in lower case, or None.  A fact nobody stated is None.       *)
(***************************************************************************)
EXTENDS Integers, Sequences

CONSTANT Numeral   \* the texts that read as a number, and that number

ASSUME ConditionsOK == \A t \in DOMAIN Numeral : Numeral[t] \in Int

None  == <<"none">>
Empty == <<"text", "">>

\* normalizeValue: what texts of templates, answers and extractions stand for.
normalizeValue(v) ==
  IF v[1] # "text" THEN v
  ELSE IF v[2] \in {"yes", "true"} THEN <<"boolean", TRUE>>
  ELSE IF v[2] \in {"no", "false"} THEN <<"boolean", FALSE>>
  ELSE IF v[2] \in DOMAIN Numeral THEN <<"number", Numeral[v[2]]>>
  ELSE v

Ordered(m, op, n) ==
  \/ op = "gt" /\ m > n
  \/ op = "gte" /\ m >= n
  \/ op = "lt" /\ m < n
  \/ op = "lte" /\ m <= n

\* compare: of a list only `in' reads more than the first value.
compare(fact, op, values) ==
  LET x == normalizeValue(fact)
      y == IF values = <<>> THEN None ELSE normalizeValue(values[1])
  IN IF op = "exists" THEN x # None /\ x # Empty
     ELSE /\ x # None
          /\ \/ op = "in" /\ \E i \in DOMAIN values : normalizeValue(values[i]) = x
             \/ op = "eq" /\ x = y
             \/ op = "ne" /\ x # y
             \/ x[1] = "number" /\ y[1] = "number" /\ Ordered(x[2], op, y[2])

FactOf(facts, k) == IF k \in DOMAIN facts THEN facts[k] ELSE None

\* A condition is the list of its nodes: comparisons, and groups of earlier nodes; the last is the whole.
IsCondition(c) ==
  /\ Len(c) \in Nat \ {0} /\ DOMAIN c = 1..Len(c)
  /\ \A i \in DOMAIN c : \/ c[i].is = "leaf"
                         \/ c[i].is \in {"all", "any"} /\ c[i].of \subseteq 1..(i - 1)

\* Node i matches, where `known' are the earlier nodes that do.
NodeMatches(c, facts, i, known) ==
  \/ c[i].is = "leaf" /\ compare(FactOf(facts, c[i].key), c[i].op, c[i].values)
  \/ c[i].is = "all" /\ c[i].of \subseteq known
  \/ c[i].is = "any" /\ c[i].of \cap known # {}

\* The nodes among the first n that match.
Matching(c, facts) ==
  LET upTo[n \in 0..Len(c)] ==
        IF n = 0 THEN {} ELSE upTo[n - 1] \cup {i \in {n} : NodeMatches(c, facts, i, upTo[n - 1])}
  IN upTo[Len(c)]

\* matches: the evaluation of a condition on the facts.
matches(c, facts) == Len(c) \in Matching(c, facts)
===============================================================================
