----------------------------- MODULE MCAssessment -----------------------------
(* Assessment with two requests under way at a time and four states of the  *)
(* content library: a flow with a gate, a branch and a required fact only a *)
(* gated question asks for; the same scenario after an edit of a question   *)
(* took a required fact away; a flow whose only question is gated; and a    *)
(* flow of free text with two questions on one fact.                        *)
EXTENDS Assessment, TLC

CONSTANTS r1, r2, alice, bob, s1, s2, q1, q2, q3, f1, f2, f3, yes, no, blank, nothing

MCRequests  == {r1, r2}
MCPersonas  == {alice, bob}
MCScenarios == {s1, s2}
MCQuestions == {q1, q2, q3}
MCFacts     == {f1, f2, f3}
MCValues    == {yes, no, blank}

NoGates    == [k \in MCQuestions |-> nothing]
NoTriggers == [k \in MCQuestions |-> nothing]

Branched ==
  [persona |-> alice, scenario |-> s1, flow |-> <<q1, q2>>,
   gate |-> [NoGates EXCEPT ![q2] = [fact |-> f1, equals |-> yes]],
   questions |-> MCQuestions, order |-> <<q1, q2, q3>>,
   fact |-> (q1 :> f1) @@ (q2 :> f2) @@ (q3 :> f3),
   trigger |-> [NoTriggers EXCEPT ![q1] = [on |-> no, follow |-> <<q3>>]],
   freeText |-> {q3}, required |-> <<f1, f2>>]

Edited == [Branched EXCEPT !.fact = (q1 :> f1) @@ (q2 :> f3) @@ (q3 :> f3)]

AllGated ==
  [persona |-> bob, scenario |-> s2, flow |-> <<q1>>,
   gate |-> [NoGates EXCEPT ![q1] = [fact |-> f2, equals |-> yes]],
   questions |-> {q1}, order |-> <<q1>>,
   fact |-> (q1 :> f1) @@ (q2 :> f2) @@ (q3 :> f3),
   trigger |-> NoTriggers, freeText |-> {}, required |-> <<f1>>]

Shared ==
  [persona |-> bob, scenario |-> s2, flow |-> <<q1, q2>>, gate |-> NoGates,
   questions |-> {q1, q2, q3}, order |-> <<q1, q2, q3>>,
   fact |-> (q1 :> f1) @@ (q2 :> f2) @@ (q3 :> f1),
   trigger |-> [NoTriggers EXCEPT ![q1] = [on |-> yes, follow |-> <<q3>>]],
   freeText |-> {q2}, required |-> <<f1>>]

MCContents == {Branched, Edited, AllGated, Shared}
MCSharedOnly == {Shared}
MCSymmetry == Permutations(MCRequests)
===============================================================================
