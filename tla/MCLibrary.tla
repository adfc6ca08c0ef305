------------------------------- MODULE MCLibrary -------------------------------
(* One persona and one scenario in three versions, three questions with a      *)
(* follow-up chain, one sector; or two groups for one persona key.           *)
EXTENDS Library, TLC

CONSTANTS pg1, pg2, sg1, q1, q2, q3, f1, f2

MCPersonaGroups  == {pg1}
MCTwoGroups      == {pg1, pg2}
MCScenarioGroups == {sg1}
MCPersonaBodies  == {[key |-> "clerk", sector |-> "bank", default |-> "loss"]}
MCScenarioBodies ==
  {[key |-> "loss", persona |-> "clerk", flow |-> <<q1>>, required |-> {f1, f2}],
   [key |-> "loss", persona |-> "clerk", flow |-> <<q1, q3>>, required |-> {f1}]}
MCQuestionBodies ==
  [k \in {q1, q2, q3} |->
     IF k = q1 THEN {[fact |-> f1, follow |-> <<q2>>], [fact |-> f2, follow |-> <<>>]}
     ELSE IF k = q2 THEN {[fact |-> f1, follow |-> <<q3>>]}
     ELSE {[fact |-> f2, follow |-> <<>>]}]
MCFiles ==
  {[persona |-> CHOOSE p \in MCPersonaBodies : TRUE, scenario |-> s, questions |-> qs] :
     s \in MCScenarioBodies,
     qs \in {(q1 :> [fact |-> f1, follow |-> <<q2>>]),
             (q1 :> [fact |-> f2, follow |-> <<>>]) @@ (q3 :> [fact |-> f1, follow |-> <<>>])}}
MCQuestions == {q1, q2, q3}
MCFactKeys  == {f1, f2}
MCVersions  == [g \in {pg1, sg1} |-> IF g = sg1 THEN 3 ELSE 2]
MCOneVersion == [g \in {pg1, pg2, sg1} |-> 1]
MCSectors   == {"bank"}
===============================================================================
