------------------------------- MODULE MCScoring -------------------------------
(* One matrix in two versions, two factors on scales of different width, three     *)
(* classes, scores up to 10; tables with a gap, an empty scale, a sum below    *)
(* the top and a value off the scale among those a request may send.          *)
EXTENDS Scoring, TLC

CONSTANTS g1, ann, bob, cid

MCGroups  == {g1}
MCKeys    == {"default"}
MCFactors == <<"impact", "duration">>
MCClasses == <<"monitor_only", "risk", "issue">>
MCAdmins  == {ann, bob, cid}

Scale(weight, min, max, values) == [weight |-> weight, min |-> min, max |-> max, values |-> values]
MCFactorTables ==
  {<<Scale(6, 1, 5, {2, 4, 5}), Scale(4, 1, 4, {2, 4})>>,
   <<Scale(7, 0, 3, {1, 3}), Scale(3, 2, 4, {3, 4})>>,
   <<Scale(6, 3, 3, {3, 5}), Scale(4, 1, 4, {2, 4})>>,
   <<Scale(3, 1, 5, {6}), Scale(4, 1, 4, {0, 4})>>}

Ranges(a, b, c, d, e, f) ==
  <<[min |-> a, max |-> b], [min |-> c, max |-> d], [min |-> e, max |-> f]>>
MCNumeral  == ("3" :> 3) @@ ("5" :> 5)
Leaf(k, op, values) == [is |-> "leaf", key |-> k, op |-> op, values |-> values]
Group(is, of)       == [is |-> is, of |-> of]
MCRules    ==
  {[priority |-> 1, class |-> 1, trigger |-> <<Leaf("loss", "gte", <<<<"text", "3">>>>)>>],
   [priority |-> 1, class |-> 3,
    trigger |-> <<Leaf("loss", "exists", <<>>), Leaf("fraud", "ne", <<<<"boolean", FALSE>>>>),
                 Group("all", {1, 2})>>],
   [priority |-> 2, class |-> 2,
    trigger |-> <<Leaf("fraud", "eq", <<<<"text", "yes">>>>),
                 Leaf("loss", "in", <<<<"number", 1>>, <<"text", "5">>>>), Group("any", {1, 2})>>]}
MCFactKeys == {"loss", "fraud"}
MCFactSets ==
  {<<>>, "loss" :> <<"number", 5>>, "loss" :> <<"text", "5">>, "loss" :> Empty,
   "fraud" :> <<"boolean", TRUE>>,
   ("loss" :> <<"text", "5">>) @@ ("fraud" :> <<"text", "true">>),
   ("loss" :> <<"number", 1>>) @@ ("fraud" :> <<"text", "no">>)}
MCRangeTables == {Ranges(0, 3, 4, 6, 7, 10), Ranges(0, 2, 5, 6, 7, 10), Ranges(0, 3, 4, 6, 7, 9)}

Symmetric == Permutations(Admins)
===============================================================================
