---------------------------- MODULE MCChangeControl ----------------------------
(* One rule in two versions, one dataset with or without a sheet for it, two   *)
(* activation requests, three administrators.                               *)
EXTENDS ChangeControl, TLC

CONSTANTS k1, d1, r1, r2, ann, bob, cid

MCKeys     == {k1}
MCSheets   == {"above 100", "above 200"}
MCExtras   == {"none", "escalate"}
MCDatasets == {d1}
MCFiles    == {<<>>} \cup [{k1} -> {"above 200"}]
MCAdmins   == {ann, bob, cid}
MCRuns     == {r1, r2}
Symmetric  == Permutations(Admins) \cup Permutations(Runs)
===============================================================================
