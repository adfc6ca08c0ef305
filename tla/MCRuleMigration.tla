---------------------------- MODULE MCRuleMigration ----------------------------
(* Two keys, two rule documents, two runs of the script, one of them killed.    *)
EXTENDS RuleMigration

CONSTANTS k1, k2, r1, r2

MCKeys == {k1, k2}
MCRuns == {r1, r2}
===============================================================================
