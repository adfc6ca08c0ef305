----------------------------- MODULE MCAuditChain -----------------------------
(* AuditChain on two processes: a submit (three entries in one transaction), *)
(* a decision (one entry in a transaction) and two entries written outside   *)
(* transactions, one on each process.                                        *)
EXTENDS AuditChain, TLC

CONSTANTS p1, p2, submit, decide, denied, unmask

MCTwo    == {p1, p2}
MCOne    == {p1}
MCAll    == {submit, decide, denied, unmask}
MCInTx   == {submit, decide}
MCSpread == (submit :> p1) @@ (denied :> p1) @@ (decide :> p2) @@ (unmask :> p2)
MCSingle == [r \in MCAll |-> p1]
MCWrites == [r \in MCAll |-> IF r = submit THEN 2 ELSE 1]
===============================================================================
