------------------------------ MODULE MCSessions ------------------------------
(* Sessions with two exchanges and one request at a time, on a paid tenant with *)
(* SSO whose user is promoted or becomes a demo identity, and on a free tenant  *)
(* that upgrades; and with three exchanges, or two requests at a time, on a     *)
(* free tenant.                                                              *)
EXTENDS Sessions, TLC

CONSTANTS l1, l2, l3, r1, r2, c1, c2

MCTwoLogins   == {l1, l2}
MCThreeLogins == {l1, l2, l3}
MCOneRequest  == {r1}
MCTwoRequests == {r1, r2}
MCCodes       == {c1, c2}

Acc(role, demo, plan, block) ==
  [role |-> role, active |-> TRUE, demo |-> demo, plan |-> plan, sso |-> plan = "paid",
   block |-> block]

MCAccounts ==
  { Acc("requestor", FALSE, "free", FALSE),
    Acc("requestor", FALSE, "paid", TRUE),
    Acc("audit", FALSE, "paid", FALSE),
    Acc("audit", FALSE, "paid", TRUE),
    Acc("audit", TRUE, "paid", FALSE),
    [Acc("requestor", FALSE, "paid", TRUE) EXCEPT !.active = FALSE] }
MCFree == {Acc("requestor", FALSE, "free", b) : b \in BOOLEAN}

Symmetric == Permutations(Logins) \cup Permutations(Requests) \cup Permutations(Codes)
===============================================================================
