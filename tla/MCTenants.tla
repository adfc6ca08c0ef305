----------------------------- MODULE MCTenants -----------------------------
\* One tenant with two accounts, one a system administrator at the start, the
\* other invited or signing up itself; four requests authenticated before or
\* after a demotion, two identities, two sectors, one document and one dataset;
\* and two tenants for the domain.
EXTENDS Tenants, TLC

CONSTANTS t1, t2, ann, bob, q1, q2, q3, q4, l1, l2, it, fin, i1, d1, dom

MCOneTenant == {t1}
MCTwoTenants == {t1, t2}
MCUsers == {ann, bob}
MCHomeOne == [u \in MCUsers |-> t1]
MCHomeTwo == [u \in MCUsers |-> IF u = ann THEN t1 ELSE t2]
MCRequests == {q1, q2, q3, q4}
MCTwoRequests == {q1, q2}
MCLogins == {l1, l2}
MCSectors == {it, fin}
MCItems == {i1}
MCDatasets == {d1}
MCDomains == {dom}
MCFounder == {ann}
Empty == {}
Symmetric == Permutations(MCRequests) \cup Permutations(MCLogins) \cup Permutations(MCSectors)
=============================================================================
