-------------------------------- MODULE MCAccess --------------------------------
(* One assessment, one department, two members, a demo requestor and a demo       *)
(* auditor behind two visitors, all of whose accounts change, one cached report. *)
EXTENDS Access, TLC

CONSTANTS a1, fin, ann, bob, guest, inspector, v1, v2, r1

Requestor(active, departments, cross) ==
  [role |-> "requestor", active |-> active, departments |-> departments, cross |-> cross]
Auditor == [role |-> "audit", active |-> TRUE, departments |-> {}, cross |-> FALSE]

MCAssessments  == {a1}
MCDepartments  == {fin}
MCMembers      == {ann, bob}
MCGuests       == {guest, inspector}
MCVisitors     == {v1, v2}
MCAccounts     == (ann       :> {Requestor(TRUE, {}, FALSE), Requestor(TRUE, {fin}, FALSE),
                                 Requestor(TRUE, {}, TRUE), Requestor(FALSE, {fin}, FALSE)}
                @@ bob       :> {Requestor(TRUE, {fin}, FALSE), Auditor}
                @@ guest     :> {Requestor(TRUE, {fin}, FALSE), Requestor(TRUE, {}, FALSE),
                                 Requestor(TRUE, {fin}, TRUE)}
                @@ inspector :> {Auditor, Requestor(TRUE, {}, FALSE)})
MCGuestRole    == guest :> "requestor" @@ inspector :> "audit"
MCFeatureSets  == {{}, {"reviewDashboard", "reports"}}
MCRequests     == {r1}
===============================================================================
