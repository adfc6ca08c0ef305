-------------------------- MODULE AdministrationProofs --------------------------
(***************************************************************************)
(* Proofs about the administration of tenants and about the jobs that        *)
(* maintain what they stored: Tenants, Nightly and RuleMigration.  For any    *)
(* tenants, accounts, requests, sign-ins, sectors and datasets, roles fit    *)
(* the plan, no sector in use is removed, and an account keeps the identity   *)
(* it is bound to.  For any records, rules and runs, and any number of       *)
(* crashes and failed transactions within the bounds, enforcement is whole   *)
(* and happens once, there is no unprotected write window, and no rule is     *)
(* given a state it does not have.                                         *)
(***************************************************************************)
EXTENDS Tenants, Nightly, RuleMigration, TLAPS

-------------------------------------------------------------------------------
(* Tenants *)


Accounts == [role : Roles \cup {"none"}, status : {"active", "disabled"}, uid : Logins \cup {Invited}]
Settings == [plan : {"free", "paid"}, sectors : SUBSET Sectors, domain : Domains \cup {NoDomain}]
Uploads  == [status : {"none", "checked", "invalid", "validated", "rejected", "approved", "active", "failed"},
             sector : Sectors \cup {NoSector}]

\* What every action relies on of the shape of the state.
TenantsType ==
  /\ tenants \in [Tenants -> Settings]
  /\ users \in [Users -> Accounts]
  /\ requests \in [Requests -> [by : Users \cup {Nobody}, seen : SUBSET (Domains \cup {NoDomain})]]
  /\ logins \in [Logins -> Users \cup {Nobody}]
  /\ content \in [Items -> Sectors \cup {NoSector}]
  /\ datasets \in [Datasets -> Uploads]

TenantsInv == TenantsType /\ RolesFitPlan /\ NoStrandedSector

-------------------------------------------------------------------------------
(* One part of the state at a time *)

\* The documents and datasets belong to a tenant.
LEMMA OwnerIsTenant == Owner \in Tenants
BY TenantsAssumption DEF Owner

\* A change of one account to one whose role its plan allows.
LEMMA OneAccount ==
  ASSUME TenantsType, RolesFitPlan, NEW u \in Users, NEW x \in Accounts,
         x.role # "none" => Allowed(tenants[Home[u]].plan, x.role),
         users' = [users EXCEPT ![u] = x], UNCHANGED tenants
  PROVE  users' \in [Users -> Accounts] /\ RolesFitPlan'
<1>1. \A v \in Users : users'[v] = IF v = u THEN x ELSE users[v]
  BY DEF TenantsType
<1> QED
  BY <1>1 DEF TenantsType, RolesFitPlan, Exists

\* A change of one dataset that keeps it within the sectors of its tenant while it may be applied.
LEMMA OneDataset ==
  ASSUME TenantsType, NoStrandedSector, NEW d \in Datasets, NEW x \in Uploads,
         x.status \in {"validated", "approved"} => x.sector \in tenants[Owner].sectors \cup {NoSector},
         datasets' = [datasets EXCEPT ![d] = x], UNCHANGED <<tenants, content>>
  PROVE  datasets' \in [Datasets -> Uploads] /\ NoStrandedSector'
<1>1. \A e \in Datasets : datasets'[e] = IF e = d THEN x ELSE datasets[e]
  BY DEF TenantsType
<1> QED
  BY <1>1 DEF TenantsType, NoStrandedSector, InUse, Pending

-------------------------------------------------------------------------------
(* Every step *)

\* The start: founders of tenants that pay, and nothing that names a sector.
LEMMA InitTenantsInv ==
  TenantsInit => TenantsInv
<1> SUFFICES ASSUME TenantsInit PROVE TenantsInv
  OBVIOUS
<1>1. TenantsType
  BY DEF TenantsInit, TenantsType, NoAccount, NoRequest, Accounts, Settings, Uploads, Roles
<1>2. RolesFitPlan
  BY TenantsAssumption DEF TenantsInit, RolesFitPlan, Allowed
<1>3. NoStrandedSector
  BY DEF TenantsInit, NoStrandedSector, InUse, Pending
<1> QED
  BY <1>1, <1>2, <1>3 DEF TenantsInv

\* PATCH /system/tenant frees a tenant of its managed roles only when it has none, and of its
\* sectors only when they are not in use.
LEMMA PatchKeeps ==
  ASSUME TenantsInv, NEW q \in Requests, NEW p \in {"free", "paid"}, NEW sectors \in SUBSET Sectors,
         NEW domain \in Domains \cup {NoDomain}, PatchTenant(q, p, sectors, domain)
  PROVE  TenantsInv'
<1> DEFINE t == Home[requests[q].by]
           x == [plan |-> p, sectors |-> sectors, domain |-> domain]
<1>1. t \in Tenants /\ x \in Settings
  BY TenantsAssumption DEF TenantsInv, TenantsType, PatchTenant, Settings
<1>2. /\ tenants' = [tenants EXCEPT ![t] = x]
      /\ UNCHANGED <<users, logins, content, datasets>> /\ Done(q)
      /\ (p = "free" /\ tenants[t].plan # "free") =>
           \A u \in Users : (Exists(u) /\ Home[u] = t) => users[u].role = "requestor"
      /\ t = Owner => (tenants[t].sectors \ sectors) \cap InUse = {}
  BY DEF PatchTenant
<1> HIDE DEF t
<1>3. \A s \in Tenants : tenants'[s] = IF s = t THEN x ELSE tenants[s]
  BY <1>2 DEF TenantsInv, TenantsType
<1>4. TenantsType'
  BY <1>1, <1>2 DEF TenantsInv, TenantsType, Done, NoRequest
<1>5. RolesFitPlan'
  <2> SUFFICES ASSUME NEW u \in Users, Exists(u), tenants'[Home[u]].plan = "free"
               PROVE  users[u].role = "requestor"
    BY <1>2 DEF RolesFitPlan, Exists, Allowed
  <2>1. Home[u] \in Tenants
    BY TenantsAssumption
  <2>2. tenants[Home[u]].plan = "free" => users[u].role = "requestor"
    BY DEF TenantsInv, RolesFitPlan, Allowed
  <2> QED
    BY <1>2, <1>3, <2>1, <2>2
<1>6. NoStrandedSector'
  <2>1. InUse' = InUse
    BY <1>2 DEF InUse, Pending
  <2>2. CASE t = Owner
    <3>1. tenants'[Owner].sectors = sectors
      BY <1>1, <1>3, <2>2
    <3> QED
      BY <1>2, <2>1, <2>2, <3>1 DEF TenantsInv, NoStrandedSector
  <2>3. CASE t # Owner
    BY <1>3, <2>1, <2>3, OwnerIsTenant DEF TenantsInv, NoStrandedSector
  <2> QED
    BY <2>2, <2>3
<1> QED
  BY <1>4, <1>5, <1>6 DEF TenantsInv

\* Requests about accounts.
LEMMA AdministerKeeps ==
  ASSUME TenantsInv, NEW q \in Requests, Administer(q)
  PROVE  TenantsInv'
<1>1. ASSUME NEW u \in Users, Authenticate(q, u) PROVE TenantsInv'
  <2>1. {tenants[t].domain : t \in Tenants \ {Home[u]}} \subseteq Domains \cup {NoDomain}
    BY DEF TenantsInv, TenantsType, Settings
  <2> QED
    BY <1>1, <2>1 DEF Authenticate, TenantsInv, TenantsType, RolesFitPlan, Exists, NoStrandedSector, InUse, Pending
<1>2. ASSUME Refuse(q) PROVE TenantsInv'
  BY <1>2 DEF Refuse, Done, NoRequest, TenantsInv, TenantsType, RolesFitPlan, Exists, NoStrandedSector, InUse, Pending
<1>3. ASSUME NEW u \in Users, NEW role \in Roles, CreateUser(q, u, role) PROVE TenantsInv'
  <2> DEFINE x == [NoAccount EXCEPT !.role = role]
  <2>1. x \in Accounts /\ x.role = role
    BY DEF Accounts, NoAccount
  <2>2. /\ users' = [users EXCEPT ![u] = x] /\ Allowed(tenants[Home[u]].plan, role)
        /\ UNCHANGED <<tenants, logins, content, datasets>> /\ Done(q)
    BY <1>3 DEF CreateUser
  <2> HIDE DEF x
  <2>3. users' \in [Users -> Accounts] /\ RolesFitPlan'
    BY <2>1, <2>2, OneAccount DEF TenantsInv
  <2> QED
    BY <2>2, <2>3 DEF TenantsInv, TenantsType, Done, NoRequest, NoStrandedSector, InUse, Pending
<1>4. ASSUME NEW u \in Users, NEW role \in Roles, NEW status \in {"active", "disabled"},
             UpdateUser(q, u, role, status)
      PROVE  TenantsInv'
  <2> DEFINE x == [users[u] EXCEPT !.role = role, !.status = status]
  <2>1. x \in Accounts /\ x.role = role
    <3>1. users[u] \in Accounts
      BY DEF TenantsInv, TenantsType
    <3> QED
      BY <3>1 DEF Accounts
  <2>2. /\ users' = [users EXCEPT ![u] = x] /\ Allowed(tenants[Home[u]].plan, role)
        /\ UNCHANGED <<tenants, logins, content, datasets>> /\ Done(q)
    BY <1>4 DEF UpdateUser
  <2> HIDE DEF x
  <2>3. users' \in [Users -> Accounts] /\ RolesFitPlan'
    BY <2>1, <2>2, OneAccount DEF TenantsInv
  <2> QED
    BY <2>2, <2>3 DEF TenantsInv, TenantsType, Done, NoRequest, NoStrandedSector, InUse, Pending
<1> QED
  BY <1>1, <1>2, <1>3, <1>4, PatchKeeps DEF Administer

\* Signing in changes no role.
LEMMA SignInKeeps ==
  ASSUME TenantsInv, NEW l \in Logins, SignIn(l)
  PROVE  TenantsInv'
<1>1. ASSUME (\E u \in Users : Resolve(l, u)) \/ GiveUp(l) PROVE TenantsInv'
  BY <1>1 DEF Resolve, GiveUp, TenantsInv, TenantsType, RolesFitPlan, Exists, NoStrandedSector, InUse, Pending
<1>2. ASSUME NEW u \in Users, SelfSignup(l, u) PROVE TenantsInv'
  <2> DEFINE x == [NoAccount EXCEPT !.role = "requestor", !.uid = l]
  <2>1. x \in Accounts /\ Allowed(tenants[Home[u]].plan, x.role)
    BY DEF Accounts, NoAccount, Roles, Allowed
  <2>2. /\ users' = [users EXCEPT ![u] = x] /\ logins' = [logins EXCEPT ![l] = u]
        /\ UNCHANGED <<tenants, requests, content, datasets>>
    BY <1>2 DEF SelfSignup
  <2> HIDE DEF x
  <2>3. users' \in [Users -> Accounts] /\ RolesFitPlan'
    BY <2>1, <2>2, OneAccount DEF TenantsInv
  <2> QED
    BY <2>2, <2>3 DEF TenantsInv, TenantsType, NoStrandedSector, InUse, Pending
<1>3. ASSUME Finalize(l) PROVE TenantsInv'
  <2> DEFINE u == logins[l]
             x == [users[u] EXCEPT !.uid = l]
  <2>1. u \in Users /\ users[u] \in Accounts
    BY <1>3 DEF Finalize, TenantsInv, TenantsType
  <2>2. x \in Accounts /\ x.role = users[u].role
    BY <2>1 DEF Accounts
  <2>3. /\ users' = [users EXCEPT ![u] = x] /\ logins' = [logins EXCEPT ![l] = Nobody]
        /\ UNCHANGED <<tenants, requests, content, datasets>>
    BY <1>3 DEF Finalize
  <2>4. x.role # "none" => Allowed(tenants[Home[u]].plan, x.role)
    BY <2>1, <2>2 DEF TenantsInv, RolesFitPlan, Exists
  <2> HIDE DEF u, x
  <2>5. users' \in [Users -> Accounts] /\ RolesFitPlan'
    BY <2>1, <2>2, <2>3, <2>4, OneAccount DEF TenantsInv
  <2> QED
    BY <2>3, <2>5 DEF TenantsInv, TenantsType, NoStrandedSector, InUse, Pending
<1> QED
  BY <1>1, <1>2, <1>3 DEF SignIn

\* A dataset is stored, reviewed and applied; content is written.
LEMMA ContentKeeps ==
  ASSUME TenantsInv, \/ \E d \in Datasets : Apply(d)
               \/ \E i \in Items, s \in Sectors : WriteContent(i, s)
  PROVE  TenantsInv'
<1>1. SUFFICES ASSUME content' \in [Items -> Sectors \cup {NoSector}], datasets' \in [Datasets -> Uploads],
                      NoStrandedSector', UNCHANGED <<tenants, users, requests, logins>>
               PROVE  TenantsInv'
  <2>1. ASSUME NEW i \in Items, NEW s \in Sectors, WriteContent(i, s) PROVE TenantsInv'
    <3>1. \A j \in Items : content'[j] = IF j = i THEN s ELSE content[j]
      BY <2>1 DEF WriteContent, TenantsInv, TenantsType
    <3>2. s \in tenants[Owner].sectors /\ UNCHANGED <<tenants, datasets>>
      BY <2>1 DEF WriteContent, Configured
    <3>3. NoStrandedSector'
      BY <3>1, <3>2 DEF TenantsInv, NoStrandedSector, InUse, Pending
    <3> QED
      BY <1>1, <2>1, <3>3 DEF WriteContent, TenantsInv, TenantsType
  <2>2. ASSUME NEW d \in Datasets, NEW x \in Uploads,
               x.status \in {"validated", "approved"} => x.sector \in tenants[Owner].sectors \cup {NoSector},
               datasets' = [datasets EXCEPT ![d] = x],
               UNCHANGED <<tenants, users, requests, logins, content>>
        PROVE  TenantsInv'
    BY <1>1, <2>2, OneDataset DEF TenantsInv, TenantsType
  <2>3. ASSUME NEW d \in Datasets, NEW s \in Sectors, Preflight(d, s) PROVE TenantsInv'
    <3> DEFINE x == [status |-> IF Configured(s) THEN "checked" ELSE "invalid", sector |-> s]
    <3>1. x \in Uploads /\ x.status \notin {"validated", "approved"}
      BY DEF Uploads
    <3>2. datasets' = [datasets EXCEPT ![d] = x] /\ UNCHANGED <<tenants, users, requests, logins, content>>
      BY <2>3 DEF Preflight
    <3> HIDE DEF x
    <3> QED
      BY <2>2, <3>1, <3>2
  <2>4. ASSUME NEW d \in Datasets, Store(d) \/ Approve(d) \/ FailActivation(d) PROVE TenantsInv'
    <3>1. PICK status \in {"validated", "rejected", "approved", "failed"} :
            /\ datasets' = [datasets EXCEPT ![d].status = status]
            /\ status \in {"validated", "approved"} =>
                 Configured(datasets[d].sector) \/ datasets[d].status = "validated"
      BY <2>4 DEF Store, Approve, FailActivation, SetDataset
    <3> DEFINE x == [datasets[d] EXCEPT !.status = status]
    <3>2. datasets[d] \in Uploads
      BY DEF TenantsInv, TenantsType
    <3>3. x \in Uploads /\ x.status = status /\ x.sector = datasets[d].sector
      BY <3>1, <3>2 DEF Uploads
    <3>4. datasets[d].status = "validated" => datasets[d].sector \in tenants[Owner].sectors \cup {NoSector}
      BY DEF TenantsInv, NoStrandedSector, InUse, Pending
    <3>5. datasets' = [datasets EXCEPT ![d] = x]
      BY <3>1
    <3> HIDE DEF x
    <3> QED
      BY <2>2, <2>4, <3>1, <3>3, <3>4, <3>5 DEF Store, Approve, FailActivation, Configured
  <2>5. ASSUME NEW d \in Datasets, NEW i \in Items, Activate(d, i) PROVE TenantsInv'
    <3> DEFINE s == datasets[d].sector
    <3>1. datasets[d] \in Uploads
      BY DEF TenantsInv, TenantsType
    <3>2. /\ content' = [content EXCEPT ![i] = s] /\ s \in tenants[Owner].sectors
          /\ datasets' = [datasets EXCEPT ![d].status = "active"]
          /\ UNCHANGED <<tenants, users, requests, logins>>
      BY <2>5 DEF Activate, Configured, SetDataset
    <3>3. s \in Sectors \cup {NoSector}
      BY <3>1 DEF Uploads
    <3> HIDE DEF s
    <3>4. content' \in [Items -> Sectors \cup {NoSector}] /\ datasets' \in [Datasets -> Uploads]
      BY <3>1, <3>2, <3>3 DEF TenantsInv, TenantsType, Uploads
    <3>5. \A j \in Items : content'[j] = IF j = i THEN s ELSE content[j]
      BY <3>2 DEF TenantsInv, TenantsType
    <3>6. \A e \in Datasets : Pending(e)' => Pending(e) /\ datasets'[e].sector = datasets[e].sector
      BY <3>1, <3>2 DEF TenantsInv, TenantsType, Pending, Uploads
    <3>7. NoStrandedSector'
      BY <3>2, <3>5, <3>6 DEF TenantsInv, NoStrandedSector, InUse
    <3> QED
      BY <1>1, <3>2, <3>4, <3>7
  <2> QED
    BY <2>1, <2>3, <2>4, <2>5 DEF Apply
<1> QED
  BY <1>1 DEF TenantsInv, TenantsType, RolesFitPlan, Exists

\* An account that does not exist is bound to nobody, and no sign-in has resolved it.
Unbound ==
  /\ \A u \in Users : ~Exists(u) => users[u].uid = Invited
  /\ \A l \in Logins : logins[l] # Nobody => Exists(logins[l])

\* Accounts stay, and stay bound.
AccountsStay ==
  \A u \in Users : /\ users[u].uid # Invited => users'[u].uid = users[u].uid
                   /\ ~Exists(u)' => users'[u].uid = Invited
                   /\ Exists(u) => Exists(u)'

\* Every step.
LEMMA StepAccounts ==
  TenantsType /\ Unbound /\ [TenantsNext]_tenantsVars => AccountsStay
<1> SUFFICES ASSUME TenantsType, Unbound, [TenantsNext]_tenantsVars PROVE AccountsStay
  OBVIOUS
<1>1. ASSUME UNCHANGED users PROVE AccountsStay
  BY <1>1 DEF Unbound, AccountsStay, Exists
<1>2. ASSUME NEW u \in Users, NEW x \in Accounts, users' = [users EXCEPT ![u] = x],
             users[u].uid = Invited \/ x.uid = users[u].uid, x.role # "none"
      PROVE  AccountsStay
  <2>1. \A v \in Users : users'[v] = IF v = u THEN x ELSE users[v]
    BY <1>2 DEF TenantsType
  <2> QED
    BY <1>2, <2>1 DEF Unbound, AccountsStay, Exists
<1>3. ASSUME NEW q \in Requests, Administer(q) PROVE AccountsStay
  <2>1. ASSUME NEW u \in Users, NEW role \in Roles, CreateUser(q, u, role) PROVE AccountsStay
    <3> DEFINE x == [NoAccount EXCEPT !.role = role]
    <3>1. x \in Accounts /\ x.role # "none"
      BY DEF Accounts, NoAccount, Roles
    <3>2. users' = [users EXCEPT ![u] = x] /\ users[u].uid = Invited
      BY <2>1 DEF CreateUser, Unbound
    <3> HIDE DEF x
    <3> QED
      BY <1>2, <3>1, <3>2
  <2>2. ASSUME NEW u \in Users, NEW role \in Roles, NEW status \in {"active", "disabled"},
               UpdateUser(q, u, role, status)
        PROVE  AccountsStay
    <3> DEFINE x == [users[u] EXCEPT !.role = role, !.status = status]
    <3>1. users[u] \in Accounts
      BY DEF TenantsType
    <3>2. x \in Accounts /\ x.role # "none" /\ x.uid = users[u].uid
      BY <3>1 DEF Accounts, Roles
    <3>3. users' = [users EXCEPT ![u] = x]
      BY <2>2 DEF UpdateUser
    <3> HIDE DEF x
    <3> QED
      BY <1>2, <3>2, <3>3
  <2> QED
    BY <1>1, <1>3, <2>1, <2>2 DEF Administer, Authenticate, Refuse, PatchTenant
<1>4. ASSUME NEW l \in Logins, SignIn(l) PROVE AccountsStay
  <2>1. ASSUME NEW u \in Users, SelfSignup(l, u) PROVE AccountsStay
    <3> DEFINE x == [NoAccount EXCEPT !.role = "requestor", !.uid = l]
    <3>1. x \in Accounts /\ x.role # "none"
      BY DEF Accounts, NoAccount, Roles
    <3>2. users' = [users EXCEPT ![u] = x] /\ users[u].uid = Invited
      BY <2>1 DEF SelfSignup, Unbound
    <3> HIDE DEF x
    <3> QED
      BY <1>2, <3>1, <3>2
  <2>2. ASSUME Finalize(l) PROVE AccountsStay
    <3> DEFINE u == logins[l]
               x == [users[u] EXCEPT !.uid = l]
    <3>1. u \in Users /\ users[u] \in Accounts /\ users[u].uid \in {l, Invited}
          /\ users' = [users EXCEPT ![u] = x]
      BY <2>2 DEF Finalize, TenantsType
    <3>2. x \in Accounts /\ x.role = users[u].role /\ x.uid = l
      BY <3>1 DEF Accounts
    <3>3. users[u].role # "none"
      BY <2>2 DEF Finalize, Unbound, Exists
    <3> HIDE DEF u, x
    <3> QED
      BY <1>2, <3>1, <3>2, <3>3
  <2> QED
    BY <1>1, <1>4, <2>1, <2>2 DEF SignIn, Resolve, GiveUp
<1>5. ASSUME \/ \E d \in Datasets : Apply(d)
             \/ \E i \in Items, s \in Sectors : WriteContent(i, s)
      PROVE  AccountsStay
  BY <1>1, <1>5 DEF Apply, Preflight, Store, Approve, Activate, FailActivation, SetDataset, WriteContent
<1> QED
  BY <1>1, <1>3, <1>4, <1>5 DEF TenantsNext, tenantsVars

\* What a sign-in has resolved exists and goes on to exist.
LEMMA NextUnbound ==
  TenantsType /\ Unbound /\ [TenantsNext]_tenantsVars => Unbound'
<1> SUFFICES ASSUME TenantsType, Unbound, [TenantsNext]_tenantsVars PROVE Unbound'
  OBVIOUS
<1>1. AccountsStay
  BY StepAccounts
<1>2. ASSUME NEW l \in Logins, logins'[l] # Nobody PROVE users'[logins'[l]].role # "none"
  <2>1. logins[l] \in Users \cup {Nobody}
    BY DEF TenantsType
  <2>2. CASE logins'[l] = logins[l]
    BY <1>1, <1>2, <2>1, <2>2 DEF Unbound, AccountsStay, Exists
  <2>3. CASE logins'[l] # logins[l]
    <3>1. PICK m \in Logins : SignIn(m)
      BY ZenonT(30), <2>3 DEF TenantsNext, tenantsVars, Administer, Authenticate, Refuse, CreateUser, UpdateUser,
           PatchTenant, Apply, Preflight, Store, Approve, Activate,
           FailActivation, SetDataset, WriteContent
    <3>2. PICK u \in Users : Resolve(m, u) \/ SelfSignup(m, u)
      BY <1>2, <2>3, <3>1 DEF TenantsType, SignIn, Finalize, GiveUp
    <3>3. m = l /\ logins'[l] = u
      BY <2>3, <3>2 DEF TenantsType, Resolve, SelfSignup
    <3>4. CASE Resolve(m, u)
      BY <3>3, <3>4 DEF Resolve, Exists
    <3>5. CASE SelfSignup(m, u)
      <4>1. users' = [users EXCEPT ![u] = [NoAccount EXCEPT !.role = "requestor", !.uid = m]]
        BY <3>5 DEF SelfSignup
      <4> QED
        BY <3>3, <4>1 DEF TenantsType, NoAccount
    <3> QED
      BY <3>2, <3>4, <3>5
  <2> QED
    BY <2>2, <2>3
<1> QED
  BY <1>1, <1>2 DEF Unbound, AccountsStay, Exists

\* IInv is inductive.
LEMMA NextTenantsInv ==
  TenantsInv /\ [TenantsNext]_tenantsVars => TenantsInv'
<1> SUFFICES ASSUME TenantsInv, [TenantsNext]_tenantsVars PROVE TenantsInv'
  OBVIOUS
<1>1. CASE UNCHANGED tenantsVars
  BY <1>1 DEF tenantsVars, TenantsInv, TenantsType, RolesFitPlan, Exists, NoStrandedSector, InUse, Pending
<1>2. CASE TenantsNext
  BY <1>2, AdministerKeeps, SignInKeeps, ContentKeeps DEF TenantsNext
<1> QED
  BY <1>1, <1>2

-------------------------------------------------------------------------------
(* The theorems *)

\* The induction of the theorems that follow.
LEMMA AlwaysTenantsInv ==
  TenantsSpec => []TenantsInv
BY InitTenantsInv, NextTenantsInv, PTL DEF TenantsSpec

\* However many administrators' requests are under way while plans change and accounts sign up, a
\* FREE tenant has requestors only.
THEOREM AlwaysRolesFitPlan ==
  TenantsSpec => []RolesFitPlan
<1>1. TenantsInv => RolesFitPlan
  BY DEF TenantsInv
<1> QED
  BY <1>1, AlwaysTenantsInv, PTL

\* However uploads, reviews, activations and edits interleave with changes of the settings, what
\* names a sector names one its tenant has.
THEOREM AlwaysNoStrandedSector ==
  TenantsSpec => []NoStrandedSector
<1>1. TenantsInv => NoStrandedSector
  BY DEF TenantsInv
<1> QED
  BY <1>1, AlwaysTenantsInv, PTL

\* An account that is bound keeps its identity, however many identities resolved it.
THEOREM AlwaysBoundOnce ==
  TenantsSpec => BoundOnce
<1>1. TenantsInit => TenantsType /\ Unbound
  BY InitTenantsInv DEF TenantsInv, TenantsInit, Unbound, NoAccount
<1>2. TenantsInv /\ Unbound /\ [TenantsNext]_tenantsVars => Unbound'
  BY NextUnbound DEF TenantsInv
<1>3. TenantsInv /\ Unbound /\ [TenantsNext]_tenantsVars => [KeepsIdentity]_users
  BY StepAccounts DEF TenantsInv, AccountsStay, KeepsIdentity
<1> QED
  BY <1>1, <1>2, <1>3, AlwaysTenantsInv, PTL DEF TenantsSpec, BoundOnce

-------------------------------------------------------------------------------
(* Nightly *)

Modes == {"none", "archived", "reduced"}
Documents == [status : {"in_progress", "awaiting", "closed"}, result : BOOLEAN, decision : BOOLEAN,
              age : Int, flagged : Int, enforced : BOOLEAN, recorded : BOOLEAN, mode : Modes,
              body : BOOLEAN]

RunRecords == [at : {"idle", "find", "flag", "due", "enforce", "scan", "report"},
               plan : Plans, lag : Nat, todo : SUBSET Records]

TypeInv ==
  /\ docs \in [Records -> Documents] /\ messages \subseteq Records
  /\ archives \in [Records -> {"none", "full", "partial"}] /\ entries \in [Records -> {0, 1}]
  /\ runs \in [Runs -> RunRecords]

\* A record is as it was written, or it was marked as enforced in one mode and for good; when
\* that is recorded, it was reduced whole.
Whole(d, transcript, copy, n) ==
  /\ ~d.enforced => d.body /\ d.mode = "none" /\ ~d.recorded /\ n = 0 /\ transcript /\ copy = "none"
  /\ d.enforced => d.mode # "none" /\ copy # "partial"
  /\ d.recorded => n = 1 /\ ~d.body /\ ~transcript /\ (d.mode = "archived" => copy = "full")

WholeInv == \A r \in Records : Whole(docs[r], r \in messages, archives[r], entries[r])

IInv == TypeInv /\ WholeInv

\* What enforcement is about in a document.
Same(d, e) == /\ d.enforced = e.enforced /\ d.recorded = e.recorded
              /\ d.mode = e.mode /\ d.body = e.body

-------------------------------------------------------------------------------

\* What the application and earlier releases wrote.
LEMMA InitIInv ==
  Init => IInv
<1>1. /\ Fresh \in Documents /\ ~Fresh.recorded /\ Fresh.body /\ ~Fresh.enforced
      /\ Fresh.mode = "none"
  BY DEF Fresh, Documents, Modes, Unflagged
<1>2. \A d \in {Fresh} \cup Legacy : d \in Documents /\ ~d.recorded /\ d.body /\ ~d.enforced /\ d.mode = "none"
  BY <1>1 DEF Legacy, Documents
<1>3. ASSUME NEW l \in Leftovers
      PROVE  /\ l.transcript \in BOOLEAN /\ l.copy \in {"none", "full"} /\ l.entry \in {0, 1}
             /\ Interrupted(l) \in Documents /\ ~Interrupted(l).recorded
             /\ Interrupted(l).enforced /\ Interrupted(l).mode # "none"
  <2>1. l \in [mode : {"archived", "reduced"}, body : BOOLEAN, transcript : BOOLEAN,
               copy : {"none", "full"}, entry : {0, 1}]
    BY NightlyAssumption
  <2>2. Window \in Nat /\ MaxLag \in Nat /\ Grace \in Nat
    BY NightlyAssumption
  <2>3. Window + MaxLag \in Int /\ Grace + MaxLag \in Int
    BY <2>2
  <2> QED
    BY <1>1, <2>1, <2>3 DEF Interrupted, Documents, Modes
<1> SUFFICES ASSUME NEW left \in [HalfEnforced -> Leftovers],
                    NEW other \in [Records \ HalfEnforced -> {Fresh} \cup Legacy],
                    docs = [r \in Records |-> IF r \in HalfEnforced THEN Interrupted(left[r]) ELSE other[r]],
                    messages = {r \in Records : r \in HalfEnforced => left[r].transcript},
                    archives = [r \in Records |-> IF r \in HalfEnforced THEN left[r].copy ELSE "none"],
                    entries = [r \in Records |-> IF r \in HalfEnforced THEN left[r].entry ELSE 0],
                    runs = [p \in Runs |-> Idle]
             PROVE  IInv
  BY DEF Init
<1>4. ASSUME NEW r \in Records
      PROVE  /\ docs[r] \in Documents /\ archives[r] \in {"none", "full"} /\ entries[r] \in {0, 1}
             /\ Whole(docs[r], r \in messages, archives[r], entries[r])
  <2>1. CASE r \in HalfEnforced
    <3>1. left[r] \in Leftovers
      BY <2>1
    <3>2. docs[r] = Interrupted(left[r]) /\ archives[r] = left[r].copy /\ entries[r] = left[r].entry
      BY <2>1
    <3> QED
      BY <3>1, <3>2, <1>3 DEF Whole
  <2>2. CASE r \notin HalfEnforced
    <3>1. other[r] \in {Fresh} \cup Legacy
      BY <2>2
    <3>2. docs[r] = other[r] /\ archives[r] = "none" /\ entries[r] = 0 /\ r \in messages
      BY <2>2
    <3> QED
      BY <3>1, <3>2, <1>2 DEF Whole
  <2> QED
    BY <2>1, <2>2
<1>5. TypeInv
  <2>1. docs \in [Records -> Documents] /\ messages \subseteq Records
    BY <1>4
  <2>2. archives \in [Records -> {"none", "full", "partial"}] /\ entries \in [Records -> {0, 1}]
    BY <1>4
  <2>3. runs \in [Runs -> RunRecords]
    BY DEF Idle, Plans, RunRecords
  <2> QED
    BY <2>1, <2>2, <2>3 DEF TypeInv
<1> QED
  BY <1>4, <1>5 DEF IInv, WholeInv

\* Nothing about enforcement changes in any record.
LEMMA OtherFields ==
  ASSUME IInv, TypeInv', \A r \in Records : Same(docs'[r], docs[r]), UNCHANGED <<messages, archives, entries>>
  PROVE  IInv'
BY DEF IInv, WholeInv, Whole, Same

\* The transaction of one record, whether it enforces or repairs.
LEMMA EnforcedIsWhole ==
  ASSUME IInv, NEW p \in Runs, NEW r \in Records, Due(p, r), ~ColdCopyMissing(p, r),
         Enforced(p, r), runs' \in [Runs -> RunRecords]
  PROVE  IInv'
<1> DEFINE doc  == docs[r]
           mode == ModeOf(p, doc)
           copy == IF doc.body /\ r \in messages THEN "full" ELSE "partial"
           next == Reduced(doc, mode)
<1>1. /\ archives' = IF mode = "archived" /\ ~doc.enforced /\ archives[r] = "none"
                     THEN [archives EXCEPT ![r] = copy] ELSE archives
      /\ messages' = messages \ {r}
      /\ docs' = [docs EXCEPT ![r] = next]
      /\ entries' = IF doc.enforced /\ entries[r] > 0 THEN entries
                    ELSE [entries EXCEPT ![r] = @ + 1]
  BY DEF Enforced
<1>2. doc \in Documents /\ ~doc.recorded /\ Whole(doc, r \in messages, archives[r], entries[r])
  BY DEF IInv, TypeInv, WholeInv, Due
<1>3. mode \in {"archived", "reduced"} /\ (doc.enforced => mode = doc.mode)
  BY <1>2 DEF Documents, Modes, Whole, ModeOf
<1> HIDE DEF mode
<1>4. next \in Documents /\ ~next.body /\ next.enforced /\ next.recorded /\ next.mode = mode
  BY <1>2, <1>3 DEF Reduced, Documents, Modes
<1>5. mode = "archived" => archives'[r] = "full"
  <2>1. CASE doc.enforced
    <3>1. mode = "archived" => archives[r] # "none"
      BY <2>1 DEF ColdCopyMissing, mode
    <3>2. archives[r] \in {"none", "full", "partial"}
      BY DEF IInv, TypeInv
    <3> QED
      BY <1>1, <1>2, <2>1, <3>1, <3>2 DEF Whole
  <2>2. CASE ~doc.enforced
    BY <1>1, <1>2, <2>2 DEF Whole, IInv, TypeInv
  <2> QED
    BY <2>1, <2>2
<1>5a. mode = "reduced" => archives'[r] # "partial"
  <2>1. archives[r] # "partial"
    BY <1>2 DEF Whole
  <2> QED
    BY <1>1, <2>1
<1>6. entries'[r] = 1
  <2>1. entries[r] \in {0, 1}
    BY DEF IInv, TypeInv
  <2> QED
    BY <1>1, <1>2, <2>1 DEF Whole, IInv, TypeInv
<1>7. r \notin messages'
  BY <1>1
<1> HIDE DEF next
<1>8. docs'[r] = next
  BY <1>1 DEF IInv, TypeInv
<1>9. \A q \in Records \ {r} : /\ docs'[q] = docs[q] /\ archives'[q] = archives[q]
                               /\ entries'[q] = entries[q] /\ (q \in messages' <=> q \in messages)
  BY <1>1 DEF IInv, TypeInv
<1>10. TypeInv'
  <2>1. docs' \in [Records -> Documents]
    BY <1>1, <1>4 DEF IInv, TypeInv
  <2>2. archives' \in [Records -> {"none", "full", "partial"}]
    BY <1>1 DEF IInv, TypeInv
  <2>3. entries' \in [Records -> {0, 1}]
    BY <1>1, <1>6 DEF IInv, TypeInv
  <2> QED
    BY <1>1, <2>1, <2>2, <2>3 DEF IInv, TypeInv
<1>11. WholeInv'
  <2>1. Whole(docs'[r], r \in messages', archives'[r], entries'[r])
    BY <1>4, <1>5, <1>5a, <1>6, <1>7, <1>8, <1>3 DEF Whole
  <2> QED
    BY <1>9, <2>1 DEF IInv, WholeInv
<1> QED
  BY <1>10, <1>11 DEF IInv

\* A day passes, a record moves through its life, a run flags.
LEMMA DocumentsKeep ==
  ASSUME IInv, NewDay \/ (\E r \in Records : Submit(r) \/ Close(r)) \/ (\E p \in Runs : Flag(p))
  PROVE  IInv'
<1>1. ASSUME NewDay PROVE IInv'
  <2>1. ASSUME NEW r \in Records PROVE docs'[r] \in Documents /\ Same(docs'[r], docs[r])
    <3>1. docs[r] \in Documents
      BY DEF IInv, TypeInv
    <3> DEFINE a == CapTo(docs[r].age + 1, Window + MaxLag)
               f == IF docs[r].flagged = Unflagged THEN docs[r].flagged
                    ELSE CapTo(docs[r].flagged + 1, Grace + MaxLag)
    <3>2. docs'[r] = [docs[r] EXCEPT !.age = a, !.flagged = f]
      BY <1>1 DEF NewDay
    <3>3. a \in Int /\ f \in Int
      <4>1. Window \in Nat /\ MaxLag \in Nat /\ Grace \in Nat
        BY NightlyAssumption
      <4> QED
        BY <3>1, <4>1 DEF Documents, CapTo
    <3> HIDE DEF a, f
    <3> QED
      BY <3>1, <3>2, <3>3 DEF Documents, Same
  <2>2. ASSUME NEW p \in Runs
        PROVE  runs'[p] \in RunRecords
    <3>1. runs'[p] = IF runs[p].at = "idle" THEN Idle ELSE [runs[p] EXCEPT !.lag = runs[p].lag + 1]
      BY <1>1 DEF NewDay
    <3>2. runs[p] \in RunRecords
      BY DEF IInv, TypeInv
    <3> QED
      BY <3>1, <3>2 DEF Idle, Plans, RunRecords
  <2>3. /\ docs' \in [Records -> Documents]
        /\ runs' \in [Runs -> RunRecords]
    BY <1>1, <2>1, <2>2 DEF NewDay
  <2> QED
    BY <1>1, <2>1, <2>3, OtherFields DEF NewDay, IInv, TypeInv
<1>2. ASSUME NEW r \in Records, Submit(r) \/ Close(r) PROVE IInv'
  <2>1. docs[r] \in Documents
    BY DEF IInv, TypeInv
  <2>2. PICK d \in Documents : docs' = [docs EXCEPT ![r] = d] /\ Same(d, docs[r])
    <3>1. CASE Submit(r)
      <4> DEFINE d == [docs[r] EXCEPT !.status = "awaiting", !.result = TRUE]
      <4>1. d \in Documents /\ Same(d, docs[r])
        BY <2>1 DEF Documents, Same
      <4> QED
        BY <3>1, <4>1 DEF Submit
    <3>2. CASE Close(r)
      <4> DEFINE d == [docs[r] EXCEPT !.status = "closed", !.decision = TRUE]
      <4>1. d \in Documents /\ Same(d, docs[r])
        BY <2>1 DEF Documents, Same
      <4> QED
        BY <3>2, <4>1 DEF Close
    <3> QED
      BY <1>2, <3>1, <3>2
  <2>3. docs' \in [Records -> Documents] /\ \A q \in Records : Same(docs'[q], docs[q])
    BY <2>2 DEF IInv, TypeInv, Same
  <2> QED
    BY <1>2, <2>3, OtherFields DEF Submit, Close, IInv, TypeInv
<1>3. ASSUME NEW p \in Runs, Flag(p) PROVE IInv'
  <2>1. ASSUME NEW r \in Records PROVE docs'[r] \in Documents /\ Same(docs'[r], docs[r])
    <3>1. docs[r] \in Documents /\ runs[p].lag \in Int
      BY DEF IInv, TypeInv, RunRecords
    <3>2. docs'[r] = docs[r] \/ docs'[r] = [docs[r] EXCEPT !.flagged = runs[p].lag]
      BY <1>3 DEF Flag
    <3> QED
      BY <3>1, <3>2 DEF Documents, Same
  <2>2. docs' \in [Records -> Documents]
    BY <1>3, <2>1 DEF Flag
  <2>3. runs' \in [Runs -> RunRecords]
    BY <1>3 DEF Flag, IInv, TypeInv, RunRecords
  <2> QED
    BY <1>3, <2>1, <2>2, <2>3, OtherFields DEF Flag, IInv, TypeInv
<1> QED
  BY <1>1, <1>2, <1>3

\* A run goes on without touching a record, gives up, fails or dies.
LEMMA RunsKeep ==
  ASSUME IInv, \E p \in Runs : \/ Start(p) \/ FindToFlag(p) \/ FindDue(p) \/ Finish(p) \/ Scan(p)
                               \/ Report(p) \/ Fail(p) \/ Crash(p)
                               \/ \E r \in Records : Skip(p, r) \/ StopAtMissing(p, r)
  PROVE  IInv'
<1>1. UNCHANGED stored
  BY DEF Start, FindToFlag, FindDue, Finish, Scan, Report, Fail, Crash, Skip, StopAtMissing
<1>2. runs \in [Runs -> RunRecords]
  BY DEF IInv, TypeInv
<1>3. runs' \in [Runs -> RunRecords]
  <2>1. ASSUME NEW p \in Runs, NEW x \in RunRecords, runs' = [runs EXCEPT ![p] = x] PROVE runs' \in [Runs -> RunRecords]
    BY <1>2, <2>1
  <2>2. Idle \in RunRecords /\ \A plan \in Plans : [Idle EXCEPT !.at = "find", !.plan = plan] \in RunRecords
    BY DEF Idle, Plans, IInv, TypeInv, RunRecords
  <2>3. ASSUME NEW p \in Runs, Start(p) \/ Report(p) \/ Crash(p) PROVE runs' \in [Runs -> RunRecords]
    <3> QED
      BY <2>1, <2>2, <2>3 DEF Start, Report, Crash
  <2>4. ASSUME NEW p \in Runs, FindToFlag(p) \/ FindDue(p) \/ Scan(p) PROVE runs' \in [Runs -> RunRecords]
    <3>1. ASSUME NEW at \in {"due", "scan", "report", "flag", "enforce"}, NEW t \in SUBSET Records,
                 runs' = [runs EXCEPT ![p].at = at, ![p].todo = t]
          PROVE  runs' \in [Runs -> RunRecords]
      <4> DEFINE x == [runs[p] EXCEPT !.at = at, !.todo = t]
      <4>1. runs' = [runs EXCEPT ![p] = x]
        BY <1>2, <3>1
      <4>2. x \in RunRecords
        BY <1>2, <3>1 DEF RunRecords
      <4> HIDE DEF x
      <4> QED
        BY <2>1, <4>1, <4>2
    <3>2. CASE FindToFlag(p)
      <4> DEFINE t == {r \in Records : Flaggable(p, r)}
      <4>1. t \in SUBSET Records
        OBVIOUS
      <4>2. runs' = [runs EXCEPT ![p].at = "flag", ![p].todo = t]
        BY <3>2 DEF FindToFlag
      <4> HIDE DEF t
      <4> QED
        BY <3>1, <4>1, <4>2
    <3>3. CASE FindDue(p)
      <4> DEFINE t == {r \in Records : Due(p, r)}
      <4>1. t \in SUBSET Records
        OBVIOUS
      <4>2. runs' = [runs EXCEPT ![p].at = "enforce", ![p].todo = t]
        BY <3>3 DEF FindDue
      <4> HIDE DEF t
      <4> QED
        BY <3>1, <4>1, <4>2
    <3>4. CASE Scan(p)
      <4> DEFINE t == {r \in Records : Issues(r)}
      <4>1. t \in SUBSET Records
        OBVIOUS
      <4>2. runs' = [runs EXCEPT ![p].at = "report", ![p].todo = t]
        BY <3>4 DEF Scan
      <4> HIDE DEF t
      <4> QED
        BY <3>1, <4>1, <4>2
    <3> QED
      BY <2>4, <3>2, <3>3, <3>4
  <2>5. ASSUME NEW p \in Runs,
               Finish(p) \/ Fail(p) \/ \E r \in Records : StopAtMissing(p, r)
        PROVE  runs' \in [Runs -> RunRecords]
    <3>1. runs' = [runs EXCEPT ![p] = Scanning(p)]
      BY <2>5 DEF Finish, Fail, StopAtMissing
    <3>2. Scanning(p) \in RunRecords
      BY <1>2, <2>2 DEF Scanning, RunRecords
    <3> QED
      BY <2>1, <3>1, <3>2
  <2>6. ASSUME NEW p \in Runs, NEW r \in Records, Skip(p, r) PROVE runs' \in [Runs -> RunRecords]
    <3>1. runs' = [runs EXCEPT ![p] = [runs[p] EXCEPT !.todo = runs[p].todo \ {r}]]
      BY <2>6 DEF Skip
    <3>2. [runs[p] EXCEPT !.todo = runs[p].todo \ {r}] \in RunRecords
      BY <1>2 DEF RunRecords
    <3> QED
      BY <2>1, <3>1, <3>2
  <2> QED
    BY <2>3, <2>4, <2>5, <2>6
<1> QED
  BY <1>1, <1>3, OtherFields DEF stored, IInv, TypeInv, Same

\* Every step.
LEMMA NextIInv ==
  IInv /\ [Next]_vars => IInv'
<1> SUFFICES ASSUME IInv, [Next]_vars PROVE IInv'
  OBVIOUS
<1>1. ASSUME NEW p \in Runs, NEW r \in Records, Enforce(p, r) PROVE IInv'
  <2>1. runs' \in [Runs -> RunRecords]
    BY <1>1 DEF Enforce, IInv, TypeInv, RunRecords
  <2> QED
    BY <1>1, <2>1, EnforcedIsWhole DEF Enforce
<1>2. CASE UNCHANGED vars
  BY <1>2, OtherFields DEF vars, stored, IInv, TypeInv, Same
<1> QED
  BY <1>1, <1>2, DocumentsKeep, RunsKeep DEF Next, Working

\* However many runs find one record, wherever they crash, and whatever part of an enforcement
\* earlier releases left undone, the cold copy included: what is recorded as enforced was reduced
\* whole, with one entry, and has its cold copy when it is archived.
THEOREM AlwaysEnforcedWholeAndOnce ==
  Spec => []EnforcedWholeAndOnce
<1>1. IInv => EnforcedWholeAndOnce
  BY DEF IInv, TypeInv, WholeInv, Whole, EnforcedWholeAndOnce, Documents
<1> QED
  BY <1>1, InitIInv, NextIInv, PTL DEF Spec

-------------------------------------------------------------------------------
(* RuleMigration *)

\* Only an inspection that found every replacement sends a run to the drop, and no replacement is
\* ever removed.
DropIsSafe == \A r \in Scripts : run[r].pc = "drop" => AllBuilt

ScriptType == DOMAIN run = Scripts /\ \A r \in Scripts : DOMAIN run[r] = {"pc", "plan", "todo"}

MInv == ScriptType /\ Protected /\ DropIsSafe

\* The legacy index is none of the replacements.
LEMMA LegacyIsNoTarget == "legacy" \notin ToSet(Targets)
BY DEF ToSet, Targets

\* Init establishes the invariant: the legacy index exists and no run has started.
LEMMA InitMInv == MigrationInit => MInv
<1> SUFFICES ASSUME MigrationInit PROVE MInv
  OBVIOUS
<1>1. run = [r \in Scripts |-> NotStarted] /\ "legacy" \in indexes
  BY DEF MigrationInit
<1> QED
  BY <1>1 DEF MInv, ScriptType, Protected, DropIsSafe, NotStarted

\* A step keeps the invariant when every replacement exists before and after it, or when it neither
\* takes an index away nor sends a run to the drop.
LEMMA KeepsMInv ==
  ASSUME MInv, ScriptType',
         \/ AllBuilt /\ AllBuilt'
         \/ /\ indexes \subseteq indexes'
            /\ \A r \in Scripts : run'[r].pc = "drop" => run[r].pc = "drop"
  PROVE  MInv'
BY DEF MInv, Protected, DropIsSafe, AllBuilt

\* Every step preserves the invariant.
LEMMA NextMInv == MInv /\ [MigrationNext]_migrationVars => MInv'
<1> SUFFICES ASSUME MInv, [MigrationNext]_migrationVars PROVE MInv'
  OBVIOUS
<1> USE DEF MInv, ScriptType
<1>1. ASSUME NEW r \in Scripts, Inspect(r) PROVE MInv'
  BY <1>1, KeepsMInv DEF Inspect
<1>2. ASSUME NEW r \in Scripts, Backfill(r) PROVE MInv'
  <2>1. indexes' = indexes /\ (\/ run' = [run EXCEPT ![r] = [NotStarted EXCEPT !.pc = "recheck"]]
                               \/ run' = [run EXCEPT ![r] = NotStarted])
    BY <1>2 DEF Backfill, End
  <2> QED
    BY <2>1, KeepsMInv DEF NotStarted
<1>3. ASSUME NEW r \in Scripts, Recheck(r) PROVE MInv'
  BY <1>3, KeepsMInv DEF Recheck, End, NotStarted
<1>4. ASSUME NEW r \in Scripts, Build(r) PROVE MInv'
  BY <1>4, KeepsMInv DEF Build, End, NotStarted
<1>5. ASSUME NEW r \in Scripts, BeforeDrop(r) PROVE MInv'
  <2>1. CASE Sound /\ NoLegacyRows /\ AllBuilt
    BY <1>5, <2>1, KeepsMInv DEF BeforeDrop, Goto, AllBuilt
  <2>2. CASE ~(Sound /\ NoLegacyRows /\ AllBuilt)
    BY <1>5, <2>2, KeepsMInv DEF BeforeDrop, End, NotStarted
  <2> QED
    BY <2>1, <2>2
<1>6. ASSUME NEW r \in Scripts, Drop(r) PROVE MInv'
  <2>1. AllBuilt /\ AllBuilt'
    BY <1>6, LegacyIsNoTarget DEF Drop, DropIsSafe, AllBuilt
  <2>2. ScriptType'
    BY <1>6 DEF Drop, Goto, End, NotStarted
  <2> QED
    BY <2>1, <2>2, KeepsMInv
<1>7. ASSUME NEW r \in Scripts, Verify(r) PROVE MInv'
  BY <1>7, KeepsMInv DEF Verify, End, NotStarted
<1>8. ASSUME NEW r \in Scripts, Kill(r) PROVE MInv'
  BY <1>8, KeepsMInv DEF Kill, End, NotStarted
<1>9. ASSUME AppNext PROVE MInv'
  BY <1>9, KeepsMInv DEF AppNext, AppCreate, AppNewVersion, AppActivate, AppRetire, AppBuild
<1>10. ASSUME LegacyNext PROVE MInv'
  BY <1>10, KeepsMInv DEF LegacyNext, LegacyInsert, LegacySetStatus, LegacyStop
<1>11. ASSUME UNCHANGED migrationVars PROVE MInv'
  BY <1>11, KeepsMInv DEF migrationVars
<1> QED
  BY <1>1, <1>2, <1>3, <1>4, <1>5, <1>6, <1>7, <1>8, <1>9, <1>10, <1>11 DEF MigrationNext, Step

\* There is never an unprotected write window: however many runs of the script overlap, are killed
\* and are repeated while both applications write, the legacy index or all of its replacements exist.
THEOREM AlwaysProtected == MigrationSpec => []Protected
<1>1. MInv => Protected
  BY DEF MInv
<1> QED
  BY InitMInv, NextMInv, <1>1, PTL DEF MigrationSpec

\* The rows are a sequence of records with the fields of a rule.
RowType ==
  /\ \E T : rows \in Seq(T)
  /\ \A n \in DOMAIN rows : DOMAIN rows[n] = {"key", "status", "group", "version", "current"}

LEMMA LegacyRowFields ==
  ASSUME NEW k, NEW s
  PROVE  DOMAIN LegacyRow(k, s) = {"key", "status", "group", "version", "current"}
BY DEF LegacyRow

\* A collection with one more row.
LEMMA AppendRow ==
  ASSUME RowType, NEW row, rows' = Append(rows, row),
         DOMAIN row = {"key", "status", "group", "version", "current"}
  PROVE  RowType' /\ \A n \in DOMAIN rows : n \in DOMAIN rows' /\ rows'[n] = rows[n]
<1>1. PICK T : rows \in Seq(T)
  BY DEF RowType
<1>2. rows \in Seq(T \cup {row}) /\ rows' \in Seq(T \cup {row})
  BY <1>1
<1>3. /\ DOMAIN rows = 1..Len(rows) /\ DOMAIN rows' = 1..(Len(rows) + 1) /\ Len(rows) \in Nat
      /\ rows'[Len(rows) + 1] = row /\ \A n \in DOMAIN rows : rows'[n] = rows[n]
  BY <1>2
<1>4. \A n \in DOMAIN rows' : n \in DOMAIN rows \/ n = Len(rows) + 1
  BY <1>3
<1>5. \A n \in DOMAIN rows' : DOMAIN rows'[n] = {"key", "status", "group", "version", "current"}
  BY <1>3, <1>4 DEF RowType
<1>6. \E S : rows' \in Seq(S)
  BY <1>2
<1> QED
  BY <1>3, <1>5, <1>6 DEF RowType

\* A collection with the same rows, some of them rewritten.
LEMMA RewriteRows ==
  ASSUME RowType, DOMAIN rows' = DOMAIN rows, rows' = [n \in DOMAIN rows |-> rows'[n]],
         \A n \in DOMAIN rows : DOMAIN rows'[n] = DOMAIN rows[n]
  PROVE  RowType'
<1>1. PICK T : rows \in Seq(T)
  BY DEF RowType
<1> DEFINE S == {rows'[n] : n \in DOMAIN rows}
<1>2. DOMAIN rows = 1..Len(rows) /\ Len(rows) \in Nat
  BY <1>1
<1>3. rows' \in Seq(S)
  BY <1>2
<1>4. \E R : rows' \in Seq(R)
  BY <1>3
<1> QED
  BY <1>4 DEF RowType

\* Which rows a step may mark as migrated.
Truthful == \A n \in DOMAIN rows : IsLegacy(rows[n]) /\ ~IsLegacy(rows'[n]) =>
              (rows'[n].current <=> rows'[n].status = "active")

\* The transaction marks each row of its plan from the status the plan holds, which the filter of
\* the update has just found in the row.
LEMMA BackfillIsTruthful ==
  ASSUME RowType, NEW r \in Scripts, Backfill(r)
  PROVE  RowType' /\ Truthful
<1> DEFINE ops  == run[r].plan
           Op(n) == CHOOSE op \in ops : op.id = n
           Marked(n) == [rows[n] EXCEPT !.group = n, !.version = 1,
                                        !.current = (Op(n).status = "active")]
           next == [n \in DOMAIN rows |-> IF \E op \in ops : op.id = n THEN Marked(n) ELSE rows[n]]
<1>1. CASE rows' = rows
  BY <1>1 DEF RowType, Truthful
<1>2. CASE (\A op \in ops : Matches(op)) /\ rows' = next
  <2>1. \A n \in DOMAIN rows : DOMAIN Marked(n) = DOMAIN rows[n]
    OBVIOUS
  <2>2. RowType'
    <3>1. /\ DOMAIN rows' = DOMAIN rows /\ rows' = [n \in DOMAIN rows |-> rows'[n]]
          /\ \A n \in DOMAIN rows : DOMAIN rows'[n] = DOMAIN rows[n]
      <4> HIDE DEF Marked
      <4> QED
        BY <1>2, <2>1
    <3> QED
      BY <3>1, RewriteRows
  <2>3. ASSUME NEW n \in DOMAIN rows, IsLegacy(rows[n]), ~IsLegacy(rows'[n])
        PROVE  rows'[n].current <=> rows'[n].status = "active"
    <3>1. (\E op \in ops : op.id = n) /\ rows'[n] = Marked(n)
      <4> HIDE DEF Marked
      <4> QED
        BY <1>2, <2>3
    <3>2. Op(n) \in ops /\ Op(n).id = n
      BY <3>1
    <3>3. rows[n].status = Op(n).status
      <4> HIDE DEF Op
      <4> QED
        BY <1>2, <3>2 DEF Matches
    <3>4. /\ DOMAIN rows[n] = {"key", "status", "group", "version", "current"}
      BY DEF RowType
    <3> HIDE DEF Op
    <3>5. /\ Marked(n).current = (Op(n).status = "active")
          /\ Marked(n).status = rows[n].status
      BY <3>4
    <3> HIDE DEF Marked
    <3> QED
      BY <3>1, <3>3, <3>5
  <2> QED
    BY <2>2, <2>3 DEF Truthful
<1> QED
  BY <1>1, <1>2 DEF Backfill

\* Every other step leaves the group of a row as it is.
LEMMA OthersLeaveGroups ==
  ASSUME RowType, [MigrationNext]_migrationVars, ~\E r \in Scripts : Backfill(r)
  PROVE  RowType' /\ Truthful
<1>1. CASE rows' = rows
  BY <1>1 DEF RowType, Truthful
<1>2. ASSUME NEW row, rows' = Append(rows, row),
             DOMAIN row = {"key", "status", "group", "version", "current"}
      PROVE  RowType' /\ Truthful
  BY <1>2, AppendRow DEF Truthful
<1>3. ASSUME NEW next, rows' = [n \in DOMAIN rows |-> next[n]],
             \A n \in DOMAIN rows : DOMAIN next[n] = DOMAIN rows[n] /\ next[n].group = rows[n].group
      PROVE  RowType' /\ Truthful
  <2>1. RowType'
    BY <1>3, RewriteRows
  <2> QED
    BY <2>1, <1>3 DEF Truthful, IsLegacy
<1>4. ASSUME NEW k, AppCreate(k) PROVE RowType' /\ Truthful
  <2> DEFINE row == [LegacyRow(k, "draft") EXCEPT !.group = Len(rows) + 1, !.version = 1]
  <2>1. DOMAIN row = {"key", "status", "group", "version", "current"}
    BY LegacyRowFields
  <2>2. rows' = Append(rows, row)
    BY <1>4 DEF AppCreate, SaveRows
  <2> HIDE DEF row
  <2> QED
    BY <1>2, <2>1, <2>2
<1>5. ASSUME NEW n \in DOMAIN rows, AppNewVersion(n) PROVE RowType' /\ Truthful
  <2>1. PICK x : rows' = Append(rows, [rows[n] EXCEPT !.status = "draft", !.current = FALSE, !.version = x])
    BY <1>5 DEF AppNewVersion, SaveRows
  <2> DEFINE row == [rows[n] EXCEPT !.status = "draft", !.current = FALSE, !.version = x]
  <2>2. DOMAIN row = {"key", "status", "group", "version", "current"}
    BY DEF RowType
  <2> HIDE DEF row
  <2> QED
    BY <1>2, <2>1, <2>2 DEF row
<1>6. ASSUME NEW n \in DOMAIN rows, AppActivate(n) PROVE RowType' /\ Truthful
  <2> DEFINE next == [m \in DOMAIN rows |->
       IF m = n THEN [rows[m] EXCEPT !.status = "active", !.current = TRUE]
       ELSE IF rows[m].group = rows[n].group /\ rows[m].current /\ rows[m].status = "active"
         THEN [rows[m] EXCEPT !.status = "retired", !.current = FALSE]
       ELSE rows[m]]
  <2>1. \A m \in DOMAIN rows : DOMAIN next[m] = DOMAIN rows[m] /\ next[m].group = rows[m].group
    BY DEF RowType
  <2>2. rows' = next /\ next = [m \in DOMAIN rows |-> next[m]]
    BY <1>6 DEF AppActivate, SaveRows
  <2> HIDE DEF next
  <2> QED
    BY <1>3, <2>1, <2>2
<1>7. ASSUME NEW n \in DOMAIN rows, AppRetire(n) PROVE RowType' /\ Truthful
  <2> DEFINE next == [rows EXCEPT ![n].status = "retired", ![n].current = FALSE]
  <2>0. rows = [m \in DOMAIN rows |-> rows[m]]
    BY DEF RowType
  <2>1. \A m \in DOMAIN rows : DOMAIN next[m] = DOMAIN rows[m] /\ next[m].group = rows[m].group
    BY DEF RowType
  <2>2. rows' = next /\ next = [m \in DOMAIN rows |-> next[m]]
    BY <1>7, <2>0 DEF AppRetire, SaveRows
  <2> HIDE DEF next
  <2> QED
    BY <1>3, <2>1, <2>2
<1>8. ASSUME NEW k, LegacyInsert(k) PROVE RowType' /\ Truthful
  BY <1>2, <1>8, LegacyRowFields DEF LegacyInsert, SaveRows
<1>9. ASSUME NEW n \in DOMAIN rows, NEW s, LegacySetStatus(n, s) PROVE RowType' /\ Truthful
  <2> DEFINE next == [rows EXCEPT ![n].status = s]
  <2>0. rows = [m \in DOMAIN rows |-> rows[m]]
    BY DEF RowType
  <2>1. \A m \in DOMAIN rows : DOMAIN next[m] = DOMAIN rows[m] /\ next[m].group = rows[m].group
    BY DEF RowType
  <2>2. rows' = next /\ next = [m \in DOMAIN rows |-> next[m]]
    BY <1>9, <2>0 DEF LegacySetStatus, SaveRows
  <2> HIDE DEF next
  <2> QED
    BY <1>3, <2>1, <2>2
<1> QED
  BY <1>1, <1>4, <1>5, <1>6, <1>7, <1>8, <1>9
     DEF MigrationNext, Step, AppNext, LegacyNext, migrationVars, Inspect, Recheck, Build, BeforeDrop,
         Drop, Verify, Kill, AppBuild, LegacyStop

\* At first there is no row, or one of the old application.
LEMMA InitRows == MigrationInit => RowType
<1> SUFFICES ASSUME MigrationInit PROVE RowType
  OBVIOUS
<1>1. CASE rows = <<>>
  BY <1>1 DEF RowType
<1>2. CASE \E k \in Keys, s \in Statuses : rows = <<LegacyRow(k, s)>>
  <2>1. PICK k \in Keys, s \in Statuses : rows = <<LegacyRow(k, s)>>
    BY <1>2
  <2>2. rows \in Seq({LegacyRow(k, s)}) /\ DOMAIN rows = {1} /\ rows[1] = LegacyRow(k, s)
    BY <2>1
  <2> QED
    BY <2>2, LegacyRowFields DEF RowType
<1> QED
  BY <1>1, <1>2 DEF MigrationInit

\* A rule that is activated or retired between the plan and the backfill is not given the plan's
\* answer: whichever runs and applications write meanwhile, a row the migration marks is current
\* exactly when it is active at that moment.
THEOREM AlwaysBackfilledTruthfully == MigrationSpec => BackfilledTruthfully
<1>1. MigrationInit => RowType
  BY InitRows
<1>2. RowType /\ [MigrationNext]_migrationVars => RowType' /\ Truthful
  BY BackfillIsTruthful, OthersLeaveGroups
<1>3. RowType /\ [MigrationNext]_migrationVars =>
        [\A n \in DOMAIN rows : IsLegacy(rows[n]) /\ ~IsLegacy(rows'[n]) =>
           (rows'[n].current <=> rows'[n].status = "active")]_migrationVars
  BY <1>2 DEF Truthful
<1> QED
  BY <1>1, <1>2, <1>3, PTL DEF MigrationSpec, BackfilledTruthfully

\* What a run has to create are replacements.
TodoType == \A r \in Scripts : run[r].todo \in Seq(ToSet(Targets))

LEMMA MissingType == Missing \in Seq(ToSet(Targets))
<1> DEFINE A(ix) == IF ix \in indexes THEN <<>> ELSE <<ix>>
<1>1. ToSet(Targets) = {"v1", "current", "groupVersion"}
  BY DEF ToSet, Targets
<1>2. \A ix \in {"v1", "current", "groupVersion"} : A(ix) \in Seq(ToSet(Targets))
  <2>1. \A S, ix : <<>> \in Seq(S) /\ (ix \in S => <<ix>> \in Seq(S))
    OBVIOUS
  <2> QED
    BY <1>1, <2>1
<1>3. Missing = A("v1") \o A("current") \o A("groupVersion")
  BY DEF Missing, Targets
<1> HIDE DEF A
<1> QED
  BY <1>2, <1>3

\* Every step keeps it.
LEMMA TodoStays ==
  ASSUME ScriptType, TodoType, [MigrationNext]_migrationVars
  PROVE  TodoType'
<1> USE DEF ScriptType, TodoType
<1> DEFINE T == Seq(ToSet(Targets))
<1>0. <<>> \in T
  OBVIOUS
<1> HIDE DEF T
<1>1. ASSUME NEW r \in Scripts, NEW next, DOMAIN next = {"pc", "plan", "todo"}, next.todo \in T,
             run' = [run EXCEPT ![r] = next]
      PROVE  TodoType'
  BY <1>1 DEF T
<1>2. ASSUME NEW r \in Scripts, End(r) PROVE TodoType'
  BY <1>0, <1>1, <1>2 DEF End, NotStarted
<1>3. ASSUME NEW r \in Scripts, NEW pc, Goto(r, pc) PROVE TodoType'
  BY <1>3 DEF Goto
<1>4. ASSUME NEW r \in Scripts, Inspect(r) PROVE TodoType'
  BY <1>0, <1>4 DEF Inspect, T
<1>5. ASSUME NEW r \in Scripts, Backfill(r) PROVE TodoType'
  <2>1. End(r) \/ run' = [run EXCEPT ![r] = [NotStarted EXCEPT !.pc = "recheck"]]
    BY <1>5 DEF Backfill
  <2> QED
    BY <2>1, <1>0, <1>2 DEF NotStarted, T
<1>6. ASSUME NEW r \in Scripts, Recheck(r) PROVE TodoType'
  <2>1. End(r) \/ run' = [run EXCEPT ![r].pc = "build", ![r].todo = Missing]
    BY <1>6 DEF Recheck
  <2> QED
    BY <2>1, <1>2, MissingType
<1>7. ASSUME NEW r \in Scripts, Build(r) PROVE TodoType'
  <2>1. End(r) \/ run' = [run EXCEPT ![r].todo = Tail(@)]
    BY <1>7 DEF Build
  <2>2. run[r].todo # <<>> => Tail(run[r].todo) \in Seq(ToSet(Targets))
    OBVIOUS
  <2>3. run[r].todo # <<>>
    BY <1>7 DEF Build
  <2> QED
    BY <2>1, <2>2, <2>3, <1>2
<1>8. ASSUME NEW r \in Scripts, BeforeDrop(r) \/ Drop(r) \/ Verify(r) \/ Kill(r) PROVE TodoType'
  BY <1>2, <1>3, <1>8 DEF BeforeDrop, Drop, Verify, Kill
<1>9. CASE AppNext \/ LegacyNext \/ UNCHANGED migrationVars
  BY <1>9 DEF AppNext, AppCreate, AppNewVersion, AppActivate, AppRetire, AppBuild, LegacyNext,
              LegacyInsert, LegacySetStatus, LegacyStop, migrationVars
<1> QED
  BY <1>4, <1>5, <1>6, <1>7, <1>8, <1>9 DEF MigrationNext, Step

\* The conditions of the preflight that no index looks after.
InOrder(rs) ==
  /\ \A n \in DOMAIN rs : rs[n].current <=> rs[n].status = "active"
  /\ \A i, j \in DOMAIN rs : rs[i].group = rs[j].group => rs[i].key = rs[j].key
  /\ \A n \in DOMAIN rs : \E m \in DOMAIN rs : rs[m].group = rs[n].group /\ rs[m].version = 1

UpToDate(rs) == InOrder(rs) /\ (\A ix \in ToSet(Targets) : Fits(ix, rs)) /\ LegacyIds(rs) = {}

\* Without legacy rows the preflight looks at the rows as they are.
LEMMA SoundIsUpToDate ==
  ASSUME RowType
  PROVE  Sound /\ NoLegacyRows <=> UpToDate(rows)
<1>1. rows = [n \in DOMAIN rows |-> rows[n]]
  BY DEF RowType
<1>2. NoLegacyRows => Projected = rows
  BY <1>1 DEF NoLegacyRows, LegacyIds, Projected, Backfilled
<1> QED
  BY <1>2 DEF Sound, NoLegacyRows, UpToDate, InOrder

\* Whatever the application with versions saves into such a collection is one again, provided the
\* indexes are there to refuse the rest.
LEMMA SavedRowsAreUpToDate ==
  ASSUME RowType, UpToDate(rows), ToSet(Targets) \subseteq indexes, AppNext
  PROVE  UpToDate(rows')
<1>1. ASSUME NEW next, SaveRows(next), InOrder(next), LegacyIds(next) = {} PROVE UpToDate(rows')
  BY <1>1 DEF SaveRows, Admitted, UpToDate
<1>2. /\ \A n \in DOMAIN rows : /\ rows[n].group # 0
                                /\ DOMAIN rows[n] = {"key", "status", "group", "version", "current"}
      /\ InOrder(rows) /\ Len(rows) \in Nat /\ DOMAIN rows = 1..Len(rows)
  BY DEF RowType, UpToDate, LegacyIds, IsLegacy
\* Rows rewritten with their group, key and version.
<1>3. ASSUME NEW next, DOMAIN next = DOMAIN rows,
             \A n \in DOMAIN rows : /\ next[n].group = rows[n].group /\ next[n].key = rows[n].key
                                    /\ next[n].version = rows[n].version
                                    /\ next[n].current <=> next[n].status = "active"
      PROVE  InOrder(next) /\ LegacyIds(next) = {}
  BY <1>2, <1>3 DEF InOrder, LegacyIds, IsLegacy
\* A row that follows the others, as a draft.
<1>4. ASSUME NEW row, row.status = "draft", ~row.current, row.group # 0,
             \A n \in DOMAIN rows : rows[n].group = row.group => rows[n].key = row.key,
             row.version = 1 \/ \E n \in DOMAIN rows : rows[n].group = row.group
      PROVE  InOrder(Append(rows, row)) /\ LegacyIds(Append(rows, row)) = {}
  <2> DEFINE next == Append(rows, row)
             last == Len(rows) + 1
  <2>1. /\ DOMAIN next = DOMAIN rows \cup {last} /\ next[last] = row
        /\ \A n \in DOMAIN rows : next[n] = rows[n]
    <3>1. PICK T : rows \in Seq(T)
      BY DEF RowType
    <3>2. rows \in Seq(T \cup {row}) /\ row \in T \cup {row}
      BY <3>1
    <3>3. next \in Seq(T \cup {row}) /\ Len(next) = last /\ DOMAIN next = 1..last
      BY <3>2
    <3>4. 1..last = DOMAIN rows \cup {last}
      BY <1>2
    <3>5. next[last] = row /\ \A n \in DOMAIN rows : next[n] = rows[n]
      BY <3>2, <1>2
    <3> QED
      BY <3>3, <3>4, <3>5
  <2> HIDE DEF next, last
  <2>2. LegacyIds(next) = {}
    BY <2>1, <1>2, <1>4 DEF LegacyIds, IsLegacy
  <2>3. \A n \in DOMAIN next : next[n].current <=> next[n].status = "active"
    BY <2>1, <1>2, <1>4 DEF InOrder
  <2>4. \A i, j \in DOMAIN next : next[i].group = next[j].group => next[i].key = next[j].key
    BY <2>1, <1>2, <1>4 DEF InOrder
  <2>5. \A n \in DOMAIN next : \E m \in DOMAIN next : next[m].group = next[n].group /\ next[m].version = 1
    <3>1. \A n \in DOMAIN rows : \E m \in DOMAIN rows : rows[m].group = rows[n].group /\ rows[m].version = 1
      BY <1>2 DEF InOrder
    <3> QED
      BY <2>1, <3>1, <1>4
  <2> QED
    BY <2>2, <2>3, <2>4, <2>5 DEF InOrder, next
<1>5. ASSUME NEW k \in Keys, AppCreate(k) PROVE UpToDate(rows')
  <2> DEFINE row  == [LegacyRow(k, "draft") EXCEPT !.group = Len(rows) + 1, !.version = 1]
             next == Append(rows, row)
  <2>1. row.status = "draft" /\ ~row.current /\ row.group = Len(rows) + 1 /\ row.version = 1
    BY DEF LegacyRow
  <2>2. SaveRows(next)
    BY <1>5 DEF AppCreate
  <2>3. \A n \in DOMAIN rows : rows[n].group # Len(rows) + 1
    <3> SUFFICES ASSUME NEW n \in DOMAIN rows, rows[n].group = Len(rows) + 1 PROVE FALSE
      OBVIOUS
    <3>1. PICK m \in DOMAIN rows : rows[m].group = Len(rows) + 1 /\ rows[m].version = 1
      BY <1>2 DEF InOrder
    <3>2. /\ m \in DOMAIN next /\ Len(rows) + 1 \in DOMAIN next
          /\ next[m] = rows[m] /\ next[Len(rows) + 1] = row
      <4>1. PICK T : rows \in Seq(T)
        BY DEF RowType
      <4>2. rows \in Seq(T \cup {row}) /\ row \in T \cup {row}
        BY <4>1
      <4> HIDE DEF row
      <4> QED
        BY <4>2, <1>2
    <3>3. Fits("groupVersion", next)
      BY <2>2 DEF SaveRows, Admitted, ToSet, Targets
    <3>4. \A i, j \in DOMAIN next : <<next[i].group, next[i].version>> = <<next[j].group, next[j].version>> => i = j
      <4> HIDE DEF next
      <4> QED
        BY <3>3 DEF Fits, IsRepeatFree
    <3>5. m = Len(rows) + 1
      <4> HIDE DEF next, row
      <4> QED
        BY <2>1, <3>1, <3>2, <3>4
    <3> QED
      BY <1>2, <3>5
  <2> HIDE DEF row
  <2>4. InOrder(next) /\ LegacyIds(next) = {}
    BY <1>2, <1>4, <2>1, <2>3
  <2> QED
    BY <1>1, <2>2, <2>4
<1>6. ASSUME NEW n \in DOMAIN rows, AppNewVersion(n) PROVE UpToDate(rows')
  <2>1. PICK x : SaveRows(Append(rows, [rows[n] EXCEPT !.status = "draft", !.current = FALSE, !.version = x]))
    BY <1>6 DEF AppNewVersion
  <2> DEFINE row == [rows[n] EXCEPT !.status = "draft", !.current = FALSE, !.version = x]
  <2>2. row.status = "draft" /\ ~row.current /\ row.group = rows[n].group /\ row.key = rows[n].key
    BY <1>2
  <2> HIDE DEF row
  <2>3. \A m \in DOMAIN rows : rows[m].group = row.group => rows[m].key = row.key
    BY <1>2, <2>2 DEF InOrder
  <2>4. row.group # 0 /\ \E m \in DOMAIN rows : rows[m].group = row.group
    BY <1>2, <2>2
  <2>5. InOrder(Append(rows, row)) /\ LegacyIds(Append(rows, row)) = {}
    BY <1>4, <2>2, <2>3, <2>4
  <2> QED
    BY <1>1, <2>1, <2>5 DEF row
<1>7. ASSUME NEW n \in DOMAIN rows, AppActivate(n) PROVE UpToDate(rows')
  <2> DEFINE next == [m \in DOMAIN rows |->
       IF m = n THEN [rows[m] EXCEPT !.status = "active", !.current = TRUE]
       ELSE IF rows[m].group = rows[n].group /\ rows[m].current /\ rows[m].status = "active"
         THEN [rows[m] EXCEPT !.status = "retired", !.current = FALSE]
       ELSE rows[m]]
  <2>1. \A m \in DOMAIN rows : /\ next[m].group = rows[m].group /\ next[m].key = rows[m].key
                               /\ next[m].version = rows[m].version
                               /\ next[m].current <=> next[m].status = "active"
    BY <1>2 DEF InOrder
  <2>2. SaveRows(next) /\ DOMAIN next = DOMAIN rows
    BY <1>7 DEF AppActivate
  <2> HIDE DEF next
  <2> QED
    BY <1>1, <1>3, <2>1, <2>2
<1>8. ASSUME NEW n \in DOMAIN rows, AppRetire(n) PROVE UpToDate(rows')
  <2> DEFINE next == [rows EXCEPT ![n].status = "retired", ![n].current = FALSE]
  <2>1. \A m \in DOMAIN rows : /\ next[m].group = rows[m].group /\ next[m].key = rows[m].key
                               /\ next[m].version = rows[m].version
                               /\ next[m].current <=> next[m].status = "active"
    BY SMTT(30), <1>2 DEF InOrder
  <2>2. SaveRows(next) /\ DOMAIN next = DOMAIN rows
    BY <1>8 DEF AppRetire
  <2> HIDE DEF next
  <2> QED
    BY <1>1, <1>3, <2>1, <2>2
<1>9. CASE AppBuild
  BY <1>9 DEF AppBuild
<1> QED
  BY <1>5, <1>6, <1>7, <1>8, <1>9 DEF AppNext

\* A transaction of a run that started before the migration was complete finds no row of its plan
\* as it was; one with an empty plan rewrites nothing.
LEMMA LateBackfill ==
  ASSUME RowType, LegacyIds(rows) = {}, NEW r \in Scripts, Backfill(r)
  PROVE  rows' = rows
<1> DEFINE ops  == run[r].plan
           Marked(n) == LET op == CHOOSE op \in ops : op.id = n IN
             [rows[n] EXCEPT !.group = n, !.version = 1, !.current = (op.status = "active")]
           next == [n \in DOMAIN rows |-> IF \E op \in ops : op.id = n THEN Marked(n) ELSE rows[n]]
<1>1. CASE (\A op \in ops : Matches(op)) /\ rows' = next
  <2>1. \A n \in DOMAIN rows : ~IsLegacy(rows[n])
    BY DEF LegacyIds
  <2>2. \A n \in DOMAIN rows : ~\E op \in ops : op.id = n
    BY <1>1, <2>1 DEF Matches
  <2>3. rows = [n \in DOMAIN rows |-> rows[n]]
    BY DEF RowType
  <2> HIDE DEF Marked, ops
  <2> QED
    BY <1>1, <2>2, <2>3
<1>2. CASE rows' = rows
  BY <1>2
<1> QED
  BY <1>1, <1>2 DEF Backfill

LEMMA MigratedStays ==
  ASSUME RowType, RowType', TodoType, Migrated, ~legacyUp, [MigrationNext]_migrationVars
  PROVE  Migrated'
<1>1. UpToDate(rows) /\ ToSet(Targets) \subseteq indexes /\ "legacy" \notin indexes
  BY SoundIsUpToDate DEF Migrated, AllBuilt
<1>2. UpToDate(rows')
  <2>1. CASE UNCHANGED rows
    BY <1>1, <2>1
  <2>2. CASE AppNext
    BY <1>1, <2>2, SavedRowsAreUpToDate
  <2>3. CASE \E r \in Scripts : Backfill(r)
    BY <1>1, <2>3, LateBackfill DEF UpToDate
  <2>4. ~LegacyNext
    BY DEF LegacyNext, LegacyInsert, LegacySetStatus, LegacyStop
  <2> QED
    BY <2>1, <2>2, <2>3, <2>4
       DEF MigrationNext, Step, Inspect, Recheck, Build, BeforeDrop, Drop, Verify, Kill, migrationVars
<1>3. ToSet(Targets) \subseteq indexes' /\ "legacy" \notin indexes'
  <2>1. CASE UNCHANGED indexes
    BY <1>1, <2>1
  <2>2. ASSUME NEW r \in Scripts, Build(r)
        PROVE  ToSet(Targets) \subseteq indexes' /\ "legacy" \notin indexes'
    <3>1. run[r].todo # <<>> /\ run[r].todo \in Seq(ToSet(Targets))
      BY <2>2 DEF Build, TodoType
    <3>2. Head(run[r].todo) \in ToSet(Targets)
      BY <3>1
    <3> QED
      BY <1>1, <2>2, <3>2, LegacyIsNoTarget DEF Build
  <2>3. ASSUME NEW r \in Scripts, Drop(r)
        PROVE  ToSet(Targets) \subseteq indexes' /\ "legacy" \notin indexes'
    BY <1>1, <2>3 DEF Drop
  <2>4. ~AppBuild
    BY <1>1 DEF AppBuild, AllBuilt
  <2> QED
    BY <2>1, <2>2, <2>3, <2>4
       DEF MigrationNext, Step, Inspect, Backfill, Recheck, BeforeDrop, Verify, Kill, migrationVars,
           AppNext, AppCreate, AppNewVersion, AppActivate, AppRetire,
           LegacyNext, LegacyInsert, LegacySetStatus, LegacyStop
<1>4. (Sound /\ NoLegacyRows <=> UpToDate(rows))'
  BY SoundIsUpToDate, PTL
<1> QED
  BY <1>2, <1>3, <1>4 DEF Migrated, AllBuilt

\* Once the old application is gone, a completed migration is never undone: not by the application
\* with versions, whose indexes refuse what would not fit, and not by a run that started earlier.
THEOREM AlwaysMigratedForGood == MigrationSpec => MigratedForGood
<1>1. MigrationInit => RowType /\ ScriptType /\ TodoType
  <2> SUFFICES ASSUME MigrationInit PROVE RowType /\ ScriptType /\ TodoType
    OBVIOUS
  <2>1. run = [r \in Scripts |-> NotStarted]
    BY DEF MigrationInit
  <2>2. <<>> \in Seq(ToSet(Targets))
    OBVIOUS
  <2>3. \A r \in Scripts : run[r].todo = <<>> /\ DOMAIN run[r] = {"pc", "plan", "todo"}
    BY <2>1 DEF NotStarted
  <2>4. ScriptType /\ TodoType
    BY <2>1, <2>2, <2>3 DEF ScriptType, TodoType
  <2> QED
    BY <2>4, InitRows
<1>2. RowType /\ ScriptType /\ TodoType /\ [MigrationNext]_migrationVars
        => RowType' /\ TodoType' /\ (Migrated /\ ~legacyUp => Migrated')
  BY BackfillIsTruthful, OthersLeaveGroups, TodoStays, MigratedStays
<1>3. RowType /\ ScriptType /\ TodoType /\ [MigrationNext]_migrationVars
        => [(Migrated /\ ~legacyUp) => Migrated']_migrationVars
  BY <1>2
<1>4. MInv => ScriptType
  BY DEF MInv
<1> QED
  BY <1>1, <1>2, <1>3, <1>4, InitMInv, NextMInv, PTL DEF MigrationSpec, MigratedForGood
===============================================================================
