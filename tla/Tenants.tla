------------------------------ MODULE Tenants ------------------------------
(***************************************************************************)
(* Tenant administration: the settings of a tenant (plan, sectors, SSO     *)
(* domain), its accounts, the identities bound to them, and the content    *)
(* and datasets that refer to its sectors.                                 *)
(*                                                                         *)
(* What a request knows is older than what it writes: an administrator is  *)
(* authenticated before the transaction, an upload is checked against the  *)
(* sectors before it is stored, a login resolves its account before it     *)
(* binds an identity to it.  Transactions of one tenant are serial, since  *)
(* each writes an audit entry (AuditChain); those of two tenants are not,  *)
(* so what a settings change reads of the others is a snapshot.            *)
(***************************************************************************)
EXTENDS FiniteSets

CONSTANTS
  Tenants,     \* tenants other than the shared public one
  Users,       \* e-mail addresses, one account each
  Founders,    \* accounts of system administrators that exist at the start
  Home,        \* [Users -> Tenants]: the tenant an address is invited to
  Requests,    \* administrative requests under way
  Logins,      \* Firebase identities signing in
  Sectors, Domains,
  Items,       \* content documents that name a sector
  Datasets

CONSTANTS Nobody, NoDomain, NoSector

ASSUME TenantsAssumption ==
  /\ Tenants # {} /\ Founders \subseteq Users /\ Home \in [Users -> Tenants]
  /\ Nobody \notin Users /\ NoDomain \notin Domains /\ NoSector \notin Sectors

Roles == {"requestor", "system_administrator"}
Invited == "dev:"            \* firebaseUid of an account no identity is bound to

VARIABLES
  tenants,    \* plan, sectors and SSO domain of each tenant
  users,      \* the accounts
  requests,   \* who sent a request, and the other tenants' domains it saw
  logins,     \* the account each sign-in has resolved
  content,    \* the sector each document names
  datasets    \* status and sector of each uploaded dataset

tenantsVars == <<tenants, users, requests, logins, content, datasets>>

NoAccount == [role |-> "none", status |-> "active", uid |-> Invited]
Exists(u) == users[u].role # "none"
NoRequest == [by |-> Nobody, seen |-> {}]

TenantsInit ==
  /\ tenants = [t \in Tenants |-> [plan |-> "paid", sectors |-> Sectors, domain |-> NoDomain]]
  /\ users = [u \in Users |-> IF u \in Founders
                              THEN [NoAccount EXCEPT !.role = "system_administrator"]
                              ELSE NoAccount]
  /\ requests = [q \in Requests |-> NoRequest]
  /\ logins = [l \in Logins |-> Nobody]
  /\ content = [i \in Items |-> NoSector]
  /\ datasets = [d \in Datasets |-> [status |-> "none", sector |-> NoSector]]

-----------------------------------------------------------------------------
\* assertRoleAllowedForPlan.
Allowed(plan, role) == plan = "free" => role = "requestor"

\* authenticate and requireRole read the account and the tenant once, and the
\* transaction begins: it sees the other tenants as they are here.  In its own
\* tenant it commits on the current state or is replayed.
Authenticate(q, u) ==
  /\ requests[q] = NoRequest
  /\ users[u].role = "system_administrator" /\ users[u].status = "active"
  /\ Allowed(tenants[Home[u]].plan, users[u].role)
  /\ requests' = [requests EXCEPT ![q] =
       [by |-> u, seen |-> {tenants[t].domain : t \in Tenants \ {Home[u]}}]]
  /\ UNCHANGED <<tenants, users, logins, content, datasets>>

\* Every refusal ends the request and changes nothing.
Done(q) == requests' = [requests EXCEPT ![q] = NoRequest]
Refuse(q) ==
  /\ requests[q] # NoRequest /\ Done(q)
  /\ UNCHANGED <<tenants, users, logins, content, datasets>>

CreateUser(q, u, role) ==
  LET by == requests[q].by
  IN  /\ by # Nobody /\ Home[u] = Home[by] /\ ~Exists(u)
      /\ Allowed(tenants[Home[u]].plan, role)
      /\ users' = [users EXCEPT ![u] = [NoAccount EXCEPT !.role = role]]
      /\ Done(q) /\ UNCHANGED <<tenants, logins, content, datasets>>

\* Mutation: the plan is not looked at when a role changes.
UpdateUserAnyPlan(q, u, role, status) ==
  LET by == requests[q].by
  IN  /\ by # Nobody /\ Home[u] = Home[by] /\ Exists(u)
      /\ u = by => role = users[u].role /\ status # "disabled"
      /\ users' = [users EXCEPT ![u].role = role, ![u].status = status]
      /\ Done(q) /\ UNCHANGED <<tenants, logins, content, datasets>>

\* Nobody demotes or disables the account the request came from.
UpdateUser(q, u, role, status) ==
  LET by == requests[q].by
  IN  /\ by # Nobody /\ Home[u] = Home[by] /\ Exists(u)
      /\ u = by => role = users[u].role /\ status # "disabled"
      /\ Allowed(tenants[Home[u]].plan, role)
      /\ users' = [users EXCEPT ![u].role = role, ![u].status = status]
      /\ Done(q) /\ UNCHANGED <<tenants, logins, content, datasets>>

\* Documents and datasets are those of one tenant.
Owner == CHOOSE t \in Tenants : TRUE

\* A sector is in use while a document of any status names it, or a dataset that
\* may still be applied does.
Pending(d) == datasets[d].status \in {"validated", "approved"}
InUse == {content[i] : i \in Items} \cup {datasets[d].sector : d \in {e \in Datasets : Pending(e)}}

\* PATCH /system/tenant: the whole patch or nothing.
PatchTenant(q, plan, sectors, domain) ==
  LET by == requests[q].by
      t  == Home[by]
  IN  /\ by # Nobody
      /\ plan = "free" /\ tenants[t].plan # "free" =>
           \A u \in Users : Exists(u) /\ Home[u] = t => users[u].role = "requestor"
      /\ t = Owner => (tenants[t].sectors \ sectors) \cap InUse = {}
      /\ domain \in Domains => domain \notin requests[q].seen
      /\ tenants' = [tenants EXCEPT ![t] = [plan |-> plan, sectors |-> sectors, domain |-> domain]]
      /\ Done(q) /\ UNCHANGED <<users, logins, content, datasets>>

-----------------------------------------------------------------------------
\* Signing in.  The account is found by its identity, else by its e-mail.
BoundTo(l) == {u \in Users : users[u].uid = l}

Resolve(l, u) ==
  /\ logins[l] = Nobody
  /\ Exists(u) /\ users[u].status = "active"
  /\ IF BoundTo(l) # {} THEN u \in BoundTo(l) ELSE users[u].uid = Invited
  /\ logins' = [logins EXCEPT ![l] = u]
  /\ UNCHANGED <<tenants, users, requests, content, datasets>>

\* provisionSelfSignup without an account: a requestor, bound at once.
SelfSignup(l, u) ==
  /\ logins[l] = Nobody
  /\ ~Exists(u) /\ BoundTo(l) = {}
  /\ users' = [users EXCEPT ![u] = [NoAccount EXCEPT !.role = "requestor", !.uid = l]]
  /\ logins' = [logins EXCEPT ![l] = u]
  /\ UNCHANGED <<tenants, requests, content, datasets>>

\* Mutation: what authenticate resolved is bound without another look.
FinalizeUnseen(l) ==
  /\ logins[l] # Nobody
  /\ BoundTo(l) \subseteq {logins[l]}
  /\ users' = [users EXCEPT ![logins[l]].uid = l]
  /\ logins' = [logins EXCEPT ![l] = Nobody]
  /\ UNCHANGED <<tenants, requests, content, datasets>>

\* finalizeIdentityLink once every factor has passed: it reads the account again,
\* and the unique index keeps an identity to one account.
Finalize(l) ==
  /\ logins[l] # Nobody
  /\ users[logins[l]].uid \in {l, Invited}
  /\ BoundTo(l) \subseteq {logins[l]}
  /\ users' = [users EXCEPT ![logins[l]].uid = l]
  /\ logins' = [logins EXCEPT ![l] = Nobody]
  /\ UNCHANGED <<tenants, requests, content, datasets>>

GiveUp(l) ==
  /\ logins[l] # Nobody
  /\ logins' = [logins EXCEPT ![l] = Nobody]
  /\ UNCHANGED <<tenants, users, requests, content, datasets>>

-----------------------------------------------------------------------------
Configured(s) == s \in tenants[Owner].sectors

\* Creating or editing a persona, question, rule or matrix: the guard writes the
\* tenant row in the transaction of the content write.
WriteContent(i, s) ==
  /\ Configured(s)
  /\ content' = [content EXCEPT ![i] = s]
  /\ UNCHANGED <<tenants, users, requests, logins, datasets>>

SetDataset(d, status) == datasets' = [datasets EXCEPT ![d].status = status]

\* The upload is parsed and cross-validated before the transaction that stores it.
Preflight(d, s) ==
  /\ datasets[d].status = "none"
  /\ datasets' = [datasets EXCEPT ![d] =
       [status |-> IF Configured(s) THEN "checked" ELSE "invalid", sector |-> s]]
  /\ UNCHANGED <<tenants, users, requests, logins, content>>

\* Mutation: the stored status follows from the first check alone.
StoreUnchecked(d) ==
  /\ datasets[d].status \in {"checked", "invalid"}
  /\ SetDataset(d, IF datasets[d].status = "checked" THEN "validated" ELSE "rejected")
  /\ UNCHANGED <<tenants, users, requests, logins, content>>

Store(d) ==
  /\ datasets[d].status \in {"checked", "invalid"}
  /\ SetDataset(d, IF datasets[d].status = "checked" /\ Configured(datasets[d].sector)
                   THEN "validated" ELSE "rejected")
  /\ UNCHANGED <<tenants, users, requests, logins, content>>

Approve(d) ==
  /\ datasets[d].status = "validated"
  /\ SetDataset(d, "approved")
  /\ UNCHANGED <<tenants, users, requests, logins, content>>

\* The content services guard the sector again while a dataset is applied.
Activate(d, i) ==
  /\ datasets[d].status = "approved"
  /\ Configured(datasets[d].sector)
  /\ content' = [content EXCEPT ![i] = datasets[d].sector]
  /\ SetDataset(d, "active")
  /\ UNCHANGED <<tenants, users, requests, logins>>

\* Applying it failed for another reason, and the failure was recorded.
FailActivation(d) ==
  /\ datasets[d].status = "approved"
  /\ SetDataset(d, "failed")
  /\ UNCHANGED <<tenants, users, requests, logins, content>>

-----------------------------------------------------------------------------
Administer(q) ==
  \/ \E u \in Users : Authenticate(q, u)
  \/ Refuse(q)
  \/ \E u \in Users, role \in Roles :
       \/ CreateUser(q, u, role)
       \/ \E status \in {"active", "disabled"} : UpdateUser(q, u, role, status)
  \/ \E plan \in {"free", "paid"}, sectors \in SUBSET Sectors \ {{}}, domain \in Domains \cup {NoDomain} :
       PatchTenant(q, plan, sectors, domain)

SignIn(l) ==
  \/ \E u \in Users : Resolve(l, u) \/ SelfSignup(l, u)
  \/ Finalize(l) \/ GiveUp(l)

Apply(d) ==
  \/ \E s \in Sectors : Preflight(d, s)
  \/ Store(d) \/ Approve(d) \/ FailActivation(d)
  \/ \E i \in Items : Activate(d, i)

TenantsNext ==
  \/ \E q \in Requests : Administer(q)
  \/ \E l \in Logins : SignIn(l)
  \/ \E d \in Datasets : Apply(d)
  \/ \E i \in Items, s \in Sectors : WriteContent(i, s)

TenantsSpec == TenantsInit /\ [][TenantsNext]_tenantsVars

-----------------------------------------------------------------------------
\* A FREE tenant has no managed account, also when administrators whose requests
\* are still under way demote each other, the plan is changed and one of those
\* requests then invites or promotes somebody.
RolesFitPlan ==
  \A u \in Users : Exists(u) => Allowed(tenants[Home[u]].plan, users[u].role)

\* No document and no dataset that may still be applied names a sector its tenant
\* does not have, whenever sectors are removed between the checks of an upload.
NoStrandedSector == InUse \subseteq tenants[Owner].sectors \cup {NoSector}

\* An account that is bound to an identity keeps it, however many identities
\* resolved the invitation at the same time and whoever edits the account.
KeepsIdentity == \A u \in Users : users[u].uid # Invited => users'[u].uid = users[u].uid
BoundOnce == [][KeepsIdentity]_users

\* "the email domain must be unique across tenants" (system/routes.ts).
DomainUnique ==
  \A t1, t2 \in Tenants :
    t1 # t2 /\ tenants[t1].domain # NoDomain => tenants[t1].domain # tenants[t2].domain
=============================================================================
