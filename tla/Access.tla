--------------------------------- MODULE Access ---------------------------------
(***************************************************************************)
(* Who sees and decides which assessment of one tenant                      *)
(* (modules/assessments/service.ts and public-demo-scope.ts), and the cache *)
(* of reports computed within that scope (modules/reports/service.ts).     *)
(*                                                                         *)
(* The tenant is the one with the public demo: next to its ordinary         *)
(* accounts it has guests, the accounts of the demo identities, which all    *)
(* visitors share; a visitor is told apart by the tag of his session.  An    *)
(* administrator may change any account; one that has lost the role of its   *)
(* demo identity is an ordinary account.  An account and the features of     *)
(* the tenant are read when a request is authenticated; a decision is        *)
(* carried out later, in a transaction that reads the assessment and the     *)
(* candidates again, but not the caller.  A report is one step: what it      *)
(* selects on never changes in an assessment.  Its rows are the assessments  *)
(* it counts.                                                              *)
(***************************************************************************)
EXTENDS Integers, FiniteSets

CONSTANTS
  Assessments,
  Departments,
  Members,      \* ordinary accounts
  Guests,       \* accounts of demo identities
  Visitors,     \* tags of sandbox sessions
  Accounts,     \* Accounts[u]: the values the account of u may have
  GuestRole,    \* GuestRole[g]: the role of the demo identity g
  FeatureSets,  \* what the plan of the tenant may enable
  Requests,     \* decisions under way
  MaxCached,    \* bound: cached reports
  Nobody        \* no department, no tag, no reviewer

Users == Members \cup Guests
Account == [role : {"requestor", "administrator", "system_administrator", "audit"},
            active : BOOLEAN, departments : SUBSET Departments, cross : BOOLEAN]

ASSUME AccessOK ==
  /\ Accounts \in [Users -> SUBSET Account]
  /\ Members \cap Guests = {} /\ Nobody \notin Users \cup Visitors \cup Departments
  /\ \A F \in FeatureSets : F \subseteq {"reviewDashboard", "reports"}
  /\ MaxCached \in Nat
  \* publicDemoIdentityForRole: one demo account for each role.
  /\ \A g, h \in Guests : GuestRole[g] = GuestRole[h] => g = h

VARIABLES
  account,   \* account[u]
  features,  \* the features of the tenant
  docs,      \* docs[a]: the stored assessment
  cache,     \* the reports collection: scope key -> rows
  request    \* request[r]: a decision under way

vars == <<account, features, docs, cache, request>>

NoDoc == [status |-> "none", owner |-> Nobody, department |-> Nobody, tag |-> Nobody, to |-> Nobody]
Idle  == [user |-> Nobody]

\* The caller of a request: its account and features as authenticated, the tag of its sandbox session.
Caller(u, t) == [user |-> u, account |-> account[u], features |-> features, tag |-> t]

\* isPublicDemoAccount: the role on the account is that of the demo identity.
IsDemo(u) == u \in Guests /\ account[u].role = GuestRole[u]

\* An account that is a demo account at that moment comes through the sandbox only, any other
\* never does.
Callers == {Caller(u, Nobody) : u \in {x \in Users : account[x].active /\ ~IsDemo(x)}}
             \cup {Caller(g, v) : g \in {x \in Guests : account[x].active /\ IsDemo(x)}, v \in Visitors}

Sandbox(c)     == c.tag # Nobody
IsRequestor(c) == c.account.role = "requestor"
Has(c, f)      == f \in c.features
Stored         == {a \in Assessments : docs[a].status # "none"}

-------------------------------------------------------------------------------
(* Scope *)

\* publicDemoAssessmentFilter: a visitor has what his session began, a demo operator the seeded rest.
InSandboxScope(c, d) ==
  Sandbox(c) => d.tag = (IF IsRequestor(c) THEN c.tag ELSE Nobody)

IsOwner(c, d)          == d.owner = c.user
IsEscalatee(c, d)      == d.to = c.user
SharesDepartment(c, d) == d.department \in c.account.departments
ReviewScope(c, d) ==
  Has(c, "reviewDashboard") /\ (c.account.cross \/ SharesDepartment(c, d))

\* Mutation: what was routed to somebody is subject to his review scope.
ReadableInScope(c, d) ==
  /\ InSandboxScope(c, d)
  /\ ~IsRequestor(c) \/ IsOwner(c, d) \/ ReviewScope(c, d)

\* loadReadableFor
Readable(c, d) ==
  /\ InSandboxScope(c, d)
  /\ ~IsRequestor(c) \/ IsOwner(c, d) \/ IsEscalatee(c, d) \/ ReviewScope(c, d)

\* loadDecidableFor
Decidable(c, d) == IsRequestor(c) /\ Readable(c, d)

\* list: the scope of its query.
Listed(c) ==
  LET mine == {a \in Stored : docs[a].owner = c.user \/ docs[a].to = c.user}
      all  == {a \in Stored : InSandboxScope(c, docs[a])}
  IN IF ~IsRequestor(c) \/ (Has(c, "reviewDashboard") /\ c.account.cross) THEN all
     ELSE IF Has(c, "reviewDashboard") /\ c.account.departments # {}
       THEN all \cap (mine \cup {a \in Stored : docs[a].department \in c.account.departments})
     ELSE all \cap mine

\* escalationCandidates: from the accounts as they are now.
Candidates(c, d) ==
  IF ~Has(c, "reviewDashboard") THEN {}
  ELSE {u \in Users \ {c.user} :
          /\ account[u].role = "requestor" /\ account[u].active
          /\ account[u].cross \/ d.department \in account[u].departments}

-------------------------------------------------------------------------------
(* Reports *)

\* baseMatch
Matching(c) ==
  {a \in Stored :
     /\ InSandboxScope(c, docs[a])
     /\ IsRequestor(c) /\ ~c.account.cross =>
          docs[a].owner = c.user \/ docs[a].department \in c.account.departments}

\* Mutation: the key of a visitor is that of his account.
scopeKeyOfAccount(c) ==
  IF IsRequestor(c) /\ ~c.account.cross
    THEN [role |-> "requestor", user |-> c.user, departments |-> c.account.departments]
    ELSE [role |-> IF Sandbox(c) THEN "public_demo_seeded_history" ELSE "tenant"]

\* scopeKey: what tells the cached results of two callers apart.
scopeKey(c) ==
  IF Sandbox(c)
    THEN IF IsRequestor(c) THEN [role |-> "public_demo_requestor", visitor |-> c.tag]
                           ELSE [role |-> "public_demo_seeded_history"]
    ELSE IF IsRequestor(c) /\ ~c.account.cross
      THEN [role |-> "requestor", user |-> c.user, departments |-> c.account.departments]
      ELSE [role |-> "tenant"]

\* What cached answers: the stored result of the key, else a new one.
Answer(c) == IF scopeKey(c) \in DOMAIN cache THEN cache[scopeKey(c)] ELSE Matching(c)

\* The result of a miss, or of `refresh', is stored.
Report(c) ==
  /\ Has(c, "reports")
  /\ scopeKey(c) \in DOMAIN cache \/ Cardinality(DOMAIN cache) < MaxCached
  /\ cache' = [k \in DOMAIN cache \cup {scopeKey(c)} |->
                 IF k = scopeKey(c) THEN Matching(c) ELSE cache[k]]
  /\ UNCHANGED <<account, features, docs, request>>

\* The index on generatedAt removes a result after its hour.
Expire(k) ==
  /\ cache' = [l \in DOMAIN cache \ {k} |-> cache[l]]
  /\ UNCHANGED <<account, features, docs, request>>

-------------------------------------------------------------------------------
(* Assessments *)

\* start: of the first department of the caller; the intake and its result are in Assessment.
Start(a, c) ==
  /\ docs[a] = NoDoc /\ IsRequestor(c)
  /\ \E d \in IF c.account.departments = {} THEN {Nobody} ELSE c.account.departments :
       docs' = [docs EXCEPT ![a] =
         [status |-> "awaiting_decision", owner |-> c.user, department |-> d, tag |-> c.tag,
          to |-> Nobody]]
  /\ UNCHANGED <<account, features, cache, request>>

\* A decision arrives and is authenticated.
Authenticate(r, c) ==
  /\ request[r] = Idle /\ IsRequestor(c)
  /\ request' = [request EXCEPT ![r] = c]
  /\ UNCHANGED <<account, features, docs, cache>>

MayDecide(r, a) ==
  /\ request[r] # Idle /\ Decidable(request[r], docs[a])
  /\ docs[a].status \in {"awaiting_decision", "escalated"}

Finish(r) ==
  /\ request' = [request EXCEPT ![r] = Idle]
  /\ UNCHANGED <<account, features, cache>>

\* decide: accept or override.  The reviewer it was routed to stays on the record.
Close(r, a) ==
  /\ MayDecide(r, a)
  /\ docs' = [docs EXCEPT ![a].status = "closed"]
  /\ Finish(r)

\* Mutation: the reviewer named in the request is taken from the list shown before.
EscalateToNamed(r, a) ==
  /\ MayDecide(r, a)
  /\ \E u \in {Nobody} \cup (Users \ {request[r].user}) :
       docs' = [docs EXCEPT ![a].status = "escalated", ![a].to = u]
  /\ Finish(r)

\* decide: escalate, to a candidate or to nobody in particular.
Escalate(r, a) ==
  /\ MayDecide(r, a)
  /\ \E u \in {Nobody} \cup Candidates(request[r], docs[a]) :
       docs' = [docs EXCEPT ![a].status = "escalated", ![a].to = u]
  /\ Finish(r)

Refuse(r) == request[r] # Idle /\ Finish(r) /\ UNCHANGED docs

-------------------------------------------------------------------------------
(* What Tenants does to the accounts and the plan *)

\* updateUser, of a demo account too: what routes.ts protects from sandbox sessions, the role and
\* the disabling of a demo account, an ordinary administrator may change like the rest.
ChangeAccount(u) ==
  /\ \E x \in Accounts[u] : account' = [account EXCEPT ![u] = x]
  /\ UNCHANGED <<features, docs, cache, request>>

ChangePlan ==
  /\ features' \in FeatureSets
  /\ UNCHANGED <<account, docs, cache, request>>

Init ==
  /\ account \in [Users -> UNION {Accounts[u] : u \in Users}]
  /\ \A u \in Users : account[u] \in Accounts[u]
  /\ features \in FeatureSets
  /\ docs = [a \in Assessments |-> NoDoc]
  /\ cache = << >>
  /\ request = [r \in Requests |-> Idle]

Next ==
  \/ \E c \in Callers : \/ Report(c)
                        \/ \E a \in Assessments : Start(a, c)
                        \/ \E r \in Requests : Authenticate(r, c)
  \/ \E k \in DOMAIN cache : Expire(k)
  \/ \E r \in Requests : \/ Refuse(r)
                         \/ \E a \in Assessments : Close(r, a) \/ Escalate(r, a)
  \/ \E u \in Users : ChangeAccount(u)
  \/ ChangePlan

Spec == Init /\ [][Next]_vars

-------------------------------------------------------------------------------
(* Properties *)

\* The query of the list and the check of a single assessment are two pieces of code: whatever
\* roles, departments, routing and plan have become, everybody can open what his list shows, and
\* his list shows what he can open.
ListShowsWhatOpens ==
  \A c \in Callers : Listed(c) = {a \in Stored : Readable(c, docs[a])}

\* Whoever filled the cache and whatever happened to accounts and plan since, a report holds no
\* assessment its reader would not be counting himself.
ReportsStayInScope ==
  \A c \in Callers : Has(c, "reports") => Answer(c) \subseteq Matching(c)

\* At the moment an assessment is routed to somebody, he is an active requestor whose departments
\* or access reach it, even when the list he was chosen from is older; and nobody routes to himself.
ReachedAsRouted ==
  \A a \in Assessments :
    docs[a].to # docs'[a].to /\ docs'[a].to # Nobody =>
      LET x == account[docs'[a].to] IN
      /\ x.role = "requestor" /\ x.active
      /\ x.cross \/ docs[a].department \in x.departments
      /\ \A r \in Requests : request[r] # Idle /\ request'[r] = Idle =>
           request[r].user # docs'[a].to
RoutedWithinReach == [][ReachedAsRouted]_vars
===============================================================================
