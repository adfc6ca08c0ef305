------------------------------ MODULE AccessProofs ------------------------------
(***************************************************************************)
(* Proofs about Access: for any accounts, guests, visitors, assessments and  *)
(* plans, lists and pages agree, a cached report stays within the scope of  *)
(* its reader, and what is routed is routed to somebody it reaches.         *)
(***************************************************************************)
EXTENDS Access, TLAPS

Documents == [status : {"none", "awaiting_decision", "escalated", "closed"},
              owner : Users \cup {Nobody}, department : Departments \cup {Nobody},
              tag : Visitors \cup {Nobody}, to : Users \cup {Nobody}]

\* Whoever may call, whatever account and features he may have then.
Possible ==
  {c \in [user : Users, account : Account, features : FeatureSets, tag : Visitors \cup {Nobody}] :
     c.tag # Nobody => c.user \in Guests /\ c.account.role = GuestRole[c.user]}

TypeInv ==
  /\ account \in [Users -> Account]
  /\ features \in FeatureSets
  /\ docs \in [Assessments -> Documents]
  /\ \A r \in Requests : request[r] # Idle => request[r] \in Possible
  /\ DOMAIN request = Requests

\* What visitors begin belongs to the account of the demo requestor, whatever that account becomes.
TagsBelong ==
  \A a \in Assessments :
    docs[a].tag # Nobody => docs[a].owner \in Guests /\ GuestRole[docs[a].owner] = "requestor"

RecordsInv == TypeInv /\ TagsBelong

\* Whoever else shares the key: what is stored under it he could have counted himself.
CacheInv ==
  \A c \in Possible : scopeKey(c) \in DOMAIN cache => cache[scopeKey(c)] \subseteq Matching(c)

IInv == RecordsInv /\ CacheInv

-------------------------------------------------------------------------------
(* Facts about one caller *)

\* The query of the list and the check of the page select the same.
LEMMA ListIsReadable ==
  ASSUME NEW c
  PROVE  Listed(c) = {a \in Stored : Readable(c, docs[a])}
<1>1. CASE ~IsRequestor(c) \/ (Has(c, "reviewDashboard") /\ c.account.cross)
  BY <1>1 DEF Listed, Readable, ReviewScope
<1>2. CASE IsRequestor(c) /\ ~(Has(c, "reviewDashboard") /\ c.account.cross)
  BY <1>2 DEF Listed, Readable, ReviewScope, SharesDepartment, IsOwner, IsEscalatee
<1> QED
  BY <1>1, <1>2

\* Callers are possible ones.
LEMMA CallersArePossible ==
  TypeInv => Callers \subseteq Possible
<1> SUFFICES ASSUME TypeInv PROVE Callers \subseteq Possible
  OBVIOUS
<1>1. ASSUME NEW u \in Users PROVE Caller(u, Nobody) \in Possible
  BY DEF Caller, TypeInv, Possible
<1>2. ASSUME NEW g \in Guests, NEW v \in Visitors, IsDemo(g) PROVE Caller(g, v) \in Possible
  BY <1>2 DEF Caller, TypeInv, Users, Possible, IsDemo
<1> QED
  BY <1>1, <1>2 DEF Callers

\* A visitor counts what carries his tag, whatever departments the demo account has: all of it is
\* the account's own.
LEMMA VisitorCountsHisOwn ==
  ASSUME RecordsInv, NEW c \in Possible, Sandbox(c), IsRequestor(c)
  PROVE  Matching(c) = {a \in Stored : docs[a].tag = c.tag}
<1>1. c.user \in Guests /\ GuestRole[c.user] = "requestor"
  BY DEF Possible, Sandbox, IsRequestor
<1>2. ASSUME NEW a \in Stored, docs[a].tag = c.tag PROVE docs[a].owner = c.user
  <2>1. docs[a].owner \in Guests /\ GuestRole[docs[a].owner] = "requestor"
    BY <1>2 DEF RecordsInv, TagsBelong, Stored, Sandbox
  <2> QED
    BY <1>1, <2>1, AccessOK
<1> QED
  BY <1>2 DEF Matching, InSandboxScope

\* Two callers of one key count the same assessments.
LEMMA KeyDeterminesRows ==
  ASSUME RecordsInv, NEW c \in Possible, NEW d \in Possible, scopeKey(c) = scopeKey(d)
  PROVE  Matching(c) = Matching(d)
<1> DEFINE Narrow(x) == IsRequestor(x) /\ ~x.account.cross
<1>0. ASSUME NEW x
      PROVE  scopeKey(x).role = IF Sandbox(x)
                THEN IF IsRequestor(x) THEN "public_demo_requestor" ELSE "public_demo_seeded_history"
                ELSE IF Narrow(x) THEN "requestor" ELSE "tenant"
  BY DEF scopeKey
<1>1. CASE ~Sandbox(c) /\ Narrow(c)
  <2>1. scopeKey(c) = [role |-> "requestor", user |-> c.user, departments |-> c.account.departments]
    BY <1>1 DEF scopeKey
  <2>2. ~Sandbox(d) /\ Narrow(d)
    BY <1>0, <1>1
  <2>3. scopeKey(d) = [role |-> "requestor", user |-> d.user, departments |-> d.account.departments]
    BY <2>2 DEF scopeKey
  <2>4. c.user = d.user /\ c.account.departments = d.account.departments
    <3>1. scopeKey(c).user = c.user /\ scopeKey(c).departments = c.account.departments
      BY <2>1
    <3>2. scopeKey(d).user = d.user /\ scopeKey(d).departments = d.account.departments
      BY <2>3
    <3> QED
      BY <3>1, <3>2
  <2> QED
    BY <1>1, <2>2, <2>4 DEF Matching, InSandboxScope
<1>2. CASE ~Sandbox(c) /\ ~Narrow(c)
  <2>2. ~Sandbox(d) /\ ~Narrow(d)
    BY <1>0, <1>2
  <2> QED
    BY <1>2, <2>2 DEF Matching, InSandboxScope
<1>3. CASE Sandbox(c) /\ IsRequestor(c)
  <2>1. scopeKey(c) = [role |-> "public_demo_requestor", visitor |-> c.tag]
    BY <1>3 DEF scopeKey
  <2>2. Sandbox(d) /\ IsRequestor(d)
    BY <1>0, <1>3
  <2>3. scopeKey(d) = [role |-> "public_demo_requestor", visitor |-> d.tag]
    BY <2>2 DEF scopeKey
  <2>4. c.tag = d.tag
    <3>1. scopeKey(c).visitor = c.tag
      BY <2>1
    <3>2. scopeKey(d).visitor = d.tag
      BY <2>3
    <3> QED
      BY <3>1, <3>2
  <2> QED
    BY <1>3, <2>2, <2>4, VisitorCountsHisOwn
<1>4. CASE Sandbox(c) /\ ~IsRequestor(c)
  <2>2. Sandbox(d) /\ ~IsRequestor(d)
    BY <1>0, <1>4
  <2> QED
    BY <1>4, <2>2 DEF Matching, InSandboxScope
<1> QED
  BY <1>1, <1>2, <1>3, <1>4

-------------------------------------------------------------------------------
(* Every step *)

\* The start: nothing is stored or cached.
LEMMA InitIInv ==
  Init => IInv
<1> SUFFICES ASSUME Init PROVE IInv
  OBVIOUS
<1>1. TypeInv
  <2>1. account \in [Users -> Account]
    BY AccessOK DEF Init
  <2> QED
    BY <2>1 DEF Init, TypeInv, NoDoc, Documents, Idle
<1>2. TagsBelong /\ CacheInv
  BY DEF Init, TagsBelong, NoDoc, CacheInv
<1> QED
  BY <1>1, <1>2 DEF IInv, RecordsInv

\* What is routed to whom when the assessments change.
LEMMA DecisionKeeps ==
  ASSUME RecordsInv, NEW r \in Requests, NEW a \in Assessments, Close(r, a) \/ Escalate(r, a)
  PROVE  /\ RecordsInv' /\ ReachedAsRouted
         /\ \A b \in Assessments : /\ (docs'[b].status = "none") <=> (docs[b].status = "none")
                                   /\ docs'[b].owner = docs[b].owner /\ docs'[b].tag = docs[b].tag
                                   /\ docs'[b].department = docs[b].department
<1>1. PICK s \in {"closed", "escalated"}, u \in Users \cup {Nobody} :
        /\ docs' = [docs EXCEPT ![a] = [docs[a] EXCEPT !.status = s, !.to = u]]
        /\ u = docs[a].to \/ u = Nobody \/ u \in Candidates(request[r], docs[a])
  <2>1. docs[a] \in Documents
    BY DEF RecordsInv, TagsBelong, TypeInv
  <2>2. CASE Close(r, a)
    <3>1. docs' = [docs EXCEPT ![a] = [docs[a] EXCEPT !.status = "closed", !.to = docs[a].to]]
      BY <2>1, <2>2 DEF Close, Documents
    <3> QED
      BY <2>1, <3>1 DEF Documents
  <2>3. CASE Escalate(r, a)
    <3>1. PICK u \in {Nobody} \cup Candidates(request[r], docs[a]) :
            docs' = [docs EXCEPT ![a] = [docs[a] EXCEPT !.status = "escalated", !.to = u]]
      BY <2>3 DEF Escalate
    <3>2. u \in Users \cup {Nobody}
      BY <3>1 DEF Candidates
    <3> QED
      BY <3>1, <3>2
  <2> QED
    BY <2>2, <2>3
<1>2. docs[a] \in Documents /\ docs[a].status \in {"awaiting_decision", "escalated"}
  BY DEF RecordsInv, TagsBelong, TypeInv, Close, Escalate, MayDecide
<1> DEFINE d == [docs[a] EXCEPT !.status = s, !.to = u]
<1>3. /\ d \in Documents /\ d.status = s /\ d.to = u /\ d.owner = docs[a].owner
      /\ d.tag = docs[a].tag /\ d.department = docs[a].department
  BY <1>1, <1>2 DEF Documents
<1> HIDE DEF d
<1>4. docs' \in [Assessments -> Documents] /\ \A b \in Assessments : docs'[b] = IF b = a THEN d ELSE docs[b]
  BY <1>1, <1>3 DEF RecordsInv, TagsBelong, TypeInv, d
<1>5. /\ request' = [request EXCEPT ![r] = Idle] /\ request[r] # Idle
      /\ UNCHANGED <<account, features, cache>>
  BY DEF Close, Escalate, Finish, MayDecide
<1>6. RecordsInv'
  BY <1>3, <1>4, <1>5 DEF RecordsInv, TypeInv, TagsBelong
<1>7. ReachedAsRouted
  <2> SUFFICES ASSUME NEW b \in Assessments, docs[b].to # docs'[b].to, docs'[b].to # Nobody
               PROVE  LET x == account[docs'[b].to] IN
                      /\ x.role = "requestor" /\ x.active
                      /\ x.cross \/ docs[b].department \in x.departments
                      /\ \A q \in Requests : request[q] # Idle /\ request'[q] = Idle =>
                           request[q].user # docs'[b].to
    BY DEF ReachedAsRouted
  <2>1. b = a /\ docs'[b].to = u /\ u \in Candidates(request[r], docs[a])
    BY <1>1, <1>3, <1>4
  <2>2. \A q \in Requests : request[q] # Idle /\ request'[q] = Idle => q = r
    BY <1>5 DEF RecordsInv, TagsBelong, TypeInv
  <2> QED
    BY <2>1, <2>2 DEF Candidates
<1> QED
  BY <1>1, <1>2, <1>3, <1>4, <1>6, <1>7

\* An intake has begun.
LEMMA StartKeeps ==
  ASSUME RecordsInv, NEW a \in Assessments, NEW c \in Callers, Start(a, c)
  PROVE  /\ RecordsInv' /\ ReachedAsRouted
         /\ \A b \in Assessments : docs[b].status # "none" => docs'[b] = docs[b]
<1>1. c \in Possible
  BY CallersArePossible DEF RecordsInv
<1>2. PICK d \in Departments \cup {Nobody} :
        docs' = [docs EXCEPT ![a] =
          [status |-> "awaiting_decision", owner |-> c.user, department |-> d, tag |-> c.tag, to |-> Nobody]]
  <2>1. c.account.departments \subseteq Departments
    BY <1>1 DEF Possible, Account
  <2> QED
    BY <2>1 DEF Start
<1> DEFINE n == [status |-> "awaiting_decision", owner |-> c.user, department |-> d, tag |-> c.tag, to |-> Nobody]
<1>3. n \in Documents /\ n.to = Nobody
  BY <1>1, <1>2 DEF Possible, Documents
<1> HIDE DEF n
<1>4. docs' \in [Assessments -> Documents] /\ \A b \in Assessments : docs'[b] = IF b = a THEN n ELSE docs[b]
  BY <1>2, <1>3 DEF RecordsInv, TagsBelong, TypeInv, n
<1>5. docs[a] = NoDoc /\ UNCHANGED <<account, features, cache, request>>
  BY DEF Start
<1>6. RecordsInv'
  <2>1. n.tag # Nobody => n.owner \in Guests /\ GuestRole[n.owner] = "requestor"
    BY <1>1 DEF n, Possible, Start, IsRequestor
  <2> QED
    BY <1>4, <1>5, <2>1 DEF RecordsInv, TypeInv, TagsBelong
<1>7. ReachedAsRouted
  BY <1>3, <1>4 DEF ReachedAsRouted
<1>8. \A b \in Assessments : docs[b].status # "none" => docs'[b] = docs[b]
  BY <1>4, <1>5 DEF NoDoc
<1> QED
  BY <1>6, <1>7, <1>8

\* What is stored stays what reports select on; what is added to the cache was selected with the same.
LEMMA StepTypes ==
  RecordsInv /\ [Next]_vars =>
    /\ RecordsInv' /\ ReachedAsRouted
    /\ \A a \in Assessments : docs[a].status # "none" =>
         /\ docs'[a].status # "none" /\ docs'[a].owner = docs[a].owner
         /\ docs'[a].tag = docs[a].tag /\ docs'[a].department = docs[a].department
<1> DEFINE Goal ==
      /\ RecordsInv' /\ ReachedAsRouted
      /\ \A a \in Assessments : docs[a].status # "none" =>
           /\ docs'[a].status # "none" /\ docs'[a].owner = docs[a].owner
           /\ docs'[a].tag = docs[a].tag /\ docs'[a].department = docs[a].department
<1> SUFFICES ASSUME RecordsInv, [Next]_vars PROVE Goal
  OBVIOUS
<1>1. ASSUME UNCHANGED docs, RecordsInv' PROVE Goal
  BY <1>1 DEF ReachedAsRouted
<1>2. ASSUME NEW c \in Callers, Report(c) PROVE Goal
  BY <1>1, <1>2 DEF Report, RecordsInv, TagsBelong, TypeInv
<1>3. ASSUME NEW c \in Callers, NEW a \in Assessments, Start(a, c) PROVE Goal
  BY <1>3, StartKeeps
<1>4. ASSUME NEW c \in Callers, NEW r \in Requests, Authenticate(r, c) PROVE Goal
  <2>1. c \in Possible
    BY CallersArePossible DEF RecordsInv
  <2> QED
    BY <1>1, <1>4, <2>1 DEF Authenticate, RecordsInv, TagsBelong, TypeInv
<1>5. ASSUME NEW k \in DOMAIN cache, Expire(k) PROVE Goal
  BY <1>1, <1>5 DEF Expire, RecordsInv, TagsBelong, TypeInv
<1>6. ASSUME NEW r \in Requests, Refuse(r) PROVE Goal
  BY <1>1, <1>6 DEF Refuse, Finish, RecordsInv, TagsBelong, TypeInv
<1>7. ASSUME NEW r \in Requests, NEW a \in Assessments, Close(r, a) \/ Escalate(r, a) PROVE Goal
  BY <1>7, DecisionKeeps
<1>8. ASSUME NEW u \in Users, ChangeAccount(u) PROVE Goal
  <2>1. PICK x \in Accounts[u] : account' = [account EXCEPT ![u] = x]
    BY <1>8 DEF ChangeAccount
  <2>2. account' \in [Users -> Account]
    BY <2>1, AccessOK DEF RecordsInv, TypeInv
  <2> QED
    BY <1>1, <1>8, <2>2 DEF ChangeAccount, RecordsInv, TagsBelong, TypeInv
<1>9. ASSUME ChangePlan PROVE Goal
  BY <1>1, <1>9 DEF ChangePlan, RecordsInv, TagsBelong, TypeInv
<1>10. ASSUME UNCHANGED vars PROVE Goal
  BY <1>1, <1>10 DEF vars, RecordsInv, TagsBelong, TypeInv
<1> HIDE DEF Goal
<1> QED
  BY <1>2, <1>3, <1>4, <1>5, <1>6, <1>7, <1>8, <1>9, <1>10 DEF Next

\* What a caller counted before a step he counts after it.
LEMMA MatchingGrows ==
  ASSUME RecordsInv, [Next]_vars, NEW c
  PROVE  Matching(c) \subseteq Matching(c)'
BY StepTypes DEF Matching, Stored, InSandboxScope, Sandbox, IsRequestor

\* Every step.
LEMMA NextIInv ==
  IInv /\ [Next]_vars => IInv'
<1> SUFFICES ASSUME IInv, [Next]_vars PROVE CacheInv'
  BY StepTypes DEF IInv
<1>1. \A c \in Possible : Matching(c) \subseteq Matching(c)'
  BY MatchingGrows DEF IInv
<1>2. ASSUME \A k \in DOMAIN cache' : k \in DOMAIN cache /\ cache'[k] = cache[k]
      PROVE  CacheInv'
  BY <1>1, <1>2 DEF IInv, CacheInv, scopeKey, Sandbox, IsRequestor
<1>3. ASSUME NEW c \in Callers, Report(c) PROVE CacheInv'
  <2>1. c \in Possible
    BY CallersArePossible DEF IInv, RecordsInv
  <2>2. /\ DOMAIN cache' = DOMAIN cache \cup {scopeKey(c)} /\ cache'[scopeKey(c)] = Matching(c)
        /\ \A k \in DOMAIN cache : k # scopeKey(c) => cache'[k] = cache[k]
    BY <1>3 DEF Report
  <2> SUFFICES ASSUME NEW d \in Possible, scopeKey(d) \in DOMAIN cache'
               PROVE  cache'[scopeKey(d)] \subseteq Matching(d)'
    BY DEF CacheInv, scopeKey, Sandbox, IsRequestor
  <2>3. CASE scopeKey(d) = scopeKey(c)
    BY <1>1, <2>1, <2>2, <2>3, KeyDeterminesRows DEF IInv
  <2>4. CASE scopeKey(d) # scopeKey(c)
    BY <1>1, <2>2, <2>4 DEF IInv, CacheInv
  <2> QED
    BY <2>3, <2>4
<1>4. ASSUME NEW k \in DOMAIN cache, Expire(k) PROVE CacheInv'
  BY <1>2, <1>4 DEF Expire
<1>5. ASSUME UNCHANGED cache PROVE CacheInv'
  BY <1>2, <1>5
<1> QED
  BY <1>3, <1>4, <1>5 DEF Next, vars, Start, Authenticate, Refuse, Finish, Close, Escalate,
       ChangeAccount, ChangePlan

\* The induction of the theorems that follow.
LEMMA AlwaysIInv ==
  Spec => []IInv
BY InitIInv, NextIInv, PTL DEF Spec

-------------------------------------------------------------------------------
(* The theorems *)

\* Whatever roles, departments, routing and plan have become, a list shows what its reader can open.
THEOREM AlwaysListShowsWhatOpens ==
  Spec => []ListShowsWhatOpens
<1>1. ListShowsWhatOpens
  BY ListIsReadable DEF ListShowsWhatOpens
<1> QED
  BY <1>1, PTL

\* Whoever filled the cache, a report holds no assessment its reader would not be counting.
THEOREM AlwaysReportsStayInScope ==
  Spec => []ReportsStayInScope
<1>1. IInv => ReportsStayInScope
  BY CallersArePossible DEF IInv, RecordsInv, CacheInv, ReportsStayInScope, Answer
<1> QED
  BY <1>1, AlwaysIInv, PTL

\* At the moment something is routed to somebody, he is active, it reaches him, and it is not his own
\* decision.
THEOREM AlwaysRoutedWithinReach ==
  Spec => RoutedWithinReach
<1>1. IInv /\ [Next]_vars => [ReachedAsRouted]_vars
  BY StepTypes DEF IInv
<1> QED
  BY <1>1, AlwaysIInv, PTL DEF Spec, RoutedWithinReach
===============================================================================
