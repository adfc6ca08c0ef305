------------------------------- MODULE Sessions -------------------------------
(***************************************************************************)
(* The application sessions of one account (modules/auth/service.ts), the   *)
(* login exchange that opens them (modules/auth/routes.ts) and the requests *)
(* that use them (middleware/auth.ts, middleware/session.ts).               *)
(*                                                                         *)
(* An exchange authenticates, then verifies its one-time code and opens the *)
(* session in one transaction on a snapshot.  Every audited transaction of  *)
(* a tenant commits only if no other one committed since its snapshot       *)
(* (AuditChain!CommitsOnCurrentSnapshot); what still runs beside it is the   *)
(* save of touch, which is neither audited nor part of a transaction.  A    *)
(* transaction that is one update, or that nothing can precede unseen for   *)
(* that reason, is one action here.  A session is named by the login that   *)
(* opened it.                                                              *)
(***************************************************************************)
EXTENDS Integers, FiniteSets

CONSTANTS
  Logins,       \* the login exchanges
  Requests,     \* clients that send a session id, one request at a time
  Codes,        \* the one-time codes mailed to the account
  None,         \* no code, or no session
  Accounts,     \* the states of the account: its user record and its tenant record
  Max,          \* sessionPolicy.maxConcurrentSessions
  DemoMax,      \* the limit of a public demo account (10 in the code)
  Idle,         \* sessionPolicy.idleTimeoutMin
  DemoIdle,     \* the idle timeout of a public demo session
  Lifetime,     \* PUBLIC_DEMO_SESSION_ABSOLUTE_MINUTES
  MaxTime,      \* bound: the clock stops here
  MaxChanges    \* bound: how often administrators change the account

AccountStates ==
  [role   : {"requestor", "administrator", "audit"},   \* "audit" also for a system administrator
   active : BOOLEAN,            \* user.status
   demo   : BOOLEAN,            \* isPublicDemoAccount
   plan   : {"free", "paid"},
   sso    : BOOLEAN,            \* features.sso with a provider id
   block  : BOOLEAN]            \* features.blockConcurrentLogin

AuditLog == "audit log"

ASSUME SessionsOK ==
  /\ None \notin Codes \cup Logins
  /\ AuditLog \notin Logins
  /\ IsFiniteSet(Logins)
  /\ Accounts \subseteq AccountStates
  /\ Max \in Nat \ {0} /\ DemoMax \in Nat \ {0}
  /\ Idle \in Nat \ {0} /\ DemoIdle \in 1..Idle
  /\ Lifetime \in Nat /\ Lifetime >= DemoIdle
  /\ MaxTime \in Nat /\ MaxChanges \in Nat

VARIABLES
  now,       \* the clock
  account,   \* the account as the database holds it
  changes,   \* how often it was changed
  sessions,  \* sessions[l]: the session login l opened
  codes,     \* codes[c]: where code c is in its life
  login,     \* login[l]: the exchange under way
  snap,      \* snap[l]: the sessions in the snapshot of l's transaction
  moved,     \* moved[l]: what was written since that snapshot: sessions, or the audit log
  call       \* call[r]: the request r has under way

vars == <<now, account, changes, sessions, codes, login, snap, moved, call>>

Methods  == {"single_factor", "firebase_mfa", "risk_sense_otp", "public_demo"}
Reasons  == {"timeout", "logout", "superseded", "admin", "role_changed"}

\* The end of a session that has no fixed one: later than any expiry the clock can lead to.
Never == MaxTime + Idle + Lifetime + 1

\* No session yet.  code and role are history: the code its exchange consumed, the role it was for.
Unused ==
  [state |-> "none", slot |-> 0, seen |-> 0, expires |-> 0, until |-> 0,
   method |-> "single_factor", code |-> None, role |-> "requestor"]

-------------------------------------------------------------------------------
(* Policy *)

\* allowedSessionAuthenticationMethods
Allowed(a) ==
  IF a.plan = "free" THEN {"single_factor", "firebase_mfa", "risk_sense_otp"}
  ELSE IF a.role = "requestor" /\ a.sso THEN {"firebase_mfa", "risk_sense_otp"}
  ELSE {"risk_sense_otp"}

\* Mutation: the method of the session is not checked again.
AssuredOnce(method, a) == TRUE

\* assuranceSatisfiesPolicy: a public demo account has public demo sessions and no others.
Assured(method, a) ==
  IF a.demo THEN method = "public_demo" ELSE method \in Allowed(a)

\* authenticate: what lets the owner of the account in, with a token of the tenant's provider or not.
Admits(a, viaSso) ==
  /\ a.active
  /\ a.plan = "free" => a.role = "requestor"
  /\ viaSso => a.sso
  /\ (a.plan = "paid" /\ a.role # "audit" /\ ~a.demo) => viaSso

\* POST /auth/session and the public demo route: the method an exchange ends up with.
MethodOf(a, viaSso, mfa) ==
  IF a.demo THEN "public_demo"
  ELSE IF viaSso /\ a.role = "requestor" /\ mfa THEN "firebase_mfa"
  ELSE IF a.plan = "paid" THEN "risk_sense_otp"
  ELSE "single_factor"

Limit(method)     == IF method = "public_demo" THEN DemoMax ELSE Max
IdleOf(method)    == IF method = "public_demo" THEN DemoIdle ELSE Idle
UntilOf(method, t) == IF method = "public_demo" THEN t + Lifetime ELSE Never

Blocks(a, method) == method = "public_demo" \/ a.block

\* The next expiry: the idle timeout from t on, but never past the end of the session.
Sliding(t, method, until) ==
  IF until < t + IdleOf(method) THEN until ELSE t + IdleOf(method)

IsOpen(s) == sessions[s].state = "open"

\* Mutation: terminate does not ask whether the session has ended already.
EndedAgain(rec, why) == [rec EXCEPT !.state = why]

\* terminate: findOneAndUpdate({sessionId, terminatedAt: null})
Ended(rec, why) == IF rec.state = "open" THEN [rec EXCEPT !.state = why] ELSE rec

-------------------------------------------------------------------------------
(* What an exchange decides on its snapshot S at time t *)

Stale(S, t)      == {s \in Logins : S[s].state = "open" /\ S[s].expires <= t}
Unassured(S, t, a) ==
  {s \in Logins : /\ S[s].state = "open" /\ S[s].expires > t
                  /\ ~Assured(S[s].method, a)}
Live(S, t, a) ==
  {s \in Logins : /\ S[s].state = "open" /\ S[s].expires > t
                  /\ Assured(S[s].method, a)}

Late(S, kept, u) == {s \in kept : S[s].expires <= u}

\* How many live sessions must go for the new one to fit.
Excess(live, limit) == IF Cardinality(live) >= limit THEN Cardinality(live) - limit + 1 ELSE 0

\* The choices of live.slice(0, excess) when live is sorted by lastSeenAt.
Oldest(S, live, n) ==
  {E \in SUBSET live : /\ Cardinality(E) = n
                       /\ \A s \in E, u \in live \ E : S[s].seen <= S[u].seen}

\* Array.from({length: max}).find: the lowest slot no kept session holds.
FreeSlots(S, kept, limit) == {n \in 0..(limit - 1) : \A s \in kept : S[s].slot # n}
Lowest(N) == CHOOSE n \in N : \A m \in N : n <= m

\* Mutation: nothing makes two exchanges of one account serial.
CommitsBlindly(l, gone) == TRUE

\* Mutation: the sessions are ended outside of the transaction.
CommitsUnseen(l, gone) == AuditLog \notin moved[l]

\* The transaction of l, which ends the sessions of gone, meets no other write.
Commits(l, gone) == moved[l] \cap (gone \cup {AuditLog}) = {}

\* The session login l inserts.
New(l, slot, t) ==
  [state |-> "open", slot |-> slot, seen |-> t, expires |-> t + IdleOf(login[l].method),
   until |-> UntilOf(login[l].method, t), method |-> login[l].method, code |-> login[l].code,
   role |-> login[l].as.role]

\* otpService.verify in the transaction of the exchange: the code is consumed.
WithUsed(c) == IF c = None THEN codes ELSE [codes EXCEPT ![c] = "used"]

\* An audited commit: every other open transaction now has to replay.
AuditedBy(l) ==
  moved' = [m \in Logins |->
              IF m = l THEN {}
              ELSE IF login[m].pc = "txn" THEN moved[m] \cup {AuditLog} ELSE moved[m]]
Audited ==
  moved' = [m \in Logins |->
              IF login[m].pc = "txn" THEN moved[m] \cup {AuditLog} ELSE moved[m]]
TouchedSession(s) ==
  moved' = [m \in Logins |->
              IF login[m].pc = "txn" THEN moved[m] \cup {s} ELSE moved[m]]

-------------------------------------------------------------------------------
(* Login exchanges *)

SomeAccount == CHOOSE a \in Accounts : TRUE
NoSessions  == [l \in Logins |-> Unused]
NoLogin(pc) == [pc |-> pc, as |-> SomeAccount, method |-> "single_factor", code |-> None, at |-> 0]
NoCall == [pc |-> "idle", as |-> SomeAccount, sid |-> None, copy |-> Unused, at |-> 0]

\* The exchange of l is answered; its snapshot is gone.
Over(l, pc) ==
  /\ login' = [login EXCEPT ![l] = NoLogin(pc)]
  /\ snap'  = [snap EXCEPT ![l] = NoSessions]

Init ==
  /\ now = 0
  /\ account \in Accounts
  /\ changes = 0
  /\ sessions = NoSessions
  /\ codes = [c \in Codes |-> "unsent"]
  /\ login = [l \in Logins |-> NoLogin("start")]
  /\ snap = [l \in Logins |-> NoSessions]
  /\ moved = [l \in Logins |-> {}]
  /\ call = [r \in Requests |-> NoCall]

\* otpService.request: the newest code is the one usable code.
SendCode(c) ==
  /\ codes[c] = "unsent"
  /\ codes' = [d \in Codes |-> IF d = c THEN "active"
                               ELSE IF codes[d] = "active" THEN "superseded" ELSE codes[d]]
  /\ Audited
  /\ UNCHANGED <<now, account, changes, sessions, login, snap, call>>

\* authenticate and the checks of the route: the account is read once and kept for the exchange.
Authenticate(l) ==
  /\ login[l].pc = "start"
  /\ \E viaSso, mfa \in BOOLEAN, c \in Codes \cup {None} :
       LET method == MethodOf(account, viaSso, mfa) IN
       /\ Admits(account, viaSso)
       /\ c # None <=> method = "risk_sense_otp"
       /\ login' = [login EXCEPT ![l] = [pc |-> "ready", as |-> account, method |-> method,
                                         code |-> c, at |-> now]]
  /\ UNCHANGED <<now, account, changes, sessions, codes, snap, moved, call>>

\* withMongoTransaction, otpService.verify: the snapshot shows the code as the active one.
Begin(l) ==
  /\ login[l].pc = "ready"
  /\ login[l].code # None => codes[login[l].code] = "active"
  /\ login' = [login EXCEPT ![l].pc = "txn", ![l].at = now]
  /\ snap'  = [snap EXCEPT ![l] = sessions]
  /\ moved' = [moved EXCEPT ![l] = {}]
  /\ UNCHANGED <<now, account, changes, sessions, codes, call>>

\* OTP_INVALID: no code is active, or it is another one and the failed attempt is audited.
RefuseCode(l) ==
  /\ login[l].pc = "ready"
  /\ login[l].code # None /\ codes[login[l].code] # "active"
  /\ Over(l, "refused")
  /\ IF \E c \in Codes : codes[c] = "active" THEN AuditedBy(l) ELSE UNCHANGED moved
  /\ UNCHANGED <<now, account, changes, sessions, codes, call>>

\* sessionService.create and the commit: what is stale or under-assured ends, the oldest live
\* sessions make room, the new one takes a free slot and the code is used up.  After making room the
\* loop looks again, at a later time u: what has expired meanwhile (late) ends too.
Open(l) ==
  /\ login[l].pc = "txn"
  /\ \E t, u \in login[l].at..now :
       LET S      == snap[l]
           method == login[l].method
           live   == Live(S, t, login[l].as)
           limit  == Limit(method)
       IN \E E \in Oldest(S, live, Excess(live, limit)) :
            LET late == Late(S, live \ E, u)
                gone == Stale(S, t) \cup Unassured(S, t, login[l].as) \cup E \cup late
                free == FreeSlots(S, live \ (E \cup late), limit)
            IN /\ t <= u /\ (E = {} => u = t)
               /\ Blocks(login[l].as, method) => Cardinality(live) < limit
               /\ free # {}
               /\ Commits(l, gone)
               /\ sessions' = [s \in Logins |->
                    IF s = l THEN New(l, Lowest(free), u)
                    ELSE IF s \in Stale(S, t) \cup late THEN Ended(sessions[s], "timeout")
                    ELSE IF s \in gone THEN Ended(sessions[s], "superseded")
                    ELSE sessions[s]]
  /\ codes' = WithUsed(login[l].code)
  /\ Over(l, "done")
  /\ AuditedBy(l)
  /\ UNCHANGED <<now, account, changes, call>>

\* Mutation: the code is verified in a transaction of its own.
BlockConsuming(l) ==
  /\ login[l].pc = "txn"
  /\ \E t \in login[l].at..now :
       /\ Blocks(login[l].as, login[l].method)
       /\ Cardinality(Live(snap[l], t, login[l].as)) >= Limit(login[l].method)
  /\ codes' = WithUsed(login[l].code)
  /\ Over(l, "refused")
  /\ AuditedBy(l)
  /\ UNCHANGED <<now, account, changes, sessions, call>>

\* ConcurrentSessionBlockedError: the transaction is rolled back, the rejection audited after it.
Block(l) ==
  /\ login[l].pc = "txn"
  /\ \E t \in login[l].at..now :
       /\ Blocks(login[l].as, login[l].method)
       /\ Cardinality(Live(snap[l], t, login[l].as)) >= Limit(login[l].method)
  /\ Over(l, "refused")
  /\ AuditedBy(l)
  /\ UNCHANGED <<now, account, changes, sessions, codes, call>>

\* The transaction met another write: the whole callback runs again on a fresh snapshot.
Replay(l) ==
  /\ login[l].pc = "txn"
  /\ moved[l] # {}
  /\ login' = [login EXCEPT ![l].pc = "ready"]
  /\ snap'  = [snap EXCEPT ![l] = NoSessions]
  /\ moved' = [moved EXCEPT ![l] = {}]
  /\ UNCHANGED <<now, account, changes, sessions, codes, call>>

\* Any later failure, or the last replay: everything the transaction wrote is rolled back.
Fail(l) ==
  /\ login[l].pc = "txn"
  /\ Over(l, "refused")
  /\ moved' = [moved EXCEPT ![l] = {}]
  /\ UNCHANGED <<now, account, changes, sessions, codes, call>>

-------------------------------------------------------------------------------
(* Requests that carry a session id *)

\* authenticate: by the token, or by a public demo session that is still open.
Arrive(r) ==
  /\ call[r].pc = "idle"
  /\ \E s \in Logins :
       /\ sessions[s].state # "none"
       /\ IF sessions[s].method = "public_demo"
            THEN IsOpen(s) /\ account.active
            ELSE \E viaSso \in BOOLEAN : Admits(account, viaSso)
       /\ call' = [call EXCEPT ![r] = [pc |-> "known", as |-> account, sid |-> s,
                                       copy |-> Unused, at |-> now]]
  /\ UNCHANGED <<now, account, changes, sessions, codes, login, snap, moved>>

\* touch: the session is read ...
Read(r) ==
  /\ call[r].pc = "known"
  /\ IsOpen(call[r].sid)
  /\ call' = [call EXCEPT ![r].pc = "read", ![r].copy = sessions[call[r].sid], ![r].at = now]
  /\ UNCHANGED <<now, account, changes, sessions, codes, login, snap, moved>>

\* ... is not active ...
RejectEnded(r) ==
  /\ call[r].pc = "known"
  /\ ~IsOpen(call[r].sid)
  /\ call' = [call EXCEPT ![r] = NoCall]
  /\ UNCHANGED <<now, account, changes, sessions, codes, login, snap, moved>>

\* ... has expired by the copy read, and is terminated ...
Expire(r) ==
  /\ call[r].pc = "read"
  /\ \E t \in call[r].at..now : call[r].copy.expires <= t \/ call[r].copy.until <= t
  /\ sessions' = [sessions EXCEPT ![call[r].sid] = Ended(@, "timeout")]
  /\ call' = [call EXCEPT ![r] = NoCall]
  /\ IF IsOpen(call[r].sid) THEN Audited ELSE UNCHANGED moved
  /\ UNCHANGED <<now, account, changes, codes, login, snap>>

\* ... lacks the assurance the account now asks for ...
RejectUnassured(r) ==
  /\ call[r].pc = "read"
  /\ \E t \in call[r].at..now : call[r].copy.expires > t /\ call[r].copy.until > t
  /\ ~Assured(call[r].copy.method, call[r].as)
  /\ call' = [call EXCEPT ![r] = NoCall]
  /\ UNCHANGED <<now, account, changes, sessions, codes, login, snap, moved>>

\* ... or lastSeenAt and expiresAt are saved, whatever became of the session meanwhile.
Accept(r) ==
  /\ call[r].pc = "read"
  /\ Assured(call[r].copy.method, call[r].as)
  /\ \E t \in call[r].at..now :
       /\ call[r].copy.expires > t /\ call[r].copy.until > t
       /\ sessions' = [sessions EXCEPT
            ![call[r].sid].seen = t,
            ![call[r].sid].expires = Sliding(t, call[r].copy.method, call[r].copy.until)]
  /\ call' = [call EXCEPT ![r].pc = "accepted"]
  /\ TouchedSession(call[r].sid)
  /\ UNCHANGED <<now, account, changes, codes, login, snap>>

\* DELETE /auth/session
Logout(r) ==
  /\ call[r].pc = "accepted"
  /\ sessions' = [sessions EXCEPT ![call[r].sid] = Ended(@, "logout")]
  /\ call' = [call EXCEPT ![r] = NoCall]
  /\ IF IsOpen(call[r].sid) THEN Audited ELSE UNCHANGED moved
  /\ UNCHANGED <<now, account, changes, codes, login, snap>>

\* Any other request is answered.
Answer(r) ==
  /\ call[r].pc = "accepted"
  /\ call' = [call EXCEPT ![r] = NoCall]
  /\ UNCHANGED <<now, account, changes, sessions, codes, login, snap, moved>>

-------------------------------------------------------------------------------
(* Administration and time *)

\* terminateAllForUser
EndAll(why) == sessions' = [s \in Logins |-> Ended(sessions[s], why)]

\* updateUser: a change of role or status ends the sessions in the same transaction.
ChangeUser ==
  /\ changes < MaxChanges
  /\ \E a \in Accounts :
       /\ a.role # account.role \/ a.active # account.active
       /\ a.plan = account.plan /\ a.sso = account.sso /\ a.block = account.block
       /\ a.role = account.role => a.demo = account.demo
       /\ a.plan = "free" => a.role = "requestor"
       /\ account' = a
       /\ EndAll(IF a.role # account.role THEN "role_changed" ELSE "admin")
  /\ changes' = changes + 1
  /\ Audited
  /\ UNCHANGED <<now, codes, login, snap, call>>

\* reconcileMongoUser: the user becomes a public demo identity, or is one and loses its sessions.
Promote ==
  /\ changes < MaxChanges
  /\ account.plan = "paid"
  /\ account' \in Accounts /\ account' = [account EXCEPT !.demo = TRUE, !.active = TRUE]
  /\ EndAll("admin")
  /\ changes' = changes + 1
  /\ IF account' # account \/ \E s \in Logins : IsOpen(s) THEN Audited ELSE UNCHANGED moved
  /\ UNCHANGED <<now, codes, login, snap, call>>

\* PATCH /system/tenant: plan, SSO and the concurrency policy change, the sessions stay.
ChangeTenant ==
  /\ changes < MaxChanges
  /\ \E a \in Accounts :
       /\ a # account
       /\ a.role = account.role /\ a.active = account.active /\ a.demo = account.demo
       /\ (a.plan = "free" /\ account.plan = "paid") => account.role = "requestor"
       /\ account' = a
  /\ changes' = changes + 1
  /\ Audited
  /\ UNCHANGED <<now, sessions, codes, login, snap, call>>

Tick ==
  /\ now < MaxTime
  /\ now' = now + 1
  /\ UNCHANGED <<account, changes, sessions, codes, login, snap, moved, call>>

Next ==
  \/ \E c \in Codes : SendCode(c)
  \/ \E l \in Logins : \/ Authenticate(l) \/ Begin(l) \/ RefuseCode(l) \/ Open(l)
                       \/ Block(l) \/ Replay(l) \/ Fail(l)
  \/ \E r \in Requests : \/ Arrive(r) \/ Read(r) \/ RejectEnded(r) \/ Expire(r)
                         \/ RejectUnassured(r) \/ Accept(r) \/ Logout(r) \/ Answer(r)
  \/ ChangeUser
  \/ Promote
  \/ ChangeTenant
  \/ Tick

Spec == Init /\ [][Next]_vars

-------------------------------------------------------------------------------
(* Properties *)

Times == 0..(Never + Lifetime)
Slots == 0..((IF Max < DemoMax THEN DemoMax ELSE Max) - 1)
SessionRecords ==
  [state : {"none", "open"} \cup Reasons, slot : Slots, seen : Times,
   expires : Times, until : Times, method : Methods, code : Codes \cup {None},
   role : {"requestor", "administrator", "audit"}]

LoginRecords ==
  [pc : {"start", "ready", "txn", "done", "refused"}, as : Accounts, method : Methods,
   code : Codes \cup {None}, at : 0..MaxTime]
CallRecords ==
  [pc : {"idle", "known", "read", "accepted"}, as : Accounts, sid : Logins \cup {None},
   copy : SessionRecords, at : 0..MaxTime]

TypeOK ==
  /\ now \in 0..MaxTime
  /\ account \in Accounts
  /\ changes \in 0..MaxChanges
  /\ sessions \in [Logins -> SessionRecords]
  /\ codes \in [Codes -> {"unsent", "active", "superseded", "used"}]
  /\ login \in [Logins -> LoginRecords]
  /\ snap \in [Logins -> [Logins -> SessionRecords]]
  /\ moved \in [Logins -> SUBSET (Logins \cup {AuditLog})]
  /\ call \in [Requests -> CallRecords]

\* However exchanges, requests and terminations interleave, the sessions that are not terminated
\* never exceed the limit of their kind, and no two of them share a slot: the bound
\* maxConcurrentSessions and the unique index on {userId, slot}.
WithinLimit ==
  /\ \A s, u \in Logins :
       (s # u /\ IsOpen(s) /\ IsOpen(u)) => sessions[s].slot # sessions[u].slot
  /\ \A s \in Logins : IsOpen(s) => sessions[s].slot < Limit(sessions[s].method)

\* A one-time code is used up exactly when it opened a session, and it opened one session only:
\* verify and create are one transaction, so a rejected or replayed exchange gives the code back.
CodeOpensOneSession ==
  \A c \in Codes :
    /\ codes[c] = "used" <=> \E s \in Logins : sessions[s].code = c
    /\ \A s, u \in Logins : (sessions[s].code = c /\ sessions[u].code = c) => s = u

\* A request is accepted for a managed role of a paid tenant only on a session whose own exchange
\* consumed a code, and for a public demo account only on a demo session, whatever the account
\* was when the session was opened.
AcceptedWithOwnFactor ==
  \A r \in Requests :
    call[r].pc = "accepted" =>
      LET s == sessions[call[r].sid] IN
      /\ call[r].as.demo <=> s.method = "public_demo"
      /\ (call[r].as.plan = "paid" /\ call[r].as.role # "requestor" /\ ~call[r].as.demo) =>
           s.code # None /\ codes[s.code] = "used"

\* What create reads as the expiry of a session covers its absolute end too: no open session
\* counts as live, or is extended, past the end of its lifetime.
ExpiryWithinLifetime ==
  \A s \in Logins : sessions[s].expires <= sessions[s].until

\* With blockConcurrentLogin, and for public demo accounts, an exchange never ends a session that
\* is live and sufficient for the account it authenticated.
BlockedLoginSparesLive ==
  [][\A l, s \in Logins :
       (/\ login[l].pc = "txn" /\ login'[l].pc = "done"
        /\ Blocks(login[l].as, login[l].method)
        /\ IsOpen(s) /\ ~IsOpen(s)') =>
          sessions[s].expires <= now \/ ~Assured(sessions[s].method, login[l].as)]_vars

\* An exchange supersedes live, sufficient sessions only for room it needs: with what expired in
\* the same commit, it leaves as many sessions as the limit allows.
EvictsOnlyForRoom ==
  [][\A l, s \in Logins :
       (/\ login[l].pc = "txn" /\ login'[l].pc = "done"
        /\ IsOpen(s) /\ sessions'[s].state = "superseded"
        /\ Assured(sessions[s].method, login[l].as)) =>
          Cardinality({u \in Logins : \/ IsOpen(u)'
                                      \/ IsOpen(u) /\ sessions'[u].state = "timeout"})
            >= Limit(login[l].method)]_vars

\* A session ends once: no request that still holds an older copy reopens it or terminates it
\* again, with another reason and a second audit entry.
EndedOnce ==
  [][\A s \in Logins :
       sessions[s].state \in Reasons => sessions'[s].state = sessions[s].state]_vars

\* The comment at terminateAllForUser: existing sessions end so the new role applies at next login.
RoleAppliesAtNextLogin ==
  \A r \in Requests :
    call[r].pc = "accepted" => sessions[call[r].sid].role = call[r].as.role

\* The comment at touch: it validates and extends the session on every request.
TouchOnlyExtends ==
  [][\A s \in Logins :
       IsOpen(s) /\ IsOpen(s)' => sessions'[s].expires >= sessions[s].expires]_vars

===============================================================================
