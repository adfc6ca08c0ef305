---------------------------- MODULE SessionsProofs ----------------------------
(***************************************************************************)
(* What holds of Sessions for every number of exchanges, requests and codes *)
(* and for every limit and timeout.                                         *)
(***************************************************************************)
EXTENDS Sessions, TLAPS, FiniteSetTheorems, NaturalsInduction, WellFoundedInduction

\* Two copies of a session between which only touch can lie.
SameButTouched(a, b) ==
  /\ a.state = b.state /\ a.slot = b.slot /\ a.method = b.method
  /\ a.until = b.until /\ a.code = b.code

\* A session exists once its exchange is done.
OpenedByExchange ==
  \A l \in Logins :
    /\ sessions[l].state = "none" <=> login[l].pc # "done"
    /\ sessions[l].state = "none" => sessions[l].code = None

\* Exactly the exchanges with the second factor of RiskSense, and their sessions, have a code.
CodeIffFactor ==
  \A l \in Logins :
    /\ login[l].pc \in {"ready", "txn"} =>
         (login[l].method = "risk_sense_otp" <=> login[l].code # None)
    /\ sessions[l].state # "none" =>
         (sessions[l].method = "risk_sense_otp" <=> sessions[l].code # None)

\* A snapshot older than the last audited commit is known to be; any other shows the sessions as
\* they are, except those that touch has saved since.
SnapshotFresh ==
  \A l \in Logins :
    (login[l].pc = "txn" /\ AuditLog \notin moved[l]) =>
      /\ login[l].code # None => codes[login[l].code] = "active"
      /\ \A s \in Logins : /\ SameButTouched(snap[l][s], sessions[s])
                           /\ s \notin moved[l] => snap[l][s] = sessions[s]

\* A request works on a session that was opened; the copy it read still has its method and its end.
CallsAreOnSessions ==
  \A r \in Requests :
    call[r].pc # "idle" =>
      /\ call[r].sid \in Logins /\ sessions[call[r].sid].state # "none"
      /\ call[r].pc \in {"read", "accepted"} =>
           /\ call[r].copy.method = sessions[call[r].sid].method
           /\ call[r].copy.until = sessions[call[r].sid].until
      /\ call[r].pc = "accepted" => Assured(sessions[call[r].sid].method, call[r].as)

IInv ==
  /\ TypeOK
  /\ OpenedByExchange
  /\ CodeIffFactor
  /\ SnapshotFresh
  /\ CallsAreOnSessions
  /\ WithinLimit
  /\ CodeOpensOneSession
  /\ ExpiryWithinLifetime

-------------------------------------------------------------------------------
(* Expiry times, ended sessions, slots *)

LEMMA Timing ==
  ASSUME NEW t \in 0..MaxTime, NEW m \in Methods, NEW u \in Times
  PROVE  /\ t \in Times /\ t + IdleOf(m) \in Times /\ UntilOf(m, t) \in Times
         /\ t + IdleOf(m) <= UntilOf(m, t)
         /\ Sliding(t, m, u) \in Times /\ Sliding(t, m, u) <= u
<1>1. /\ Idle \in Nat \ {0} /\ DemoIdle \in 1..Idle /\ Lifetime \in Nat /\ Lifetime >= DemoIdle
      /\ MaxTime \in Nat
  BY SessionsOK
<1>2. IdleOf(m) \in Nat /\ IdleOf(m) <= Idle
  BY <1>1 DEF IdleOf
<1>3. UntilOf(m, t) \in Times /\ t + IdleOf(m) <= UntilOf(m, t)
  BY <1>1 DEF UntilOf, IdleOf, Times, Never
<1>4. t + IdleOf(m) \in Times /\ t \in Times
  BY <1>1, <1>2 DEF Times, Never
<1>5. Sliding(t, m, u) \in Times /\ Sliding(t, m, u) <= u
  <2>1. Times \subseteq Nat
    BY <1>1 DEF Times, Never
  <2> QED
    BY <2>1, <1>2, <1>4 DEF Sliding
<1> QED
  BY <1>3, <1>4, <1>5

LEMMA LimitIsSlots ==
  ASSUME NEW m \in Methods
  PROVE  Limit(m) \in Nat \ {0} /\ 0..(Limit(m) - 1) \subseteq Slots
BY SessionsOK DEF Limit, Slots

\* A session that ends changes nothing but its state.
LEMMA EndedFacts ==
  ASSUME NEW rec \in SessionRecords, NEW why \in Reasons
  PROVE  /\ Ended(rec, why) \in SessionRecords
         /\ Ended(rec, why).slot = rec.slot /\ Ended(rec, why).method = rec.method
         /\ Ended(rec, why).until = rec.until /\ Ended(rec, why).code = rec.code
         /\ Ended(rec, why).expires = rec.expires
         /\ Ended(rec, why).state # "open"
         /\ Ended(rec, why).state = "none" <=> rec.state = "none"
         /\ rec.state # "open" => Ended(rec, why) = rec
BY DEF Ended, SessionRecords, Reasons

\* The slot found is a free one.
LEMMA LowestIsMember ==
  ASSUME NEW N \in SUBSET Nat, N # {}
  PROVE  Lowest(N) \in N
<1>1. \A a, b \in Nat : a < b => <<a, b>> \in OpToRel(<, Nat)
  BY SMT DEF OpToRel
<1>2. PICK n \in N : \A m \in N : <<m, n>> \notin OpToRel(<, Nat)
  BY NatLessThanWellFounded, WFMin
<1>3. \A m \in N : ~(m < n)
  BY <1>1, <1>2
<1>4. \A m \in N : n <= m
  BY <1>3
<1> QED
  BY <1>4 DEF Lowest

-------------------------------------------------------------------------------
(* Steps that open no session *)

\* Such a step may end sessions, or move their expiry, and leaves all else of them.
Frame ==
  /\ sessions' \in [Logins -> SessionRecords]
  /\ \A s \in Logins :
       /\ sessions'[s].slot = sessions[s].slot /\ sessions'[s].method = sessions[s].method
       /\ sessions'[s].until = sessions[s].until /\ sessions'[s].code = sessions[s].code
       /\ sessions'[s].state = "none" <=> sessions[s].state = "none"
       /\ sessions'[s].state = "open" => sessions[s].state = "open"
       /\ sessions'[s].expires <= sessions'[s].until

LEMMA FrameKeeps ==
  ASSUME IInv, Frame, \A c \in Codes : codes'[c] = "used" <=> codes[c] = "used"
  PROVE  WithinLimit' /\ CodeOpensOneSession' /\ ExpiryWithinLifetime'
<1>1. WithinLimit'
  BY DEF IInv, Frame, WithinLimit, IsOpen
<1>2. CodeOpensOneSession'
  BY DEF IInv, Frame, CodeOpensOneSession
<1>3. ExpiryWithinLifetime'
  BY DEF Frame, ExpiryWithinLifetime
<1> QED
  BY <1>1, <1>2, <1>3

LEMMA FrameOfNothing ==
  ASSUME IInv, UNCHANGED sessions
  PROVE  Frame
BY DEF IInv, TypeOK, Frame, ExpiryWithinLifetime

LEMMA FrameOfEnding ==
  ASSUME IInv, NEW E \in SUBSET Logins, NEW why \in [Logins -> Reasons],
         sessions' = [s \in Logins |-> IF s \in E THEN Ended(sessions[s], why[s]) ELSE sessions[s]]
  PROVE  Frame
<1>1. \A s \in Logins : sessions[s] \in SessionRecords /\ why[s] \in Reasons
  BY DEF IInv, TypeOK
<1>2. \A s \in Logins : sessions[s].expires <= sessions[s].until
  BY DEF IInv, ExpiryWithinLifetime
<1>3. ASSUME NEW s \in Logins
      PROVE  /\ sessions'[s] \in SessionRecords
             /\ sessions'[s].slot = sessions[s].slot /\ sessions'[s].method = sessions[s].method
             /\ sessions'[s].until = sessions[s].until /\ sessions'[s].code = sessions[s].code
             /\ sessions'[s].state = "none" <=> sessions[s].state = "none"
             /\ sessions'[s].state = "open" => sessions[s].state = "open"
             /\ sessions'[s].expires <= sessions'[s].until
  <2>1. CASE s \in E
    <3> DEFINE x == Ended(sessions[s], why[s])
    <3>1. sessions'[s] = x
      BY <2>1
    <3>2. /\ x \in SessionRecords
          /\ x.slot = sessions[s].slot /\ x.method = sessions[s].method
          /\ x.until = sessions[s].until /\ x.code = sessions[s].code
          /\ x.expires = sessions[s].expires /\ x.state # "open"
          /\ x.state = "none" <=> sessions[s].state = "none"
      BY <1>1, EndedFacts
    <3> HIDE DEF x
    <3> QED
      BY <3>1, <3>2, <1>2
  <2>2. CASE s \notin E
    <3>1. sessions'[s] = sessions[s]
      BY <2>2
    <3> QED
      BY <3>1, <1>1, <1>2
  <2> QED
    BY <2>1, <2>2
<1> QED
  BY <1>3 DEF Frame

LEMMA FrameCalls ==
  ASSUME IInv, Frame, UNCHANGED call
  PROVE  CallsAreOnSessions'
BY DEF IInv, Frame, CallsAreOnSessions

LEMMA FrameExchanges ==
  ASSUME IInv, Frame, UNCHANGED login
  PROVE  OpenedByExchange' /\ CodeIffFactor'
BY DEF IInv, Frame, OpenedByExchange, CodeIffFactor

\* An audited commit makes every snapshot that is open a known old one.
LEMMA AuditedKeeps ==
  ASSUME IInv, Audited, UNCHANGED login
  PROVE  SnapshotFresh' /\ moved' \in [Logins -> SUBSET (Logins \cup {AuditLog})]
BY DEF IInv, TypeOK, Audited, SnapshotFresh

LEMMA AuditedByKeeps ==
  ASSUME IInv, NEW l \in Logins, AuditedBy(l),
         \A m \in Logins \ {l} : login'[m] = login[m], login'[l].pc # "txn"
  PROVE  SnapshotFresh' /\ moved' \in [Logins -> SUBSET (Logins \cup {AuditLog})]
BY DEF IInv, TypeOK, AuditedBy, SnapshotFresh

-------------------------------------------------------------------------------
(* Records of exchanges and requests *)

LEMMA Constants ==
  /\ SomeAccount \in Accounts \/ Accounts = {}
  /\ 0 \in 0..MaxTime /\ 0 \in Slots /\ 0 \in Times
  /\ "single_factor" \in Methods
BY SessionsOK DEF SomeAccount, Slots, Times, Never, Methods

LEMMA UnusedType == Unused \in SessionRecords
BY Constants DEF Unused, SessionRecords, Methods

LEMMA NoSessionsType == NoSessions \in [Logins -> SessionRecords]
BY UnusedType DEF NoSessions

LEMMA NoLoginType ==
  ASSUME TypeOK, NEW pc \in {"start", "ready", "txn", "done", "refused"}
  PROVE  NoLogin(pc) \in LoginRecords /\ NoLogin(pc).pc = pc
<1>1. SomeAccount \in Accounts
  BY Constants DEF TypeOK
<1> QED
  BY <1>1, Constants DEF NoLogin, LoginRecords

LEMMA NoCallType ==
  ASSUME TypeOK
  PROVE  NoCall \in CallRecords /\ NoCall.pc = "idle"
<1>1. SomeAccount \in Accounts
  BY Constants DEF TypeOK
<1> QED
  BY <1>1, Constants, UnusedType DEF NoCall, CallRecords

\* An exchange that is answered without a session leaves the invariant alone.
LEMMA OverKeeps ==
  ASSUME IInv, NEW l \in Logins, login[l].pc \notin {"done"}, Over(l, "refused"),
         UNCHANGED <<now, account, changes, sessions, codes, call>>,
         \/ AuditedBy(l)
         \/ moved' = moved
         \/ moved' = [moved EXCEPT ![l] = {}]
  PROVE  IInv'
<1>1. /\ login' \in [Logins -> LoginRecords]
      /\ login'[l].pc = "refused"
      /\ \A m \in Logins \ {l} : login'[m] = login[m]
  BY NoLoginType DEF IInv, TypeOK, Over
<1>2. /\ snap' \in [Logins -> [Logins -> SessionRecords]]
      /\ \A m \in Logins \ {l} : snap'[m] = snap[m]
  BY NoSessionsType DEF IInv, TypeOK, Over
<1>3. SnapshotFresh' /\ moved' \in [Logins -> SUBSET (Logins \cup {AuditLog})]
  <2>1. CASE AuditedBy(l)
    <3>1. login'[l].pc # "txn"
      BY <1>1
    <3> QED
      BY <1>1, <2>1, <3>1, AuditedByKeeps
  <2>2. CASE moved' = moved \/ moved' = [moved EXCEPT ![l] = {}]
    <3>1. moved' \in [Logins -> SUBSET (Logins \cup {AuditLog})]
      BY <2>2 DEF IInv, TypeOK
    <3>2. \A m \in Logins \ {l} : moved'[m] = moved[m]
      BY <2>2 DEF IInv, TypeOK
    <3>3. SnapshotFresh
      BY DEF IInv
    <3>4. ASSUME NEW m \in Logins, login'[m].pc = "txn", AuditLog \notin moved'[m]
          PROVE  /\ login'[m].code # None => codes'[login'[m].code] = "active"
                 /\ \A s \in Logins : /\ SameButTouched(snap'[m][s], sessions'[s])
                                      /\ s \notin moved'[m] => snap'[m][s] = sessions'[s]
      <4>1. m # l
        BY <1>1, <3>4
      <4>2. login'[m] = login[m] /\ snap'[m] = snap[m] /\ moved'[m] = moved[m]
        BY <4>1, <1>1, <1>2, <3>2
      <4> QED
        BY <4>2, <3>3, <3>4 DEF SnapshotFresh
    <3>5. SnapshotFresh'
      BY <3>4 DEF SnapshotFresh
    <3> QED
      BY <3>1, <3>5
  <2> QED
    BY <2>1, <2>2
<1>4. TypeOK'
  BY <1>1, <1>2, <1>3 DEF IInv, TypeOK
<1>5. Frame
  BY FrameOfNothing
<1>6. WithinLimit' /\ CodeOpensOneSession' /\ ExpiryWithinLifetime'
  BY <1>5, FrameKeeps
<1>7. OpenedByExchange' /\ CodeIffFactor'
  BY <1>1 DEF IInv, OpenedByExchange, CodeIffFactor
<1>8. CallsAreOnSessions'
  BY <1>5, FrameCalls
<1> QED
  BY <1>3, <1>4, <1>6, <1>7, <1>8 DEF IInv

-------------------------------------------------------------------------------
(* The steps of an exchange *)

LEMMA SendCodeStep ==
  ASSUME IInv, NEW c \in Codes, SendCode(c)
  PROVE  IInv'
<1>1. Frame /\ SnapshotFresh' /\ moved' \in [Logins -> SUBSET (Logins \cup {AuditLog})]
  BY FrameOfNothing, AuditedKeeps DEF SendCode
<1>2. /\ codes' \in [Codes -> {"unsent", "active", "superseded", "used"}]
      /\ \A d \in Codes : codes'[d] = "used" <=> codes[d] = "used"
  BY DEF IInv, TypeOK, SendCode
<1>3. WithinLimit' /\ CodeOpensOneSession' /\ ExpiryWithinLifetime'
  BY <1>1, <1>2, FrameKeeps
<1>4. OpenedByExchange' /\ CodeIffFactor' /\ CallsAreOnSessions'
  BY <1>1, FrameExchanges, FrameCalls DEF SendCode
<1>5. TypeOK'
  BY <1>1, <1>2 DEF IInv, TypeOK, SendCode
<1> QED
  BY <1>1, <1>3, <1>4, <1>5 DEF IInv

LEMMA AuthenticateStep ==
  ASSUME IInv, NEW l \in Logins, Authenticate(l)
  PROVE  IInv'
<1>1. PICK viaSso \in BOOLEAN, mfa \in BOOLEAN, c \in Codes \cup {None} :
        /\ c # None <=> MethodOf(account, viaSso, mfa) = "risk_sense_otp"
        /\ login' = [login EXCEPT ![l] = [pc |-> "ready", as |-> account,
                        method |-> MethodOf(account, viaSso, mfa), code |-> c, at |-> now]]
  BY DEF Authenticate
<1> DEFINE method == MethodOf(account, viaSso, mfa)
<1>2. method \in Methods
  BY DEF MethodOf, Methods
<1> HIDE DEF method
<1>3. [pc |-> "ready", as |-> account, method |-> method, code |-> c, at |-> now] \in LoginRecords
  BY <1>2 DEF IInv, TypeOK, LoginRecords
<1>4. /\ login' \in [Logins -> LoginRecords]
      /\ login'[l].pc = "ready" /\ login'[l].method = method /\ login'[l].code = c
      /\ \A m \in Logins \ {l} : login'[m] = login[m]
  BY <1>1, <1>3 DEF IInv, TypeOK, method
<1>5. TypeOK'
  BY <1>4 DEF IInv, TypeOK, Authenticate
<1>6. Frame
  BY FrameOfNothing DEF Authenticate
<1>7. WithinLimit' /\ CodeOpensOneSession' /\ ExpiryWithinLifetime'
  BY <1>6, FrameKeeps DEF Authenticate
<1>8. OpenedByExchange' /\ CodeIffFactor'
  <2>1. c # None <=> method = "risk_sense_otp"
    BY <1>1 DEF method
  <2> QED
    BY <2>1, <1>4 DEF IInv, OpenedByExchange, CodeIffFactor, Authenticate
<1>9. SnapshotFresh'
  BY <1>4 DEF IInv, SnapshotFresh, Authenticate
<1>10. CallsAreOnSessions'
  BY <1>6, FrameCalls DEF Authenticate
<1> QED
  BY <1>5, <1>7, <1>8, <1>9, <1>10 DEF IInv

LEMMA BeginStep ==
  ASSUME IInv, NEW l \in Logins, Begin(l)
  PROVE  IInv'
<1>1. login[l] \in LoginRecords /\ now \in 0..MaxTime
  BY DEF IInv, TypeOK
<1>2. [login[l] EXCEPT !.pc = "txn", !.at = now] \in LoginRecords
  BY <1>1 DEF LoginRecords
<1>3. login' = [login EXCEPT ![l] = [login[l] EXCEPT !.pc = "txn", !.at = now]]
  BY DEF Begin
<1>4. /\ login' \in [Logins -> LoginRecords]
      /\ login'[l].pc = "txn" /\ login'[l].method = login[l].method
      /\ login'[l].code = login[l].code
      /\ \A m \in Logins \ {l} : login'[m] = login[m]
  BY <1>1, <1>2, <1>3 DEF IInv, TypeOK, LoginRecords
<1>5. /\ snap' \in [Logins -> [Logins -> SessionRecords]]
      /\ snap'[l] = sessions
      /\ \A m \in Logins \ {l} : snap'[m] = snap[m] /\ moved'[m] = moved[m]
      /\ moved' \in [Logins -> SUBSET (Logins \cup {AuditLog})]
  BY DEF IInv, TypeOK, Begin
<1>6. TypeOK'
  BY <1>4, <1>5 DEF IInv, TypeOK, Begin
<1>7. Frame
  BY FrameOfNothing DEF Begin
<1>8. WithinLimit' /\ CodeOpensOneSession' /\ ExpiryWithinLifetime'
  BY <1>7, FrameKeeps DEF Begin
<1>9. OpenedByExchange' /\ CodeIffFactor'
  BY <1>4 DEF IInv, OpenedByExchange, CodeIffFactor, Begin
<1>10. SnapshotFresh'
  BY <1>4, <1>5 DEF IInv, SnapshotFresh, SameButTouched, Begin
<1>11. CallsAreOnSessions'
  BY <1>7, FrameCalls DEF Begin
<1> QED
  BY <1>6, <1>8, <1>9, <1>10, <1>11 DEF IInv

LEMMA RefusalSteps ==
  ASSUME IInv, NEW l \in Logins, RefuseCode(l) \/ Block(l) \/ Fail(l)
  PROVE  IInv'
<1>1. /\ login[l].pc # "done" /\ Over(l, "refused")
      /\ UNCHANGED <<now, account, changes, sessions, codes, call>>
      /\ AuditedBy(l) \/ moved' = moved \/ moved' = [moved EXCEPT ![l] = {}]
  <2>1. CASE RefuseCode(l)
    BY <2>1 DEF RefuseCode
  <2>2. CASE Block(l)
    BY <2>2 DEF Block
  <2>3. CASE Fail(l)
    BY <2>3 DEF Fail
  <2> QED
    BY <2>1, <2>2, <2>3
<1> QED
  BY <1>1, OverKeeps

LEMMA ReplayStep ==
  ASSUME IInv, NEW l \in Logins, Replay(l)
  PROVE  IInv'
<1>1. login[l] \in LoginRecords /\ login[l].pc = "txn"
  BY DEF IInv, TypeOK, Replay
<1>2. [login[l] EXCEPT !.pc = "ready"] \in LoginRecords
  BY <1>1 DEF LoginRecords
<1>3. login' = [login EXCEPT ![l] = [login[l] EXCEPT !.pc = "ready"]]
  BY DEF Replay
<1>4. /\ login' \in [Logins -> LoginRecords]
      /\ login'[l].pc = "ready" /\ login'[l].method = login[l].method
      /\ login'[l].code = login[l].code
      /\ \A m \in Logins \ {l} : login'[m] = login[m]
  BY <1>1, <1>2, <1>3 DEF IInv, TypeOK, LoginRecords
<1>5. /\ snap' \in [Logins -> [Logins -> SessionRecords]]
      /\ \A m \in Logins \ {l} : snap'[m] = snap[m] /\ moved'[m] = moved[m]
      /\ moved' \in [Logins -> SUBSET (Logins \cup {AuditLog})]
  BY NoSessionsType DEF IInv, TypeOK, Replay
<1>6. TypeOK'
  BY <1>4, <1>5 DEF IInv, TypeOK, Replay
<1>7. Frame
  BY FrameOfNothing DEF Replay
<1>8. WithinLimit' /\ CodeOpensOneSession' /\ ExpiryWithinLifetime'
  BY <1>7, FrameKeeps DEF Replay
<1>9. OpenedByExchange' /\ CodeIffFactor'
  BY <1>1, <1>4 DEF IInv, OpenedByExchange, CodeIffFactor, Replay
<1>10. SnapshotFresh'
  BY <1>4, <1>5 DEF IInv, SnapshotFresh, Replay
<1>11. CallsAreOnSessions'
  BY <1>7, FrameCalls DEF Replay
<1> QED
  BY <1>6, <1>8, <1>9, <1>10, <1>11 DEF IInv

\* The sessions that keep their slots, and the new one: what sessionService.create works out on its
\* snapshot fits the sessions as they are when the transaction commits.
LEMMA OpenStep ==
  ASSUME IInv, NEW l \in Logins, Open(l)
  PROVE  IInv'
<1> DEFINE S      == snap[l]
           a      == login[l].as
           method == login[l].method
           code   == login[l].code
           limit  == Limit(method)
           Done(t, v, E) ==
             LET live == Live(S, t, a)
                 late == Late(S, live \ E, v)
                 gone == Stale(S, t) \cup Unassured(S, t, a) \cup E \cup late
                 free == FreeSlots(S, live \ (E \cup late), limit)
             IN /\ free # {}
                /\ Commits(l, gone)
                /\ sessions' = [s \in Logins |->
                     IF s = l THEN New(l, Lowest(free), v)
                     ELSE IF s \in Stale(S, t) \cup late THEN Ended(sessions[s], "timeout")
                     ELSE IF s \in gone THEN Ended(sessions[s], "superseded")
                     ELSE sessions[s]]
<1>0. PICK t \in login[l].at..now, v \in login[l].at..now :
        \E E \in SUBSET Live(S, t, a) : Done(t, v, E)
  BY ZenonT(30) DEF Open, Oldest
<1>1. PICK E \in SUBSET Live(S, t, a) : Done(t, v, E)
  BY <1>0
<1> DEFINE live == Live(S, t, a)
           late == Late(S, live \ E, v)
           gone == Stale(S, t) \cup Unassured(S, t, a) \cup E \cup late
           free == FreeSlots(S, live \ (E \cup late), limit)
           slot == Lowest(free)
           new  == New(l, slot, v)
<1>2. /\ login[l].pc = "txn" /\ AuditLog \notin moved[l]
      /\ sessions[l].state = "none"
  BY <1>1 DEF Open, Commits, IInv, OpenedByExchange
<1>3. /\ login[l] \in LoginRecords /\ sessions \in [Logins -> SessionRecords]
      /\ now \in 0..MaxTime /\ v \in 0..MaxTime
      /\ method \in Methods /\ code \in Codes \cup {None} /\ a \in AccountStates
  <2>1. login[l] \in LoginRecords /\ now \in 0..MaxTime
    BY DEF IInv, TypeOK
  <2>2. login[l].at \in 0..MaxTime /\ a \in Accounts
    BY <2>1 DEF LoginRecords
  <2>3. login[l].at..now \subseteq 0..MaxTime
    BY <2>1, <2>2, SessionsOK
  <2> QED
    BY <2>1, <2>2, <2>3, <1>0, SessionsOK DEF IInv, TypeOK, LoginRecords
<1>4. /\ \A s \in Logins : SameButTouched(S[s], sessions[s])
      /\ code # None => codes[code] = "active"
  BY <1>2 DEF IInv, SnapshotFresh
<1>5. slot \in free /\ slot \in 0..(limit - 1) /\ slot \in Slots
  <2>1. limit \in Nat \ {0} /\ 0..(limit - 1) \subseteq Slots
    BY <1>3, LimitIsSlots
  <2>2. free \in SUBSET Nat /\ free \subseteq 0..(limit - 1)
    BY <2>1 DEF FreeSlots
  <2>3. free # {}
    BY <1>1
  <2>4. Lowest(free) \in free
    <3> HIDE DEF free
    <3> QED
      BY <2>2, <2>3, LowestIsMember
  <2> QED
    BY <2>1, <2>2, <2>4
<1> HIDE DEF slot
<1>6. /\ new \in SessionRecords /\ new.state = "open" /\ new.slot = slot /\ new.method = method
      /\ new.code = code /\ new.expires <= new.until
  <2>1. /\ v \in Times /\ v + IdleOf(method) \in Times /\ UntilOf(method, v) \in Times
        /\ v + IdleOf(method) <= UntilOf(method, v)
    <3>1. 0 \in Times
      BY Constants
    <3> HIDE DEF method
    <3> QED
      BY <1>3, <3>1, Timing
  <2>2. login[l].as.role \in {"requestor", "administrator", "audit"}
    BY <1>3 DEF AccountStates
  <2> QED
    BY <2>1, <2>2, <1>3, <1>5 DEF New, SessionRecords
<1> HIDE DEF new
<1>7. /\ sessions'[l] = new
      /\ \A s \in Logins \ {l} :
           \/ sessions'[s] = sessions[s] /\ s \notin gone
           \/ \E why \in Reasons : sessions'[s] = Ended(sessions[s], why)
  <2>1. {"timeout", "superseded"} \subseteq Reasons
    BY DEF Reasons
  <2>2. sessions'[l] = new
    BY <1>1 DEF new, slot
  <2>3. ASSUME NEW s \in Logins \ {l}
        PROVE  \/ sessions'[s] = sessions[s] /\ s \notin gone
               \/ \E why \in Reasons : sessions'[s] = Ended(sessions[s], why)
    BY <1>1, <2>1
  <2> QED
    BY <2>2, <2>3
<1>8. ASSUME NEW s \in Logins \ {l}
      PROVE  /\ sessions'[s] \in SessionRecords
             /\ sessions'[s].slot = sessions[s].slot /\ sessions'[s].method = sessions[s].method
             /\ sessions'[s].until = sessions[s].until /\ sessions'[s].code = sessions[s].code
             /\ sessions'[s].expires = sessions[s].expires
             /\ sessions'[s].state = "none" <=> sessions[s].state = "none"
             /\ sessions'[s].state = "open" => sessions[s].state = "open" /\ s \notin gone
  <2>1. sessions[s] \in SessionRecords
    BY <1>3
  <2>2. CASE sessions'[s] = sessions[s] /\ s \notin gone
    BY <2>1, <2>2
  <2>3. ASSUME NEW why \in Reasons, sessions'[s] = Ended(sessions[s], why)
        PROVE  /\ sessions'[s] \in SessionRecords
               /\ sessions'[s].slot = sessions[s].slot /\ sessions'[s].method = sessions[s].method
               /\ sessions'[s].until = sessions[s].until /\ sessions'[s].code = sessions[s].code
               /\ sessions'[s].expires = sessions[s].expires
               /\ sessions'[s].state = "none" <=> sessions[s].state = "none"
               /\ sessions'[s].state # "open"
    BY <2>1, <2>3, EndedFacts
  <2> QED
    BY <1>7, <2>2, <2>3
<1>9. sessions' \in [Logins -> SessionRecords]
  <2>1. \A s \in Logins : sessions'[s] \in SessionRecords
    BY <1>6, <1>7, <1>8
  <2>2. sessions' = [s \in Logins |-> sessions'[s]]
    BY <1>1
  <2> QED
    BY <2>1, <2>2
<1>10. ASSUME NEW s \in Logins \ {l}, sessions'[s].state = "open"
       PROVE  s \in live \ (E \cup late)
  <2>1. sessions[s].state = "open" /\ s \notin gone
    BY <1>8, <1>10
  <2>2. S[s].state = "open"
    BY <2>1, <1>4 DEF SameButTouched
  <2>3. S[s].expires \in Int /\ t \in Int
    <3>1. S[s] \in SessionRecords
      BY DEF IInv, TypeOK
    <3>2. Times \subseteq Int
      BY SessionsOK DEF Times, Never
    <3>3. t \in Int
      BY <1>0
    <3>4. S[s].expires \in Times
      BY <3>1 DEF SessionRecords
    <3> QED
      BY <3>2, <3>3, <3>4
  <2> QED
    BY <2>1, <2>2, <2>3 DEF Stale, Unassured, Live
<1>11. WithinLimit'
  <2>1. \A s \in Logins \ {l} : sessions'[s].state = "open" => sessions'[s].slot # slot
    <3>1. \A s \in live \ (E \cup late) : S[s].slot # slot
      BY <1>5 DEF FreeSlots
    <3>2. ASSUME NEW s \in Logins \ {l}, sessions'[s].state = "open"
          PROVE  sessions'[s].slot # slot
      <4>1. s \in live \ (E \cup late)
        BY <3>2, <1>10
      <4>2. S[s].slot # slot
        BY <3>1, <4>1
      <4>3. sessions'[s].slot = sessions[s].slot
        BY <1>8
      <4>4. S[s].slot = sessions[s].slot
        BY <1>4 DEF SameButTouched
      <4> QED
        BY <4>2, <4>3, <4>4
    <3> QED
      BY <3>2
  <2>2. \A s, u \in Logins :
          (s # u /\ IsOpen(s)' /\ IsOpen(u)') => sessions'[s].slot # sessions'[u].slot
    <3>1. ASSUME NEW s \in Logins \ {l}, NEW u \in Logins \ {l}, s # u, IsOpen(s)', IsOpen(u)'
          PROVE  sessions'[s].slot # sessions'[u].slot
      <4>1. /\ sessions[s].state = "open" /\ sessions[u].state = "open"
            /\ sessions'[s].slot = sessions[s].slot /\ sessions'[u].slot = sessions[u].slot
        BY <3>1, <1>8 DEF IsOpen
      <4>2. WithinLimit
        BY DEF IInv
      <4> QED
        BY <3>1, <4>1, <4>2 DEF WithinLimit, IsOpen
    <3> QED
      BY <3>1, <2>1, <1>6, <1>7 DEF IsOpen
  <2>3. \A s \in Logins : IsOpen(s)' => sessions'[s].slot < Limit(sessions'[s].method)
    <3>1. \A s \in Logins \ {l} : IsOpen(s)' => sessions'[s].slot < Limit(sessions'[s].method)
      BY <1>8 DEF IInv, WithinLimit, IsOpen
    <3>2. sessions'[l].slot < Limit(sessions'[l].method)
      <4>1. limit \in Nat \ {0}
        BY <1>3, LimitIsSlots
      <4> QED
        BY <4>1, <1>5, <1>6, <1>7
    <3> QED
      BY <3>1, <3>2
  <2> QED
    BY <2>2, <2>3 DEF WithinLimit
<1>12. ExpiryWithinLifetime'
  BY <1>6, <1>7, <1>8 DEF IInv, ExpiryWithinLifetime
<1>13. /\ codes' \in [Codes -> {"unsent", "active", "superseded", "used"}]
       /\ \A c \in Codes : codes'[c] = "used" <=> codes[c] = "used" \/ c = code
  BY <1>3, SessionsOK DEF Open, WithUsed, IInv, TypeOK
<1>14. CodeOpensOneSession'
  <2>1. sessions'[l].code = code /\ \A s \in Logins \ {l} : sessions'[s].code = sessions[s].code
    BY <1>6, <1>7, <1>8
  <2>2. sessions[l].code = None
    BY <1>2 DEF IInv, OpenedByExchange
  <2>3. ASSUME NEW c \in Codes
        PROVE  /\ codes'[c] = "used" <=> \E s \in Logins : sessions'[s].code = c
               /\ \A s, u \in Logins : (sessions'[s].code = c /\ sessions'[u].code = c) => s = u
    <3>1. c # None
      BY SessionsOK
    <3>2. CASE c = code
      <4>1. codes[c] # "used"
        BY <1>4, <3>1, <3>2
      <4>2. \A s \in Logins : sessions[s].code # c
        BY <4>1 DEF IInv, CodeOpensOneSession
      <4> QED
        BY <4>2, <3>2, <2>1, <1>13
    <3>3. CASE c # code
      BY <3>1, <3>3, <2>1, <2>2, <1>13 DEF IInv, CodeOpensOneSession
    <3> QED
      BY <3>2, <3>3
  <2> QED
    BY <2>3 DEF CodeOpensOneSession
<1>15. /\ login' \in [Logins -> LoginRecords] /\ login'[l].pc = "done"
       /\ \A m \in Logins \ {l} : login'[m] = login[m]
       /\ snap' \in [Logins -> [Logins -> SessionRecords]]
  BY NoLoginType, NoSessionsType DEF Open, Over, IInv, TypeOK
<1>16. OpenedByExchange' /\ CodeIffFactor'
  <2>1. method = "risk_sense_otp" <=> code # None
    BY <1>2 DEF IInv, CodeIffFactor
  <2>2. /\ sessions'[l].state = "open" /\ sessions'[l].method = method /\ sessions'[l].code = code
    BY <1>6, <1>7
  <2> QED
    BY <2>1, <2>2, <1>8, <1>15 DEF IInv, OpenedByExchange, CodeIffFactor
<1>17. SnapshotFresh' /\ moved' \in [Logins -> SUBSET (Logins \cup {AuditLog})]
  <2>1. AuditedBy(l) /\ login'[l].pc # "txn"
    BY <1>15 DEF Open
  <2> QED
    BY <2>1, <1>15, AuditedByKeeps
<1>18. CallsAreOnSessions'
  <2>1. call' = call
    BY DEF Open
  <2>2. \A s \in Logins : sessions[s].state # "none" =>
          /\ s # l /\ sessions'[s].state # "none"
          /\ sessions'[s].method = sessions[s].method /\ sessions'[s].until = sessions[s].until
    BY <1>2, <1>8
  <2> QED
    BY <2>1, <2>2 DEF IInv, CallsAreOnSessions
<1>19. TypeOK'
  BY <1>9, <1>13, <1>15, <1>17 DEF IInv, TypeOK, Open
<1> QED
  BY <1>11, <1>12, <1>14, <1>16, <1>17, <1>18, <1>19 DEF IInv

-------------------------------------------------------------------------------
(* The steps of a request *)

\* What a step of request r has to show.
LEMMA RequestKeeps ==
  ASSUME IInv, NEW r \in Requests, NEW rec \in CallRecords,
         call' = [call EXCEPT ![r] = rec],
         Frame, UNCHANGED <<now, account, changes, codes, login, snap>>,
         SnapshotFresh', moved' \in [Logins -> SUBSET (Logins \cup {AuditLog})],
         rec.pc # "idle" =>
           /\ rec.sid \in Logins /\ sessions[rec.sid].state # "none"
           /\ rec.pc \in {"read", "accepted"} =>
                /\ rec.copy.method = sessions[rec.sid].method
                /\ rec.copy.until = sessions[rec.sid].until
           /\ rec.pc = "accepted" => Assured(sessions[rec.sid].method, rec.as)
  PROVE  IInv'
<1>1. call' \in [Requests -> CallRecords] /\ call'[r] = rec
      /\ \A q \in Requests \ {r} : call'[q] = call[q]
  BY DEF IInv, TypeOK
<1>2. TypeOK'
  BY <1>1 DEF IInv, TypeOK, Frame
<1>3. WithinLimit' /\ CodeOpensOneSession' /\ ExpiryWithinLifetime'
  BY FrameKeeps
<1>4. OpenedByExchange' /\ CodeIffFactor'
  BY FrameExchanges
<1>5. CallsAreOnSessions'
  BY <1>1 DEF IInv, Frame, CallsAreOnSessions
<1> QED
  BY <1>2, <1>3, <1>4, <1>5 DEF IInv

LEMMA SnapshotUntouched ==
  ASSUME IInv, UNCHANGED <<sessions, codes, login, snap, moved>>
  PROVE  SnapshotFresh' /\ moved' \in [Logins -> SUBSET (Logins \cup {AuditLog})]
BY DEF IInv, TypeOK, SnapshotFresh

LEMMA ArriveStep ==
  ASSUME IInv, NEW r \in Requests, Arrive(r)
  PROVE  IInv'
<1>1. PICK s \in Logins :
        /\ sessions[s].state # "none"
        /\ call' = [call EXCEPT ![r] = [pc |-> "known", as |-> account, sid |-> s,
                                       copy |-> Unused, at |-> now]]
  BY DEF Arrive
<1> DEFINE rec == [pc |-> "known", as |-> account, sid |-> s, copy |-> Unused, at |-> now]
<1>2. rec \in CallRecords
  BY UnusedType DEF IInv, TypeOK, CallRecords
<1>3. rec.pc = "known" /\ rec.sid = s
  OBVIOUS
<1>4. call' = [call EXCEPT ![r] = rec]
  BY <1>1
<1>5. Frame /\ SnapshotFresh' /\ moved' \in [Logins -> SUBSET (Logins \cup {AuditLog})]
  BY FrameOfNothing, SnapshotUntouched DEF Arrive
<1>6. UNCHANGED <<now, account, changes, codes, login, snap>>
  BY DEF Arrive
<1> HIDE DEF rec
<1> QED
  BY <1>1, <1>2, <1>3, <1>4, <1>5, <1>6, RequestKeeps

LEMMA ReadStep ==
  ASSUME IInv, NEW r \in Requests, Read(r)
  PROVE  IInv'
<1> DEFINE rec == [call[r] EXCEPT !.pc = "read", !.copy = sessions[call[r].sid], !.at = now]
<1>1. call[r] \in CallRecords /\ call[r].pc = "known" /\ call[r].sid \in Logins
      /\ sessions[call[r].sid].state # "none"
  BY DEF IInv, TypeOK, CallsAreOnSessions, Read
<1>2. rec \in CallRecords
  BY <1>1 DEF IInv, TypeOK, CallRecords
<1>3. rec.pc = "read" /\ rec.sid = call[r].sid /\ rec.copy = sessions[call[r].sid]
  BY <1>1 DEF CallRecords
<1>4. call' = [call EXCEPT ![r] = rec]
  BY DEF Read
<1>5. Frame /\ SnapshotFresh' /\ moved' \in [Logins -> SUBSET (Logins \cup {AuditLog})]
  BY FrameOfNothing, SnapshotUntouched DEF Read
<1>6. UNCHANGED <<now, account, changes, codes, login, snap>>
  BY DEF Read
<1> HIDE DEF rec
<1> QED
  BY <1>1, <1>2, <1>3, <1>4, <1>5, <1>6, RequestKeeps

LEMMA AnswerSteps ==
  ASSUME IInv, NEW r \in Requests, RejectEnded(r) \/ RejectUnassured(r) \/ Answer(r)
  PROVE  IInv'
<1>1. /\ call' = [call EXCEPT ![r] = NoCall]
      /\ UNCHANGED <<now, account, changes, sessions, codes, login, snap, moved>>
  BY DEF RejectEnded, RejectUnassured, Answer
<1>2. NoCall \in CallRecords /\ NoCall.pc = "idle"
  BY NoCallType DEF IInv
<1>3. Frame /\ SnapshotFresh' /\ moved' \in [Logins -> SUBSET (Logins \cup {AuditLog})]
  BY <1>1, FrameOfNothing, SnapshotUntouched
<1> QED
  BY <1>1, <1>2, <1>3, RequestKeeps

\* terminate ends the session of the request, if nothing has ended it before.
LEMMA TerminateSteps ==
  ASSUME IInv, NEW r \in Requests, Expire(r) \/ Logout(r)
  PROVE  IInv'
<1> DEFINE s == call[r].sid
<1>1. PICK why \in Reasons : sessions' = [sessions EXCEPT ![s] = Ended(@, why)]
  BY DEF Expire, Logout, Reasons
<1>2. s \in Logins
  BY DEF IInv, CallsAreOnSessions, Expire, Logout
<1> DEFINE only  == {s}
           whys == [u \in Logins |-> why]
<1>3. /\ only \in SUBSET Logins /\ whys \in [Logins -> Reasons]
      /\ sessions' = [u \in Logins |-> IF u \in only THEN Ended(sessions[u], whys[u])
                                                    ELSE sessions[u]]
  BY <1>1, <1>2 DEF IInv, TypeOK
<1>4. Frame
  <2> HIDE DEF only, whys
  <2> QED
    BY <1>3, FrameOfEnding
<1>5. SnapshotFresh' /\ moved' \in [Logins -> SUBSET (Logins \cup {AuditLog})]
  <2>1. CASE IsOpen(s)
    BY <2>1, AuditedKeeps DEF Expire, Logout
  <2>2. CASE ~IsOpen(s)
    <3>1. UNCHANGED <<codes, login, snap, moved>>
      BY <2>2 DEF Expire, Logout
    <3>2. sessions' = sessions
      BY <2>2, <1>1, <1>2 DEF Ended, IsOpen, IInv, TypeOK
    <3> QED
      BY <3>1, <3>2, SnapshotUntouched
  <2> QED
    BY <2>1, <2>2
<1>6. /\ call' = [call EXCEPT ![r] = NoCall]
      /\ UNCHANGED <<now, account, changes, codes, login, snap>>
  BY DEF Expire, Logout
<1>7. NoCall \in CallRecords /\ NoCall.pc = "idle"
  BY NoCallType DEF IInv
<1> QED
  BY <1>4, <1>5, <1>6, <1>7, RequestKeeps

\* touch saves its two times over whatever the session has become.
LEMMA AcceptStep ==
  ASSUME IInv, NEW r \in Requests, Accept(r)
  PROVE  IInv'
<1> DEFINE s   == call[r].sid
           rec == [call[r] EXCEPT !.pc = "accepted"]
<1>1. /\ call[r] \in CallRecords /\ s \in Logins /\ sessions[s].state # "none"
      /\ call[r].copy.method = sessions[s].method /\ call[r].copy.until = sessions[s].until
      /\ sessions \in [Logins -> SessionRecords] /\ now \in 0..MaxTime
  BY DEF IInv, TypeOK, CallsAreOnSessions, Accept
<1>2. PICK t \in call[r].at..now :
        sessions' = [sessions EXCEPT
          ![s].seen = t,
          ![s].expires = Sliding(t, call[r].copy.method, call[r].copy.until)]
  BY DEF Accept
<1> DEFINE exp == Sliding(t, sessions[s].method, sessions[s].until)
           new == [sessions[s] EXCEPT !.seen = t, !.expires = exp]
<1>3. t \in Times /\ exp \in Times /\ exp <= sessions[s].until
  <2>1. call[r].at \in 0..MaxTime
    BY <1>1 DEF CallRecords
  <2>2. t \in 0..MaxTime
    BY <2>1, <1>1, <1>2, SessionsOK
  <2>3. sessions[s] \in SessionRecords
    BY <1>1
  <2>4. sessions[s].method \in Methods /\ sessions[s].until \in Times
    BY <2>3 DEF SessionRecords
  <2> QED
    BY <2>2, <2>4, Timing
<1> HIDE DEF exp
<1>4. /\ new \in SessionRecords
      /\ new.slot = sessions[s].slot /\ new.method = sessions[s].method
      /\ new.until = sessions[s].until /\ new.code = sessions[s].code
      /\ new.state = sessions[s].state /\ new.expires = exp
  BY <1>1, <1>3 DEF SessionRecords
<1>5. sessions' = [sessions EXCEPT ![s] = new]
  BY <1>1, <1>2 DEF exp
<1> HIDE DEF new
<1>6. /\ sessions' \in [Logins -> SessionRecords] /\ sessions'[s] = new
      /\ \A u \in Logins \ {s} : sessions'[u] = sessions[u]
  BY <1>1, <1>4, <1>5
<1>7. Frame
  BY <1>3, <1>4, <1>6 DEF Frame, IInv, ExpiryWithinLifetime
<1>8. SnapshotFresh' /\ moved' \in [Logins -> SUBSET (Logins \cup {AuditLog})]
  <2>1. /\ moved' = [m \in Logins |->
             IF login[m].pc = "txn" THEN moved[m] \cup {s} ELSE moved[m]]
        /\ UNCHANGED <<login, snap, codes>>
    BY DEF Accept, TouchedSession
  <2>2. moved' \in [Logins -> SUBSET (Logins \cup {AuditLog})]
    BY <2>1, <1>1 DEF IInv, TypeOK
  <2>3. ASSUME NEW m \in Logins, login'[m].pc = "txn", AuditLog \notin moved'[m]
        PROVE  /\ login'[m].code # None => codes'[login'[m].code] = "active"
               /\ \A u \in Logins : /\ SameButTouched(snap'[m][u], sessions'[u])
                                    /\ u \notin moved'[m] => snap'[m][u] = sessions'[u]
    <3>1. /\ login[m].code # None => codes[login[m].code] = "active"
          /\ \A u \in Logins : /\ SameButTouched(snap[m][u], sessions[u])
                               /\ u \notin moved[m] => snap[m][u] = sessions[u]
      BY <2>1, <2>3 DEF IInv, SnapshotFresh
    <3>2. s \in moved'[m] /\ moved[m] \subseteq moved'[m]
      BY <2>1, <2>3
    <3>3. SameButTouched(snap[m][s], sessions'[s])
      BY <3>1, <1>1, <1>4, <1>6 DEF SameButTouched
    <3> QED
      BY <2>1, <3>1, <3>2, <3>3, <1>6
  <2> QED
    BY <2>2, <2>3 DEF SnapshotFresh
<1>9. rec \in CallRecords /\ rec.pc = "accepted" /\ rec.sid = s /\ rec.copy = call[r].copy
      /\ rec.as = call[r].as
  BY <1>1 DEF CallRecords
<1>10. /\ call' = [call EXCEPT ![r] = rec]
       /\ UNCHANGED <<now, account, changes, codes, login, snap>>
       /\ Assured(call[r].copy.method, call[r].as)
  BY DEF Accept
<1> HIDE DEF rec
<1> QED
  BY <1>1, <1>7, <1>8, <1>9, <1>10, RequestKeeps

-------------------------------------------------------------------------------
(* Administration, time and the whole step *)

\* Ending every session of the account, with whatever change of its record.
LEMMA EndAllKeeps ==
  ASSUME IInv, NEW reason \in Reasons, EndAll(reason),
         account' \in Accounts, changes' \in 0..MaxChanges,
         SnapshotFresh', moved' \in [Logins -> SUBSET (Logins \cup {AuditLog})],
         UNCHANGED <<now, codes, login, snap, call>>
  PROVE  IInv'
<1> DEFINE whys == [s \in Logins |-> reason]
<1>1. /\ Logins \in SUBSET Logins /\ whys \in [Logins -> Reasons]
      /\ sessions' = [s \in Logins |-> IF s \in Logins THEN Ended(sessions[s], whys[s])
                                                       ELSE sessions[s]]
  BY DEF EndAll
<1>2. Frame
  <2> HIDE DEF whys
  <2> QED
    BY <1>1, FrameOfEnding
<1>3. WithinLimit' /\ CodeOpensOneSession' /\ ExpiryWithinLifetime'
  BY <1>2, FrameKeeps
<1>4. OpenedByExchange' /\ CodeIffFactor' /\ CallsAreOnSessions'
  BY <1>2, FrameExchanges, FrameCalls
<1>5. TypeOK'
  BY <1>2 DEF IInv, TypeOK, Frame
<1> QED
  BY <1>3, <1>4, <1>5 DEF IInv

LEMMA ChangeUserStep ==
  ASSUME IInv, ChangeUser
  PROVE  IInv'
<1>1. PICK a \in Accounts :
        account' = a /\ EndAll(IF a.role # account.role THEN "role_changed" ELSE "admin")
  BY DEF ChangeUser
<1>2. PICK why \in Reasons : EndAll(why)
  BY <1>1 DEF Reasons
<1>3. SnapshotFresh' /\ moved' \in [Logins -> SUBSET (Logins \cup {AuditLog})]
  BY AuditedKeeps DEF ChangeUser
<1>4. changes' \in 0..MaxChanges
  BY SessionsOK DEF IInv, TypeOK, ChangeUser
<1>5. UNCHANGED <<now, codes, login, snap, call>>
  BY DEF ChangeUser
<1> QED
  BY <1>1, <1>2, <1>3, <1>4, <1>5, EndAllKeeps

LEMMA PromoteStep ==
  ASSUME IInv, Promote
  PROVE  IInv'
<1>1. /\ account' \in Accounts /\ EndAll("admin") /\ "admin" \in Reasons
      /\ UNCHANGED <<now, codes, login, snap, call>>
  BY DEF Promote, Reasons
<1>2. changes' \in 0..MaxChanges
  BY SessionsOK DEF IInv, TypeOK, Promote
<1>3. SnapshotFresh' /\ moved' \in [Logins -> SUBSET (Logins \cup {AuditLog})]
  <2>1. CASE Audited
    BY <1>1, <2>1, AuditedKeeps
  <2>2. CASE moved' = moved /\ \A s \in Logins : ~IsOpen(s)
    <3>1. sessions' = sessions
      BY <1>1, <2>2 DEF EndAll, Ended, IsOpen, IInv, TypeOK
    <3> QED
      BY <1>1, <2>2, <3>1, SnapshotUntouched
  <2> QED
    BY <2>1, <2>2 DEF Promote
<1> QED
  BY <1>1, <1>2, <1>3, EndAllKeeps

LEMMA ChangeTenantStep ==
  ASSUME IInv, ChangeTenant
  PROVE  IInv'
<1>1. Frame /\ SnapshotFresh' /\ moved' \in [Logins -> SUBSET (Logins \cup {AuditLog})]
  BY FrameOfNothing, AuditedKeeps DEF ChangeTenant
<1>2. WithinLimit' /\ CodeOpensOneSession' /\ ExpiryWithinLifetime'
  BY <1>1, FrameKeeps DEF ChangeTenant
<1>3. OpenedByExchange' /\ CodeIffFactor' /\ CallsAreOnSessions'
  BY <1>1, FrameExchanges, FrameCalls DEF ChangeTenant
<1>4. TypeOK'
  BY <1>1, SessionsOK DEF IInv, TypeOK, ChangeTenant
<1> QED
  BY <1>1, <1>2, <1>3, <1>4 DEF IInv

LEMMA QuietStep ==
  ASSUME IInv, Tick \/ UNCHANGED vars
  PROVE  IInv'
<1>1. UNCHANGED <<account, changes, sessions, codes, login, snap, moved, call>>
      /\ now' \in 0..MaxTime
  BY SessionsOK DEF Tick, vars, IInv, TypeOK
<1>2. Frame /\ SnapshotFresh'
  BY <1>1, FrameOfNothing, SnapshotUntouched
<1>3. WithinLimit' /\ CodeOpensOneSession' /\ ExpiryWithinLifetime'
  BY <1>1, <1>2, FrameKeeps
<1>4. OpenedByExchange' /\ CodeIffFactor' /\ CallsAreOnSessions'
  BY <1>1, <1>2, FrameExchanges, FrameCalls
<1>5. TypeOK'
  BY <1>1 DEF IInv, TypeOK
<1> QED
  BY <1>2, <1>3, <1>4, <1>5 DEF IInv

LEMMA InitHolds == Init => IInv
<1> SUFFICES ASSUME Init PROVE IInv
  OBVIOUS
<1>1. account \in Accounts /\ Accounts # {} /\ SomeAccount \in Accounts
  BY Constants DEF Init
<1>2. NoLogin("start") \in LoginRecords /\ NoLogin("start").pc = "start"
  BY <1>1, Constants DEF NoLogin, LoginRecords
<1>3. NoCall \in CallRecords /\ NoCall.pc = "idle"
  BY <1>1, Constants, UnusedType DEF NoCall, CallRecords
<1>4. TypeOK
  BY <1>2, <1>3, NoSessionsType, SessionsOK DEF Init, TypeOK
<1>5. \A s \in Logins : sessions[s] = Unused
  BY DEF Init, NoSessions
<1>6. OpenedByExchange /\ CodeIffFactor /\ SnapshotFresh /\ CallsAreOnSessions
  BY <1>2, <1>3, <1>5 DEF Init, OpenedByExchange, CodeIffFactor, SnapshotFresh, CallsAreOnSessions,
                          Unused
<1>7. WithinLimit /\ ExpiryWithinLifetime
  BY <1>5 DEF WithinLimit, ExpiryWithinLifetime, IsOpen, Unused
<1>8. CodeOpensOneSession
  BY <1>5, SessionsOK DEF Init, CodeOpensOneSession, Unused
<1> QED
  BY <1>4, <1>6, <1>7, <1>8 DEF IInv

LEMMA InvStep == IInv /\ [Next]_vars => IInv'
<1> SUFFICES ASSUME IInv, [Next]_vars PROVE IInv'
  OBVIOUS
<1>1. ASSUME NEW c \in Codes, SendCode(c) PROVE IInv'
  BY <1>1, SendCodeStep
<1>2. ASSUME NEW l \in Logins, Authenticate(l) \/ Begin(l) \/ Open(l) \/ Replay(l) PROVE IInv'
  BY <1>2, AuthenticateStep, BeginStep, OpenStep, ReplayStep
<1>3. ASSUME NEW l \in Logins, RefuseCode(l) \/ Block(l) \/ Fail(l) PROVE IInv'
  BY <1>3, RefusalSteps
<1>4. ASSUME NEW r \in Requests, Arrive(r) \/ Read(r) \/ Accept(r) PROVE IInv'
  BY <1>4, ArriveStep, ReadStep, AcceptStep
<1>5. ASSUME NEW r \in Requests, RejectEnded(r) \/ RejectUnassured(r) \/ Answer(r) PROVE IInv'
  BY <1>5, AnswerSteps
<1>6. ASSUME NEW r \in Requests, Expire(r) \/ Logout(r) PROVE IInv'
  BY <1>6, TerminateSteps
<1>7. ASSUME ChangeUser \/ Promote \/ ChangeTenant \/ Tick \/ UNCHANGED vars PROVE IInv'
  BY <1>7, ChangeUserStep, PromoteStep, ChangeTenantStep, QuietStep
<1> QED
  BY <1>1, <1>2, <1>3, <1>4, <1>5, <1>6, <1>7 DEF Next

\* Every reachable state satisfies the inductive invariant.
THEOREM SpecInv == Spec => []IInv
<1> QED
  BY InitHolds, InvStep, PTL DEF Spec

-------------------------------------------------------------------------------
(* The properties *)

\* The variables always have their types: every time a session carries is within reach of the
\* clock, every slot within the limits, every request and exchange in a state of the code.
THEOREM TypeCorrect == Spec => []TypeOK
<1>1. IInv => TypeOK
  BY DEF IInv
<1> QED
  BY <1>1, SpecInv, PTL

\* The limit of sessionService.create: the sessions that are not terminated hold different slots,
\* each below the limit of its kind, whatever exchanges and requests run side by side.
THEOREM LimitHolds == Spec => []WithinLimit
<1>1. IInv => WithinLimit
  BY DEF IInv
<1> QED
  BY <1>1, SpecInv, PTL

\* POST /auth/session: a one-time code is used up exactly when it opened a session, and no code
\* opens two.
THEOREM OneSessionPerCode == Spec => []CodeOpensOneSession
<1>1. IInv => CodeOpensOneSession
  BY DEF IInv
<1> QED
  BY <1>1, SpecInv, PTL

\* The sliding expiry of touch never leads past the absolute end of the session.
THEOREM ExpiryCapped == Spec => []ExpiryWithinLifetime
<1>1. IInv => ExpiryWithinLifetime
  BY DEF IInv
<1> QED
  BY <1>1, SpecInv, PTL

\* requireSession: a managed role of a paid tenant acts only on a session whose own exchange
\* consumed a code, a public demo account only on a demo session.
THEOREM OwnFactor == Spec => []AcceptedWithOwnFactor
<1>1. IInv => AcceptedWithOwnFactor
  <2> SUFFICES ASSUME IInv, NEW r \in Requests, call[r].pc = "accepted"
               PROVE  /\ call[r].as.demo <=> sessions[call[r].sid].method = "public_demo"
                      /\ (call[r].as.plan = "paid" /\ call[r].as.role # "requestor"
                            /\ ~call[r].as.demo) =>
                           /\ sessions[call[r].sid].code # None
                           /\ codes[sessions[call[r].sid].code] = "used"
    BY DEF AcceptedWithOwnFactor
  <2> DEFINE s == call[r].sid
             a == call[r].as
  <2>1. s \in Logins /\ sessions[s].state # "none" /\ Assured(sessions[s].method, a)
    BY DEF IInv, CallsAreOnSessions
  <2>2. a.demo <=> sessions[s].method = "public_demo"
    BY <2>1 DEF Assured, Allowed
  <2>3. ASSUME a.plan = "paid", a.role # "requestor", ~a.demo
        PROVE  sessions[s].code # None /\ codes[sessions[s].code] = "used"
    <3>1. sessions[s].method = "risk_sense_otp"
      BY <2>1, <2>3 DEF Assured, Allowed
    <3>2. sessions[s].code # None
      BY <2>1, <3>1 DEF IInv, CodeIffFactor
    <3>3. sessions[s].code \in Codes
      <4>1. sessions[s] \in SessionRecords
        BY <2>1 DEF IInv, TypeOK
      <4> QED
        BY <4>1, <3>2 DEF SessionRecords
    <3> QED
      BY <2>1, <3>2, <3>3 DEF IInv, CodeOpensOneSession
  <2> QED
    BY <2>2, <2>3
<1> QED
  BY <1>1, SpecInv, PTL

-------------------------------------------------------------------------------
(* The properties of steps *)

\* A session that has ended is left as it is, by terminate, by create and by touch.
LEMMA EndedStays ==
  ASSUME IInv, Next, NEW s \in Logins, sessions[s].state \in Reasons
  PROVE  sessions'[s].state = sessions[s].state
<1>1. sessions \in [Logins -> SessionRecords] /\ sessions[s].state # "open"
      /\ sessions[s].state # "none"
  BY DEF IInv, TypeOK, Reasons
<1>2. \A why : Ended(sessions[s], why) = sessions[s]
  BY <1>1 DEF Ended
<1>3. ASSUME NEW l \in Logins, Open(l) PROVE sessions'[s].state = sessions[s].state
  <2>1. s # l
    BY <1>1, <1>3 DEF Open, IInv, OpenedByExchange
  <2> QED
    BY <1>2, <1>3, <2>1 DEF Open
<1>4. ASSUME NEW r \in Requests, Expire(r) \/ Logout(r)
      PROVE  sessions'[s].state = sessions[s].state
  <2>1. PICK why \in Reasons :
          sessions' = [sessions EXCEPT ![call[r].sid] = Ended(sessions[call[r].sid], why)]
    BY <1>4 DEF Expire, Logout, Reasons
  <2>2. sessions'[s] = sessions[s]
    BY <1>1, <1>2, <2>1
  <2> QED
    BY <2>2
<1>5. ASSUME NEW r \in Requests, Accept(r) PROVE sessions'[s].state = sessions[s].state
  <2>1. PICK t : sessions' = [sessions EXCEPT
                   ![call[r].sid].seen = t,
                   ![call[r].sid].expires = Sliding(t, call[r].copy.method, call[r].copy.until)]
    BY <1>5 DEF Accept
  <2>2. sessions[s] \in SessionRecords
    BY <1>1
  <2> QED
    BY <1>1, <2>1, <2>2 DEF SessionRecords
<1>6. CASE ChangeUser \/ Promote
  BY <1>2, <1>6 DEF ChangeUser, Promote, EndAll
<1>7. ASSUME UNCHANGED sessions PROVE sessions'[s].state = sessions[s].state
  BY <1>7
<1>8. \/ \E l \in Logins : Open(l)
      \/ \E r \in Requests : Expire(r) \/ Logout(r) \/ Accept(r)
      \/ ChangeUser \/ Promote
      \/ UNCHANGED sessions
  BY DEF Next, SendCode, Authenticate, Begin, RefuseCode, Block, Replay, Fail, Arrive, Read,
         RejectEnded, RejectUnassured, Answer, ChangeTenant, Tick
<1> QED
  BY <1>3, <1>4, <1>5, <1>6, <1>7, <1>8

\* terminate and touch: a session ends once, with one reason.
THEOREM EndsOnce == Spec => EndedOnce
<1>1. IInv /\ [Next]_vars =>
        [\A s \in Logins :
           sessions[s].state \in Reasons => sessions'[s].state = sessions[s].state]_vars
  BY EndedStays DEF vars
<1> QED
  BY <1>1, SpecInv, PTL DEF Spec, EndedOnce

\* Only the commit of create answers an exchange with a session.
LEMMA DoneByOpen ==
  ASSUME IInv, Next, NEW l \in Logins, login[l].pc = "txn", login'[l].pc = "done"
  PROVE  Open(l)
<1>1. login \in [Logins -> LoginRecords]
  BY DEF IInv, TypeOK
<1>2. \A m \in Logins : Over(m, "refused") => login'[l].pc # "done"
  BY <1>1 DEF Over, NoLogin
<1>3. \A m \in Logins : ~(RefuseCode(m) \/ Block(m) \/ Fail(m))
  BY <1>2 DEF RefuseCode, Block, Fail
<1>4. \A m \in Logins : Authenticate(m) => login'[l].pc # "done"
  BY <1>1 DEF Authenticate
<1>5. \A m \in Logins : Begin(m) \/ Replay(m) => login'[l].pc # "done"
  <2>1. login[l] \in LoginRecords
    BY <1>1
  <2> QED
    BY <1>1, <2>1 DEF Begin, Replay, LoginRecords
<1>6. \A m \in Logins : Open(m) => m = l
  BY <1>1 DEF Open, Over
<1>7. login' # login
  OBVIOUS
<1> QED
  BY <1>3, <1>4, <1>5, <1>6, <1>7
     DEF Next, SendCode, Arrive, Read, RejectEnded, Expire, RejectUnassured, Accept, Logout,
         Answer, ChangeUser, Promote, ChangeTenant, Tick

\* With a free place for the new session nothing is superseded to make room.
LEMMA SparesWithRoom ==
  ASSUME NEW live \in SUBSET Logins, NEW S, NEW limit \in Nat,
         Cardinality(live) < limit, NEW E \in Oldest(S, live, Excess(live, limit))
  PROVE  E = {}
<1>1. IsFiniteSet(live) /\ IsFiniteSet(E) /\ E \in SUBSET live
  BY SessionsOK, FS_Subset DEF Oldest
<1>2. Cardinality(live) \in Nat
  BY <1>1, FS_CardinalityType
<1>3. Excess(live, limit) = 0
  BY <1>2 DEF Excess
<1>4. Cardinality(E) = 0
  BY <1>3 DEF Oldest
<1> QED
  BY <1>1, <1>4, FS_EmptySet

\* What an exchange with blockConcurrentLogin ends, it ends as its account and the clock demand.
LEMMA OpenSpares ==
  ASSUME IInv, NEW l \in Logins, Open(l), Blocks(login[l].as, login[l].method),
         NEW s \in Logins, IsOpen(s), ~IsOpen(s)'
  PROVE  sessions[s].expires <= now \/ ~Assured(sessions[s].method, login[l].as)
<1> DEFINE S     == snap[l]
           a     == login[l].as
           limit == Limit(login[l].method)
           Ends(t, u, E) ==
             LET live == Live(S, t, a)
                 late == Late(S, live \ E, u)
                 gone == Stale(S, t) \cup Unassured(S, t, a) \cup E \cup late
                 free == FreeSlots(S, live \ (E \cup late), limit)
             IN /\ t <= u /\ (E = {} => u = t)
                /\ Blocks(a, login[l].method) => Cardinality(live) < limit
                /\ Commits(l, gone)
                /\ sessions' = [d \in Logins |->
                     IF d = l THEN New(l, Lowest(free), u)
                     ELSE IF d \in Stale(S, t) \cup late THEN Ended(sessions[d], "timeout")
                     ELSE IF d \in gone THEN Ended(sessions[d], "superseded")
                     ELSE sessions[d]]
<1>1. login[l] \in LoginRecords /\ login[l].pc = "txn" /\ sessions[s].state = "open"
  BY DEF IInv, TypeOK, Open, IsOpen
<1>2. s # l /\ sessions'[s] # sessions[s]
  BY <1>1 DEF IInv, OpenedByExchange, IsOpen
<1>3. PICK t \in login[l].at..now, u \in login[l].at..now :
        \E E \in Oldest(S, Live(S, t, a), Excess(Live(S, t, a), limit)) : Ends(t, u, E)
  BY ZenonT(30) DEF Open
<1>4. PICK E \in Oldest(S, Live(S, t, a), Excess(Live(S, t, a), limit)) : Ends(t, u, E)
  BY <1>3
<1>5. E = {}
  <2>1. limit \in Nat
    BY <1>1, LimitIsSlots DEF LoginRecords
  <2> DEFINE live == Live(S, t, a)
  <2>2. live \in SUBSET Logins
    BY DEF Live
  <2>3. E \in Oldest(S, live, Excess(live, limit)) /\ Cardinality(live) < limit
    BY <1>4
  <2> HIDE DEF S, limit, live
  <2> QED
    BY <2>1, <2>2, <2>3, SparesWithRoom
<1>6. s \in Stale(S, t) \/ s \in Unassured(S, t, a)
  <2>1. Late(S, Live(S, t, a) \ E, u) \subseteq Stale(S, t)
    BY <1>4, <1>5 DEF Late, Live, Stale
  <2> QED
    BY <1>2, <1>4, <1>5, <2>1
<1>7. S[s] = sessions[s]
  <2>1. AuditLog \notin moved[l] /\ s \notin moved[l]
    BY <1>4, <1>6 DEF Commits
  <2> QED
    BY <1>1, <2>1 DEF IInv, SnapshotFresh
<1>8. CASE s \in Stale(S, t)
  <2>1. sessions[s].expires <= t
    BY <1>7, <1>8 DEF Stale
  <2>2. sessions[s].expires \in Int /\ t \in Int /\ now \in Int /\ t <= now
    <3>1. sessions[s] \in SessionRecords /\ now \in 0..MaxTime
      BY DEF IInv, TypeOK
    <3>2. Times \subseteq Int
      BY SessionsOK DEF Times, Never
    <3>3. login[l].at \in Int /\ now \in Int
      BY <1>1, <3>1 DEF LoginRecords
    <3>4. sessions[s].expires \in Times
      BY <3>1 DEF SessionRecords
    <3>5. t \in login[l].at..now
      BY <1>3
    <3>6. t \in Int /\ t <= now
      BY <3>3, <3>5
    <3> QED
      BY <3>2, <3>3, <3>4, <3>6
  <2> QED
    BY <2>1, <2>2
<1>9. CASE s \in Unassured(S, t, a)
  BY <1>7, <1>9 DEF Unassured
<1> QED
  BY <1>6, <1>8, <1>9

\* blockConcurrentLogin: an exchange never ends a session that is live and sufficient.
THEOREM BlockedSpares == Spec => BlockedLoginSparesLive
<1>1. IInv /\ [Next]_vars =>
        [\A l, s \in Logins :
           (/\ login[l].pc = "txn" /\ login'[l].pc = "done"
            /\ Blocks(login[l].as, login[l].method)
            /\ IsOpen(s) /\ ~IsOpen(s)') =>
              sessions[s].expires <= now \/ ~Assured(sessions[s].method, login[l].as)]_vars
  BY DoneByOpen, OpenSpares DEF vars
<1> QED
  BY <1>1, SpecInv, PTL DEF Spec, BlockedLoginSparesLive

-------------------------------------------------------------------------------
(* Eviction *)

\* When some live sessions are evicted, the others and the new one are as many as the limit.
LEMMA KeptFillTheLimit ==
  ASSUME NEW live \in SUBSET Logins, NEW S, NEW limit \in Nat \ {0},
         NEW E \in Oldest(S, live, Excess(live, limit)), E # {},
         NEW l \in Logins \ live, NEW X \in SUBSET Logins, (live \ E) \cup {l} \subseteq X
  PROVE  Cardinality(X) >= limit
<1>1. IsFiniteSet(live) /\ IsFiniteSet(E) /\ IsFiniteSet(X) /\ E \in SUBSET live
  BY SessionsOK, FS_Subset DEF Oldest
<1>2. Cardinality(live) \in Nat /\ Cardinality(E) \in Nat /\ Cardinality(E) # 0
  BY <1>1, FS_CardinalityType, FS_EmptySet
<1>3. Cardinality(E) = Cardinality(live) - limit + 1
  <2>1. Cardinality(E) = Excess(live, limit)
    BY DEF Oldest
  <2> QED
    BY <1>2, <2>1 DEF Excess
<1>4. IsFiniteSet(live \ E) /\ Cardinality(live \ E) = limit - 1
  <2>1. live \cap E = E
    BY <1>1
  <2>2. IsFiniteSet(live \ E) /\ Cardinality(live \ E) = Cardinality(live) - Cardinality(E)
    BY <1>1, <2>1, FS_Difference
  <2> QED
    BY <1>2, <1>3, <2>2
<1>5. Cardinality((live \ E) \cup {l}) = limit
  <2>1. l \notin live \ E
    OBVIOUS
  <2>2. Cardinality((live \ E) \cup {l}) = Cardinality(live \ E) + 1
    BY <1>4, <2>1, FS_AddElement
  <2> QED
    BY <1>4, <2>2
<1>6. Cardinality((live \ E) \cup {l}) <= Cardinality(X)
  BY <1>1, FS_Subset
<1> QED
  BY <1>5, <1>6

\* A session that a commit supersedes although it suffices was evicted; what was live with it then
\* stays open, or has expired by the time the slot was looked for and ends in the same commit.
LEMMA OpenEvicts ==
  ASSUME IInv, NEW l \in Logins, Open(l), NEW s \in Logins, IsOpen(s),
         sessions'[s].state = "superseded", Assured(sessions[s].method, login[l].as)
  PROVE  Cardinality({u \in Logins : \/ IsOpen(u)'
                                     \/ IsOpen(u) /\ sessions'[u].state = "timeout"})
           >= Limit(login[l].method)
<1> DEFINE S     == snap[l]
           a     == login[l].as
           limit == Limit(login[l].method)
           Ends(t, v, E) ==
             LET live == Live(S, t, a)
                 late == Late(S, live \ E, v)
                 gone == Stale(S, t) \cup Unassured(S, t, a) \cup E \cup late
                 free == FreeSlots(S, live \ (E \cup late), limit)
             IN /\ Commits(l, gone)
                /\ sessions' = [d \in Logins |->
                     IF d = l THEN New(l, Lowest(free), v)
                     ELSE IF d \in Stale(S, t) \cup late THEN Ended(sessions[d], "timeout")
                     ELSE IF d \in gone THEN Ended(sessions[d], "superseded")
                     ELSE sessions[d]]
           X == {u \in Logins : \/ IsOpen(u)'
                                \/ IsOpen(u) /\ sessions'[u].state = "timeout"}
<1>1. /\ login[l] \in LoginRecords /\ login[l].pc = "txn" /\ sessions[l].state = "none"
      /\ sessions \in [Logins -> SessionRecords]
  BY DEF IInv, TypeOK, Open, OpenedByExchange
<1>2. sessions[s].state = "open" /\ s # l
  BY <1>1 DEF IsOpen
<1>3. PICK t \in login[l].at..now, v \in login[l].at..now :
        \E E \in Oldest(S, Live(S, t, a), Excess(Live(S, t, a), limit)) : Ends(t, v, E)
  BY ZenonT(30) DEF Open
<1>4. PICK E \in Oldest(S, Live(S, t, a), Excess(Live(S, t, a), limit)) : Ends(t, v, E)
  BY <1>3
<1> DEFINE live == Live(S, t, a)
           late == Late(S, live \ E, v)
           free == FreeSlots(S, live \ (E \cup late), limit)
<1>5. /\ AuditLog \notin moved[l]
      /\ \A d \in Stale(S, t) \cup Unassured(S, t, a) \cup E \cup late : d \notin moved[l]
  BY <1>4 DEF Commits
<1>6. \A d \in Logins : /\ S[d].state = sessions[d].state /\ S[d].method = sessions[d].method
                        /\ d \notin moved[l] => S[d] = sessions[d]
  BY <1>1, <1>5 DEF IInv, SnapshotFresh, SameButTouched
<1>7. live \in SUBSET Logins /\ l \notin live /\ \A d \in live : sessions[d].state = "open"
  BY <1>1, <1>6 DEF Live
<1>8. sessions' = [d \in Logins |->
        IF d = l THEN New(l, Lowest(free), v)
        ELSE IF d \in Stale(S, t) \cup late THEN Ended(sessions[d], "timeout")
        ELSE IF d \in Stale(S, t) \cup Unassured(S, t, a) \cup E \cup late
               THEN Ended(sessions[d], "superseded")
        ELSE sessions[d]]
  BY <1>4
<1>9. s \in E
  <2>1. s \notin Unassured(S, t, a)
    BY <1>6 DEF Unassured
  <2>2. s \notin Stale(S, t) \cup late
    <3>1. Ended(sessions[s], "timeout").state = "timeout"
      BY <1>1, <1>2 DEF Ended, SessionRecords
    <3> HIDE DEF late, free
    <3> QED
      BY <1>2, <1>8, <3>1
  <2> HIDE DEF late, free
  <2> QED
    BY <1>2, <1>8, <2>1, <2>2
<1>10. l \in X
  <2>1. sessions'[l].state = "open"
    <3> HIDE DEF late, free
    <3> QED
      BY <1>8 DEF New
  <2> QED
    BY <2>1 DEF IsOpen
<1>11. ASSUME NEW d \in live \ E PROVE d \in X
  <2>1. d \in Logins /\ d # l /\ sessions[d].state = "open"
    BY <1>7
  <2>2. d \notin Unassured(S, t, a) /\ d \notin Stale(S, t)
    <3>1. d \in Logins /\ S[d].expires > t /\ Assured(S[d].method, a)
      BY DEF Live
    <3>2. S[d].expires \in Int /\ t \in Int
      <4>1. snap[l][d] \in SessionRecords /\ login[l].at \in Int /\ now \in Int
        BY <1>1, <3>1 DEF IInv, TypeOK, LoginRecords
      <4>2. Times \subseteq Int
        BY SessionsOK DEF Times, Never
      <4>3. S[d].expires \in Times
        BY <4>1 DEF SessionRecords
      <4>4. t \in login[l].at..now
        BY <1>3
      <4>5. t \in Int
        BY <4>1, <4>4
      <4> HIDE DEF S
      <4> QED
        BY <4>2, <4>3, <4>5
    <3> QED
      BY <3>1, <3>2 DEF Unassured, Stale
  <2>3. CASE d \in late
    <3>1. sessions'[d] = Ended(sessions[d], "timeout")
      <4> HIDE DEF late, free
      <4> QED
        BY <1>8, <2>1, <2>3
    <3>2. sessions'[d].state = "timeout"
      BY <1>1, <2>1, <3>1 DEF Ended, SessionRecords
    <3> QED
      BY <2>1, <3>2 DEF IsOpen
  <2>4. CASE d \notin late
    <3>1. sessions'[d] = sessions[d]
      <4> HIDE DEF late, free
      <4> QED
        BY <1>8, <2>1, <2>2, <2>4
    <3> QED
      BY <2>1, <3>1 DEF IsOpen
  <2> QED
    BY <2>3, <2>4
<1>12. limit \in Nat \ {0}
  BY <1>1, LimitIsSlots DEF LoginRecords
<1>13. X \in SUBSET Logins /\ (live \ E) \cup {l} \subseteq X /\ E # {} /\ l \in Logins \ live
  BY <1>7, <1>9, <1>10, <1>11
<1>14. E \in Oldest(S, live, Excess(live, limit))
  BY <1>4
<1> HIDE DEF S, limit, live, X
<1>15. Cardinality(X) >= limit
  BY <1>7, <1>12, <1>13, <1>14, KeptFillTheLimit
<1> QED
  BY <1>15 DEF X, limit

\* The oldest sessions go for a new one only if there is no room, and no more of them than needed:
\* with what expired in the same commit, there are still as many as the limit allows.
THEOREM EvictsNoMoreThanNeeded == Spec => EvictsOnlyForRoom
<1>1. IInv /\ [Next]_vars =>
        [\A l, s \in Logins :
           (/\ login[l].pc = "txn" /\ login'[l].pc = "done"
            /\ IsOpen(s) /\ sessions'[s].state = "superseded"
            /\ Assured(sessions[s].method, login[l].as)) =>
              Cardinality({u \in Logins : \/ IsOpen(u)'
                                          \/ IsOpen(u) /\ sessions'[u].state = "timeout"})
                >= Limit(login[l].method)]_vars
  BY DoneByOpen, OpenEvicts DEF vars
<1> QED
  BY <1>1, SpecInv, PTL DEF Spec, EvictsOnlyForRoom

===============================================================================
