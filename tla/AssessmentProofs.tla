--------------------------- MODULE AssessmentProofs ---------------------------
(***************************************************************************)
(* What holds of Assessment for every set of requests, questions, facts and *)
(* values, and for every library pinVersions can find.                      *)
(***************************************************************************)
EXTENDS Assessment, TLAPS, NaturalsInduction, WellFoundedInduction

-------------------------------------------------------------------------------
(* The intake as a function *)

\* A non-empty set of numbers has a least one, and Min finds it.
LEMMA Least ==
  ASSUME NEW S \in SUBSET Nat, S # {}
  PROVE  Min(S) \in S /\ \A m \in S : Min(S) <= m
<1>1. \A a, b \in Nat : a < b => <<a, b>> \in OpToRel(<, Nat)
  BY SMT DEF OpToRel
<1>2. PICK n \in S : \A m \in S : <<m, n>> \notin OpToRel(<, Nat)
  BY NatLessThanWellFounded, WFMin
<1>3. \A m \in S : ~(m < n)
  BY <1>1, <1>2
<1>4. \A m \in S : n <= m
  BY <1>3
<1> QED
  BY <1>4 DEF Min

\* Kept builds a sequence of members of its argument.  The recursive function exists, since
\* there is one up to every n (else take the least n without one), and every value of it is
\* a sequence (else take the least n where it is none).
LEMMA KeptType ==
  ASSUME NEW Q, NEW s \in Seq(Q), NEW keep
  PROVE  Kept(s, keep) \in Seq(Q)
<1> DEFINE Body(f, n) == IF n = 0 THEN <<>>
                         ELSE IF s[n] \in keep THEN Append(f[n - 1], s[n])
                         ELSE f[n - 1]
           Good(n) == \E f \in [0..n -> Seq(Q)] : \A m \in 0..n : f[m] = Body(f, m)
           Bad == {n \in 0..Len(s) : ~Good(n)}
<1>1. \A n \in 0..Len(s) : Good(n)
  <2> SUFFICES ASSUME Bad # {} PROVE FALSE
    OBVIOUS
  <2> DEFINE n == Min(Bad)
  <2>1. n \in Bad /\ \A m \in Bad : n <= m
    <3>1. Bad \in SUBSET Nat
      OBVIOUS
    <3> HIDE DEF Bad
    <3> QED
      BY <3>1, Least
  <2> HIDE DEF n
  <2>2. n # 0
    <3> SUFFICES ASSUME n = 0 PROVE FALSE
      OBVIOUS
    <3> DEFINE f == [m \in 0..0 |-> <<>>]
    <3>1. f \in [0..n -> Seq(Q)] /\ \A m \in 0..n : f[m] = Body(f, m)
      OBVIOUS
    <3> QED
      BY <3>1, <2>1
  <2>3. Good(n - 1)
    <3> HIDE DEF Good
    <3> QED
      BY <2>1, <2>2
  <2>4. PICK f \in [0..(n - 1) -> Seq(Q)] : \A m \in 0..(n - 1) : f[m] = Body(f, m)
    BY <2>3
  <2> DEFINE g == [m \in 0..n |-> IF m < n THEN f[m] ELSE Body(f, n)]
  <2>5. g \in [0..n -> Seq(Q)]
    <3>1. f[n - 1] \in Seq(Q) /\ s[n] \in Q
      BY <2>1, <2>2, <2>4
    <3>2. Body(f, n) \in Seq(Q)
      BY <3>1, <2>2
    <3> QED
      BY <3>2, <2>1
  <2>6. \A m \in 0..n : g[m] = Body(g, m)
    <3> TAKE m \in 0..n
    <3>1. CASE m = 0
      BY <3>1, <2>2, <2>1, <2>4
    <3>2. CASE m # 0
      <4>1. g[m - 1] = f[m - 1]
        BY <3>2, <2>1
      <4>2. Body(g, m) = Body(f, m)
        <5> HIDE DEF g
        <5> QED
          BY <4>1, <3>2
      <4>3. CASE m < n
        <5>1. g[m] = f[m] /\ m \in 0..(n - 1)
          BY <4>3, <2>1
        <5>2. f[m] = Body(f, m)
          BY <2>4, <5>1
        <5> QED
          BY <5>1, <5>2, <4>2
      <4>4. CASE m = n
        BY <4>2, <4>4, <2>1
      <4> QED
        BY <4>3, <4>4, <2>1
    <3> QED
      BY <3>1, <3>2
  <2>7. Good(n)
    <3> HIDE DEF g
    <3> QED
      BY <2>5, <2>6
  <2> QED
    BY <2>1, <2>7
<1>2. PICK f \in [0..Len(s) -> Seq(Q)] : \A m \in 0..Len(s) : f[m] = Body(f, m)
  <2>1. Good(Len(s))
    <3> HIDE DEF Good
    <3> QED
      BY <1>1
  <2> QED
    BY <2>1
<1> DEFINE h == CHOOSE g : g = [n \in 0..Len(s) |-> Body(g, n)]
           Off == {n \in 0..Len(s) : h[n] \notin Seq(Q)}
<1>3. h = [n \in 0..Len(s) |-> Body(h, n)]
  <2>1. f = [n \in 0..Len(s) |-> Body(f, n)]
    BY <1>2
  <2> QED
    BY <2>1
<1>4. Kept(s, keep) = h[Len(s)]
  BY DEF Kept
<1> HIDE DEF h
<1>5. Off = {}
  <2> SUFFICES ASSUME Off # {} PROVE FALSE
    OBVIOUS
  <2> DEFINE n == Min(Off)
  <2>1. n \in Off /\ \A m \in Off : n <= m
    <3>1. Off \in SUBSET Nat
      OBVIOUS
    <3> HIDE DEF Off
    <3> QED
      BY <3>1, Least
  <2> HIDE DEF n
  <2>2. h[n] = Body(h, n)
    BY <1>3, <2>1
  <2>3. CASE n = 0
    BY <2>1, <2>2, <2>3
  <2>4. CASE n # 0
    <3>1. h[n - 1] \in Seq(Q) /\ s[n] \in Q
      BY <2>1, <2>4
    <3>2. Append(h[n - 1], s[n]) \in Seq(Q)
      BY <3>1
    <3>3. Body(h, n) \in Seq(Q)
      BY <3>1, <3>2, <2>4
    <3>4. h[n] \notin Seq(Q)
      BY <2>1
    <3> QED
      BY <3>3, <3>4, <2>2
  <2> QED
    BY <2>3, <2>4
<1> QED
  BY <1>4, <1>5

\* What the pinned content of a scenario is made of.
LEMMA ContentType ==
  ASSUME NEW c \in Contents
  PROVE  /\ c.persona \in Personas /\ c.scenario \in Scenarios
         /\ c.flow \in Seq(Questions) /\ \A i \in DOMAIN c.flow : c.flow[i] \in c.questions
         /\ c.questions \in SUBSET Questions
         /\ c.order \in Seq(Questions)
         /\ c.fact \in [Questions -> FactKeys]
         /\ c.required \in Seq(FactKeys)
         /\ \A k \in Questions : c.trigger[k] # Nothing => c.trigger[k].follow \in Seq(Questions)
BY AssessmentOK DEF Pinned, Consistent

\* Everything nextQuestion may pop is a position of the queue, and what it pops is the first.
LEMMA NextQuestion ==
  ASSUME NEW c \in Contents, NEW q \in Seq(Questions), NEW a \in [Questions -> Nat],
         NEW fs
  PROVE  LET step == nextQuestion(c, q, a, fs)
             ask  == Askable(c, q, a, fs)
         IN  /\ ask = {} => step.question = Nothing
             /\ ask # {} =>
                  \E i \in DOMAIN q :
                    /\ i \in ask /\ \A j \in ask : i <= j
                    /\ step = [question |-> q[i], queue |-> SubSeq(q, i + 1, Len(q))]
<1> DEFINE ask == Askable(c, q, a, fs)
<1>1. ask \in SUBSET Nat /\ ask \subseteq DOMAIN q
  BY DEF Askable
<1>2. CASE ask = {}
  BY <1>2 DEF nextQuestion
<1>3. CASE ask # {}
  <2>1. Min(ask) \in ask /\ \A j \in ask : Min(ask) <= j
    <3> HIDE DEF ask
    <3> QED
      BY <1>1, <1>3, Least
  <2> QED
    BY <1>1, <1>3, <2>1 DEF nextQuestion
<1> QED
  BY <1>2, <1>3

\* The producer of a fact is a pinned question on that fact.
LEMMA ProducerPinned ==
  ASSUME NEW c \in Contents, NEW f, Producers(c, f) # {}
  PROVE  Producer(c, f) \in c.questions /\ c.fact[Producer(c, f)] = f
<1>1. Producers(c, f) \in SUBSET Nat /\ Producers(c, f) \subseteq DOMAIN c.order
  BY ContentType DEF Producers
<1>2. Min(Producers(c, f)) \in Producers(c, f)
  BY <1>1, Least
<1>3. Min(Producers(c, f)) \in DOMAIN c.order /\ c.fact[Producer(c, f)] = f
  BY <1>1, <1>2 DEF Producer, Producers
<1> QED
  BY <1>3, AssessmentOK DEF Producer, Consistent

\* The question at position i of queue q is popped.
Popped(q, i) == [question |-> q[i], queue |-> SubSeq(q, i + 1, Len(q))]

\* What is left behind position i keeps its place.
LEMMA PoppedRest ==
  ASSUME NEW q \in Seq(Questions), NEW i \in 1..Len(q), NEW j \in 1..Len(q), i < j
  PROVE  \E n \in DOMAIN SubSeq(q, i + 1, Len(q)) : SubSeq(q, i + 1, Len(q))[n] = q[j]
<1>1. j - i \in 1..(Len(q) - (i + 1) + 1)
  OBVIOUS
<1>2. SubSeq(q, i + 1, Len(q))[j - i] = q[(i + 1) + (j - i) - 1]
  BY <1>1
<1>3. Len(SubSeq(q, i + 1, Len(q))) = Len(q) - i /\ SubSeq(q, i + 1, Len(q)) \in Seq(Questions)
  OBVIOUS
<1>4. j - i \in DOMAIN SubSeq(q, i + 1, Len(q))
  BY <1>3
<1>5. (i + 1) + (j - i) - 1 = j
  OBVIOUS
<1> QED
  BY <1>2, <1>4, <1>5

\* The document after question i of the queue was popped.
LEMMA AskFields ==
  ASSUME NEW q, NEW i, NEW a
  PROVE  /\ Ask(Popped(q, i), a).queue = SubSeq(q, i + 1, Len(q))
         /\ Ask(Popped(q, i), a).current = q[i]
         /\ Ask(Popped(q, i), a).asked = a
BY DEF Ask, Popped

\* The three ways advance goes.
LEMMA AdvanceCases ==
  ASSUME NEW c \in Contents, NEW q \in Seq(Questions), NEW a \in [Questions -> Nat],
         NEW fs, NEW ph
  PROVE  \/ \E i \in DOMAIN q : /\ i \in Askable(c, q, a, fs)
                               /\ \A j \in Askable(c, q, a, fs) : i <= j
                               /\ advance(c, q, a, fs, ph) = Ask(Popped(q, i), a)
         \/ /\ Askable(c, q, a, fs) = {}
            /\ \E k \in c.questions : /\ fs[c.fact[k]] \in {Nothing, Blank}
                                     /\ advance(c, q, a, fs, ph) = AskAgain(k, a, ph)
         \/ /\ Askable(c, q, a, fs) = {} /\ ReAskable(c, a, fs) = {}
            /\ advance(c, q, a, fs, ph) = Finish(a)
<1> DEFINE ask   == Askable(c, q, a, fs)
           again == ReAskable(c, a, fs)
           next  == nextQuestion(c, q, a, fs)
<1>1. CASE ask # {}
  <2>1. PICK i \in DOMAIN q : i \in ask /\ (\A j \in ask : i <= j) /\ next = Popped(q, i)
    BY <1>1, NextQuestion DEF Popped
  <2>2. next.question = q[i]
    BY <2>1 DEF Popped
  <2>3. next.question # Nothing
    BY <2>2, BranchingOK
  <2>4. advance(c, q, a, fs, ph) = Ask(next, a)
    BY <2>3 DEF advance
  <2> QED
    BY <2>1, <2>4
<1>2. CASE ask = {} /\ again # {}
  <2>1. next.question = Nothing
    BY <1>2, NextQuestion
  <2>2. Min(again) \in again
    <3>1. again \in SUBSET Nat
      BY ContentType DEF ReAskable, missingRequired
    <3> QED
      BY <3>1, <1>2, Least
  <2>3. LET k == Producer(c, c.required[Min(again)])
        IN  k \in c.questions /\ fs[c.fact[k]] \in {Nothing, Blank}
    BY <2>2, ProducerPinned DEF ReAskable, missingRequired
  <2>4. advance(c, q, a, fs, ph) = AskAgain(Producer(c, c.required[Min(again)]), a, ph)
    BY <1>2, <2>1 DEF advance
  <2> QED
    BY <1>2, <2>3, <2>4
<1>3. CASE ask = {} /\ again = {}
  <2>1. next.question = Nothing
    BY <1>3, NextQuestion
  <2>2. advance(c, q, a, fs, ph) = Finish(a)
    BY <1>3, <2>1 DEF advance
  <2> QED
    BY <1>3, <2>2
<1> QED
  BY <1>1, <1>2, <1>3

\* The types of what advance leaves, and how phase, status and the pending question go
\* together: a pending question is a pinned one that does not count as asked.
LEMMA AdvanceType ==
  ASSUME NEW c \in Contents, NEW q \in Seq(Questions), NEW a \in [Questions -> Nat],
         NEW fs, NEW ph, NEW step, step = advance(c, q, a, fs, ph)
  PROVE  /\ step.queue \in Seq(Questions)
         /\ step.asked \in [Questions -> Nat]
         /\ \A k \in Questions : step.asked[k] \in {a[k], 0}
         /\ \/ /\ step.status = "in_progress" /\ step.phase \in {ph, "questions"}
               /\ step.current \in c.questions /\ step.asked[step.current] = 0
            \/ /\ step.status = "intake_complete" /\ step.phase = "done"
               /\ step.current = Nothing /\ step.asked = a /\ step.queue = <<>>
<1>1. c.questions \in SUBSET Questions
  BY ContentType
<1>2. ASSUME NEW i \in DOMAIN q, i \in Askable(c, q, a, fs), step = Ask(Popped(q, i), a)
      PROVE  /\ step.queue \in Seq(Questions) /\ step.asked = a
             /\ step.status = "in_progress" /\ step.phase = "questions"
             /\ step.current \in c.questions /\ a[step.current] = 0
  <2>1. q[i] \in c.questions /\ a[q[i]] = 0
    BY <1>2 DEF Askable
  <2>2. SubSeq(q, i + 1, Len(q)) \in Seq(Questions)
    OBVIOUS
  <2>3. Popped(q, i).question = q[i] /\ Popped(q, i).queue = SubSeq(q, i + 1, Len(q))
    BY DEF Popped
  <2> QED
    BY <1>2, <2>1, <2>2, <2>3 DEF Ask
<1>3. ASSUME NEW k \in c.questions, step = AskAgain(k, a, ph)
      PROVE  /\ step.queue \in Seq(Questions) /\ step.asked = [a EXCEPT ![k] = 0]
             /\ step.status = "in_progress" /\ step.phase = ph /\ step.current = k
  BY <1>3 DEF AskAgain
<1>5. ASSUME NEW k \in c.questions
      PROVE  /\ [a EXCEPT ![k] = 0] \in [Questions -> Nat]
             /\ [a EXCEPT ![k] = 0][k] = 0
             /\ \A m \in Questions : [a EXCEPT ![k] = 0][m] \in {a[m], 0}
  BY <1>1
<1>4. ASSUME step = Finish(a)
      PROVE  /\ step.queue \in Seq(Questions) /\ step.queue = <<>> /\ step.asked = a
             /\ step.status = "intake_complete" /\ step.phase = "done" /\ step.current = Nothing
  BY <1>4 DEF Finish
<1>6. CASE \E k \in c.questions : step = AskAgain(k, a, ph)
  <2>1. PICK k \in c.questions : step = AskAgain(k, a, ph)
    BY <1>6
  <2> QED
    BY ZenonT(30), <1>3, <1>5, <2>1
<1> QED
  BY <1>2, <1>4, <1>6, AdvanceCases

\* advance loses no question without a gate: what was asked or waiting is asked, waiting or
\* pending afterwards.
LEMMA AdvanceKeeps ==
  ASSUME NEW c \in Contents, NEW q \in Seq(Questions), NEW a \in [Questions -> Nat],
         NEW fs, NEW ph, NEW step, step = advance(c, q, a, fs, ph),
         NEW k \in c.questions, c.gate[k] = Nothing,
         a[k] > 0 \/ \E j \in DOMAIN q : q[j] = k
  PROVE  step.asked[k] > 0 \/ step.current = k \/ \E j \in DOMAIN step.queue : step.queue[j] = k
<1>1. k \in Questions
  BY ContentType
<1>2. \A j \in DOMAIN q : q[j] = k /\ a[k] = 0 => j \in Askable(c, q, a, fs)
  BY DEF Askable, Open
<1>3. ASSUME NEW i \in DOMAIN q, \A j \in Askable(c, q, a, fs) : i <= j,
             step = Ask(Popped(q, i), a)
      PROVE  step.asked[k] > 0 \/ step.current = k \/ \E j \in DOMAIN step.queue : step.queue[j] = k
  <2>1. step.asked = a /\ step.current = q[i] /\ step.queue = SubSeq(q, i + 1, Len(q))
    BY SMTT(30), <1>3, AskFields
  <2>2. ASSUME NEW j \in DOMAIN q, q[j] = k, a[k] = 0, j # i
        PROVE  \E n \in DOMAIN step.queue : step.queue[n] = k
    <3>1. i \in 1..Len(q) /\ j \in 1..Len(q) /\ i < j
      BY <1>2, <1>3, <2>2
    <3>2. \E n \in DOMAIN SubSeq(q, i + 1, Len(q)) : SubSeq(q, i + 1, Len(q))[n] = q[j]
      BY <3>1, PoppedRest
    <3> QED
      BY <2>1, <2>2, <3>2
  <2> QED
    BY <1>1, <2>1, <2>2
<1>4. ASSUME Askable(c, q, a, fs) = {}, NEW m \in c.questions, step = AskAgain(m, a, ph)
      PROVE  step.asked[k] > 0 \/ step.current = k
  <2>1. a[k] > 0
    BY <1>1, <1>2, <1>4
  <2>2. step.asked = [a EXCEPT ![m] = 0] /\ step.current = m
    BY <1>4 DEF AskAgain
  <2> QED
    BY <1>1, <2>1, <2>2
<1>5. ASSUME Askable(c, q, a, fs) = {}, step = Finish(a)
      PROVE  step.asked[k] > 0
  <2>1. a[k] > 0
    BY <1>1, <1>2, <1>5
  <2> QED
    BY <1>5, <2>1 DEF Finish
<1> QED
  BY <1>3, <1>4, <1>5, AdvanceCases

\* When advance ends the intake, nothing pinned can produce a required fact that is missing.
LEMMA AdvanceEnds ==
  ASSUME NEW c \in Contents, NEW q \in Seq(Questions), NEW a \in [Questions -> Nat],
         NEW fs, NEW ph, \A k \in Questions : a[k] \in {0, 1},
         advance(c, q, a, fs, ph).status = "intake_complete"
  PROVE  \A i \in missingRequired(c, fs) : Producers(c, c.required[i]) = {}
<1>1. ReAskable(c, a, fs) = {}
  <2>1. \A i \in DOMAIN q : Ask(Popped(q, i), a).status = "in_progress"
    BY DEF Ask
  <2>2. \A k : AskAgain(k, a, ph).status = "in_progress"
    BY DEF AskAgain
  <2> QED
    BY <2>1, <2>2, AdvanceCases
<1>2. SUFFICES ASSUME NEW i \in missingRequired(c, fs), Producers(c, c.required[i]) # {}
               PROVE  FALSE
  OBVIOUS
<1>3. Producer(c, c.required[i]) \in Questions
  BY <1>2, ProducerPinned, ContentType
<1>4. a[Producer(c, c.required[i])] < 2
  BY <1>3
<1> QED
  BY <1>1, <1>2, <1>4 DEF ReAskable

\* A branch keeps what was waiting.
LEMMA BranchKeeps ==
  ASSUME NEW c \in Contents, NEW q \in Seq(Questions), NEW a, NEW k \in Questions, NEW v,
         NEW b, b = applyBranch(c, k, v, q, a)
  PROVE  /\ b \in Seq(Questions)
         /\ \A j \in DOMAIN q : \E n \in DOMAIN b : b[n] = q[j]
<1> DEFINE f == FollowUps(c, k, q, a)
<1>1. CASE ~Triggered(c, k, v)
  BY <1>1 DEF applyBranch
<1>2. CASE Triggered(c, k, v)
  <2>1. f \in Seq(Questions)
    BY <1>2, ContentType, KeptType DEF FollowUps, Triggered
  <2>2. b = f \o q
    BY <1>2 DEF applyBranch
  <2> HIDE DEF f
  <2>3. b \in Seq(Questions)
    BY <2>1, <2>2
  <2>4. ASSUME NEW j \in DOMAIN q
        PROVE  \E n \in DOMAIN b : b[n] = q[j]
    <3>1. j \in 1..Len(q) /\ Len(f) \in Nat /\ Len(b) = Len(f) + Len(q)
      BY <2>1, <2>2
    <3>2. Len(f) + j \in DOMAIN b /\ b[Len(f) + j] = q[j]
      BY <2>1, <2>2, <3>1
    <3> QED
      BY <3>2
  <2> QED
    BY <2>3, <2>4
<1> QED
  BY <1>1, <1>2

-------------------------------------------------------------------------------
(* The invariant *)

\* The questions have not begun.
Early == phase \notin {"questions", "done"}

\* Before the questions nothing is asked and no fact is known, and no scenario is pinned
\* before there is an opening text.
Fresh ==
  /\ status = "none" => phase = "persona" /\ content = Nothing
  /\ ~opening => content = Nothing
  /\ Early => \A k \in Questions : asked[k] = 0
  /\ Early => facts = [k \in FactKeys |-> Nothing]

\* A description is asked for, and a question, only once the requestor chose the persona;
\* and there are questions only once content is pinned.
Chosen ==
  /\ phase # "persona" => source = "user" /\ persona \in Personas
  /\ ~Early => content # Nothing

\* A question of the flow without a gate is asked, pending or waiting.
Waiting ==
  content # Nothing =>
    \A i \in DOMAIN content.flow :
      content.gate[content.flow[i]] = Nothing =>
        \/ asked[content.flow[i]] > 0
        \/ current = content.flow[i]
        \/ \E j \in DOMAIN queue : queue[j] = content.flow[i]

\* A submit under way has read what the document still holds.
Prepared ==
  \A r \in Requests :
    task[r].kind = "submit" =>
      /\ status \in Over
      /\ task[r].basis = ValuesOf(facts)
      /\ missingRequired(content, task[r].basis) = {}

Inv ==
  /\ TypeOK /\ Fresh /\ Chosen /\ Waiting /\ Prepared
  /\ AskedLeavesFact /\ NothingSkipped /\ RecommendationFitsFacts /\ SaveNeverRefused
  /\ ReconstructionAgrees /\ ScenarioFitsChosenPersona

\* The facts of the assessment, as the rules and the matrix read them.
LEMMA ValuesType ==
  ASSUME NEW fs \in [FactKeys -> Recorded \cup {Nothing}]
  PROVE  ValuesOf(fs) \in [FactKeys -> Values \cup {Nothing}]
BY DEF ValuesOf, Recorded

\* The initial state has it.
LEMMA InitInv == Init => Inv
<1> SUFFICES ASSUME Init PROVE Inv
  OBVIOUS
<1> USE DEF Init
<1>1. trail \in Trails
  BY DEF EmptyTrail, Trails, Statuses
<1>2. TypeOK
  <2>1. task \in [Requests -> Tasks]
    BY DEF Tasks
  <2>2. queue \in Seq(Questions) /\ asked \in [Questions -> Nat]
    OBVIOUS
  <2>3. facts \in [FactKeys -> Recorded \cup {Nothing}]
    OBVIOUS
  <2>4. opening \in BOOLEAN /\ clarifying \in BOOLEAN
    OBVIOUS
  <2>5. status \in Statuses /\ (phase = "done") = (status \in Over) /\ (phase = "done" => current = Nothing)
    BY DEF Statuses, Over
  <2>6. phase \in {"persona", "describe", "questions", "done"} /\ persona \in Personas \cup {Nothing}
        /\ source \in {"user", "ai", Nothing} /\ content \in Contents \cup {Nothing}
        /\ current \in Questions \cup {Nothing} /\ result \in Results \cup {Nothing}
        /\ decision \in {"accept", "override", "escalate", Nothing}
    OBVIOUS
  <2> HIDE DEF Init
  <2> QED
    BY <1>1, <2>1, <2>2, <2>3, <2>4, <2>5, <2>6 DEF TypeOK
<1>3. Fresh /\ Chosen /\ Waiting /\ ScenarioFitsChosenPersona
  BY DEF Fresh, Chosen, Waiting, ScenarioFitsChosenPersona, Early
<1>4. Prepared /\ RecommendationFitsFacts /\ SaveNeverRefused
  BY DEF Prepared, Idle, RecommendationFitsFacts, SaveNeverRefused, Over
<1>5. AskedLeavesFact /\ NothingSkipped
  BY DEF AskedLeavesFact, NothingSkipped, Over
<1>6. ReconstructionAgrees
  <2>1. ValuesOf(facts) = [k \in FactKeys |-> Nothing]
    BY DEF ValuesOf
  <2> QED
    BY <2>1 DEF ReconstructionAgrees, EmptyTrail
<1> QED
  BY <1>2, <1>3, <1>4, <1>5, <1>6 DEF Inv

\* A step that leaves the document alone, and prepares at most a submit of what it holds.
LEMMA QuietStep ==
  ASSUME Inv, UNCHANGED document, task' \in [Requests -> Tasks],
         \A r \in Requests : task'[r].kind = "submit" =>
           \/ task'[r] = task[r]
           \/ /\ status = "intake_complete" /\ task'[r].basis = ValuesOf(facts)
              /\ missingRequired(content, ValuesOf(facts)) = {}
  PROVE  Inv'
<1> USE DEF document, intake
<1>1. TypeOK'
  BY DEF Inv, TypeOK
<1>2. Fresh' /\ Chosen' /\ Waiting' /\ ScenarioFitsChosenPersona'
  BY DEF Inv, Fresh, Chosen, Waiting, ScenarioFitsChosenPersona, Early
<1>3. ValuesOf(facts)' = ValuesOf(facts) /\ missingRequired(content, ValuesOf(facts))' = missingRequired(content, ValuesOf(facts))
  BY DEF ValuesOf, missingRequired
<1>4. Prepared'
  <2> SUFFICES ASSUME NEW r \in Requests, task'[r].kind = "submit"
               PROVE  /\ status \in Over
                      /\ task'[r].basis = ValuesOf(facts)
                      /\ missingRequired(content, task'[r].basis) = {}
    BY <1>3 DEF Prepared, missingRequired
  <2> QED
    BY DEF Inv, Prepared, Over, Statuses
<1>5. RecommendationFitsFacts' /\ SaveNeverRefused' /\ NothingSkipped' /\ AskedLeavesFact'
  BY <1>3 DEF Inv, RecommendationFitsFacts, SaveNeverRefused, NothingSkipped, AskedLeavesFact, missingRequired, Producers
<1>6. ReconstructionAgrees'
  BY <1>3 DEF Inv, ReconstructionAgrees
<1> QED
  BY <1>1, <1>2, <1>4, <1>5, <1>6 DEF Inv

-------------------------------------------------------------------------------
(* Every step keeps it *)

\* Each entry of the trail changes the fields it is about, and keeps the type.
LEMMA TrailTypes ==
  ASSUME NEW t \in Trails
  PROVE  /\ \A p \in Personas \cup {Nothing} :
              /\ TrailStarted(t, p) \in Trails /\ TrailStarted(t, p).persona = p
              /\ TrailPersonaSet(t, p) \in Trails /\ TrailPersonaSet(t, p).persona = p
         /\ \A s \in Scenarios : TrailScenario(t, s) \in Trails /\ TrailScenario(t, s).scenario = s
         /\ TrailReduced(t) \in Trails /\ TrailReduced(t).full = FALSE
         /\ \A z \in BOOLEAN : TrailScored(t, z) \in Trails /\ TrailScored(t, z).zero = z
         /\ TrailRecommended(t) \in Trails
         /\ \A d \in {"accept", "override", "escalate"} :
              TrailDecided(t, d) \in Trails /\ TrailDecided(t, d).decision = d
<1> USE DEF Trails, Statuses
<1>1. \A p \in Personas \cup {Nothing} :
         /\ TrailStarted(t, p) \in Trails /\ TrailStarted(t, p).persona = p
         /\ TrailPersonaSet(t, p) \in Trails /\ TrailPersonaSet(t, p).persona = p
  BY DEF TrailStarted, TrailPersonaSet
<1>2. \A s \in Scenarios : TrailScenario(t, s) \in Trails /\ TrailScenario(t, s).scenario = s
  BY DEF TrailScenario
<1>3. TrailReduced(t) \in Trails /\ TrailReduced(t).full = FALSE
  BY DEF TrailReduced
<1>4. \A z \in BOOLEAN : TrailScored(t, z) \in Trails /\ TrailScored(t, z).zero = z
  BY DEF TrailScored
<1>5. TrailRecommended(t) \in Trails
  BY DEF TrailRecommended
<1>6. \A d \in {"accept", "override", "escalate"} :
         TrailDecided(t, d) \in Trails /\ TrailDecided(t, d).decision = d
  BY DEF TrailDecided
<1> QED
  BY <1>1, <1>2, <1>3, <1>4, <1>5, <1>6

\* And the fields it is not about stay.
LEMMA TrailKeeps ==
  ASSUME NEW t \in Trails, NEW x
  PROVE  /\ LET u == TrailStarted(t, x) IN
               u.scenario = t.scenario /\ u.zero = t.zero /\ u.decision = t.decision
               /\ u.facts = t.facts /\ u.full = t.full
         /\ LET u == TrailPersonaSet(t, x) IN
               u.scenario = t.scenario /\ u.zero = t.zero /\ u.decision = t.decision
               /\ u.facts = t.facts /\ u.full = t.full
         /\ LET u == TrailScenario(t, x) IN
               u.persona = t.persona /\ u.zero = t.zero /\ u.decision = t.decision
               /\ u.facts = t.facts /\ u.full = t.full
         /\ LET u == TrailReduced(t) IN
               u.persona = t.persona /\ u.scenario = t.scenario /\ u.zero = t.zero
               /\ u.decision = t.decision
         /\ LET u == TrailScored(t, x) IN
               u.persona = t.persona /\ u.scenario = t.scenario /\ u.decision = t.decision
               /\ u.facts = t.facts /\ u.full = t.full
         /\ LET u == TrailRecommended(t) IN
               u.persona = t.persona /\ u.scenario = t.scenario /\ u.zero = t.zero
               /\ u.decision = t.decision /\ u.facts = t.facts /\ u.full = t.full
         /\ LET u == TrailDecided(t, x) IN
               u.persona = t.persona /\ u.scenario = t.scenario /\ u.zero = t.zero
               /\ u.facts = t.facts /\ u.full = t.full
BY DEF Trails, TrailStarted, TrailPersonaSet, TrailScenario, TrailReduced, TrailScored,
       TrailRecommended, TrailDecided

\* What holds of the flow after advance, given that no question without a gate was lost before.
LEMMA Advanced ==
  ASSUME NEW c \in Contents, NEW q \in Seq(Questions), NEW a \in [Questions -> {0, 1}],
         NEW ph \in {"persona", "describe", "questions"},
         NEW step, step = advance(c, q, a, ValuesOf(facts'), ph),
         \A i \in DOMAIN c.flow : c.gate[c.flow[i]] = Nothing =>
           a[c.flow[i]] > 0 \/ \E j \in DOMAIN q : q[j] = c.flow[i],
         content' = c, queue' = step.queue, asked' = step.asked, current' = step.current,
         phase' = step.phase, status' = step.status
  PROVE  /\ queue' \in Seq(Questions)
         /\ asked' \in [Questions -> {0, 1}] /\ \A k \in Questions : asked'[k] \in {a[k], 0}
         /\ current' \in Questions \cup {Nothing}
         /\ current' # Nothing => current' \in c.questions /\ asked'[current'] = 0
         /\ phase' \in {ph, "questions", "done"} /\ status' \in {"in_progress", "intake_complete"}
         /\ (phase' = "done") = (status' = "intake_complete")
         /\ phase' = "done" => current' = Nothing
         /\ Waiting' /\ NothingSkipped'
<1>1. a \in [Questions -> Nat]
  OBVIOUS
<1>2. /\ step.queue \in Seq(Questions)
      /\ step.asked \in [Questions -> Nat]
      /\ \A k \in Questions : step.asked[k] \in {a[k], 0}
      /\ \/ /\ step.status = "in_progress" /\ step.phase \in {ph, "questions"}
            /\ step.current \in c.questions /\ step.asked[step.current] = 0
         \/ /\ step.status = "intake_complete" /\ step.phase = "done"
            /\ step.current = Nothing /\ step.asked = a /\ step.queue = <<>>
  BY <1>1, AdvanceType
<1>3. c.questions \in SUBSET Questions /\ c # Nothing
  BY ContentType, AssessmentOK
<1>4. asked' \in [Questions -> {0, 1}]
  BY <1>2
<1>5. Waiting'
  <2> SUFFICES ASSUME NEW i \in DOMAIN c.flow, c.gate[c.flow[i]] = Nothing
               PROVE  \/ step.asked[c.flow[i]] > 0
                      \/ step.current = c.flow[i]
                      \/ \E j \in DOMAIN step.queue : step.queue[j] = c.flow[i]
    BY DEF Waiting
  <2>1. c.flow[i] \in c.questions
    BY ContentType
  <2> QED
    BY SMTT(30), <1>1, <2>1, AdvanceKeeps
<1>6. NothingSkipped'
  <2> SUFFICES ASSUME status' \in Over
               PROVE  /\ \A i \in DOMAIN c.flow : c.gate[c.flow[i]] = Nothing => asked'[c.flow[i]] > 0
                      /\ \A i \in missingRequired(c, ValuesOf(facts')) : Producers(c, c.required[i]) = {}
    BY DEF NothingSkipped, ValuesOf
  <2>1. step.status = "intake_complete"
    BY <1>2 DEF Over, Statuses
  <2>2. current' = Nothing /\ queue' = <<>>
    BY <1>2, <2>1
  <2>3. \A i \in DOMAIN c.flow : c.flow[i] # Nothing
    BY ContentType, BranchingOK
  <2>4. \A i \in DOMAIN c.flow : c.gate[c.flow[i]] = Nothing => asked'[c.flow[i]] > 0
    BY <1>3, <1>5, <2>2, <2>3 DEF Waiting
  <2>5. \A i \in missingRequired(c, ValuesOf(facts')) : Producers(c, c.required[i]) = {}
    BY <1>1, <2>1, AdvanceEnds
  <2> QED
    BY <2>4, <2>5
<1> QED
  BY <1>2, <1>3, <1>4, <1>5, <1>6

\* What no step before the end of the intake disturbs: there is no result to fit, no submit
\* under way, and what reconstruct knows of the score and the decision stays.
LEMMA IntakeStep ==
  ASSUME Inv, phase # "done", phase' \in {"persona", "describe", "questions", "done"},
         status' \in {"in_progress", "intake_complete"},
         result' = result, task' \in [Requests -> Tasks],
         \A r \in Requests : task'[r] \in {Idle, task[r]}
  PROVE  /\ status \in {"none", "in_progress"} /\ result = Nothing
         /\ Prepared' /\ RecommendationFitsFacts' /\ SaveNeverRefused'
<1>1. status \in {"none", "in_progress"}
  BY DEF Inv, TypeOK, Over
<1>2. result = Nothing
  BY <1>1 DEF Inv, SaveNeverRefused, Over
<1>3. \A r \in Requests : task'[r].kind # "submit"
  BY <1>1 DEF Inv, Prepared, Over, Idle
<1> QED
  BY <1>1, <1>2, <1>3 DEF Prepared, RecommendationFitsFacts, SaveNeverRefused, Over

\* A scenario is selected and pinned.
LEMMA SelectStep ==
  ASSUME Inv, Early, NEW p \in Personas, NEW t \in Trails, selectScenarioAndBegin(p, t),
         persona' = p, source' = "user", t.persona = p, t.zero = trail.zero,
         t.decision = trail.decision, t.facts = trail.facts, t.full = trail.full,
         UNCHANGED <<clarifying, facts, result, decision>>,
         task' \in [Requests -> Tasks], \A r \in Requests : task'[r] \in {Idle, task[r]}
  PROVE  Inv'
<1>1. PICK c \in {x \in Contents : x.persona = p} :
        LET step == advance(c, c.flow, asked, ValuesOf(facts), phase)
        IN  /\ content' = c /\ opening' = TRUE /\ queue' = step.queue /\ asked' = step.asked
            /\ current' = step.current /\ phase' = step.phase /\ status' = step.status
            /\ trail' = TrailScenario(t, c.scenario)
  BY DEF selectScenarioAndBegin
<1>2. asked \in [Questions -> {0, 1}] /\ \A k \in Questions : asked[k] = 0
  BY DEF Inv, TypeOK, Fresh
<1>3. phase \in {"persona", "describe"} /\ c \in Contents /\ c # Nothing
  BY AssessmentOK DEF Inv, TypeOK, Early
<1>4. c.flow \in Seq(Questions) /\ c.scenario \in Scenarios
  BY <1>3, ContentType
<1>5. ValuesOf(facts') = ValuesOf(facts)
  OBVIOUS
<1>6. /\ queue' \in Seq(Questions)
      /\ asked' \in [Questions -> {0, 1}] /\ \A k \in Questions : asked'[k] \in {asked[k], 0}
      /\ current' \in Questions \cup {Nothing}
      /\ current' # Nothing => current' \in c.questions /\ asked'[current'] = 0
      /\ phase' \in {phase, "questions", "done"} /\ status' \in {"in_progress", "intake_complete"}
      /\ (phase' = "done") = (status' = "intake_complete")
      /\ phase' = "done" => current' = Nothing
      /\ Waiting' /\ NothingSkipped'
  BY <1>1, <1>2, <1>3, <1>4, <1>5, Advanced
<1>7. phase' \in {"persona", "describe", "questions", "done"}
  BY <1>3, <1>6
<1>8. result = Nothing /\ Prepared' /\ RecommendationFitsFacts' /\ SaveNeverRefused'
  BY <1>3, <1>6, <1>7, IntakeStep
<1>9. trail' \in Trails /\ trail'.persona = p /\ trail'.scenario = c.scenario
      /\ trail'.zero = trail.zero /\ trail'.decision = trail.decision
      /\ trail'.facts = trail.facts /\ trail'.full = trail.full
  <2>1. trail' = TrailScenario(t, c.scenario)
    BY <1>1
  <2>2. TrailScenario(t, c.scenario) \in Trails /\ TrailScenario(t, c.scenario).scenario = c.scenario
    BY <1>4, TrailTypes
  <2> DEFINE u == TrailScenario(t, c.scenario)
  <2>3. /\ u.persona = t.persona /\ u.zero = t.zero /\ u.decision = t.decision
        /\ u.facts = t.facts /\ u.full = t.full
    BY TrailKeeps
  <2> HIDE DEF u
  <2> QED
    BY <2>1, <2>2, <2>3 DEF u
<1>10. TypeOK'
  <2>1. status' \in Statuses /\ (phase' = "done") = (status' \in Over)
    BY <1>6 DEF Statuses, Over
  <2>2. asked' \in [Questions -> Nat] /\ content' \in Contents \cup {Nothing}
    BY <1>1, <1>6
  <2>3. opening' \in BOOLEAN /\ clarifying' \in BOOLEAN
    BY <1>1 DEF Inv, TypeOK
  <2>4. facts' \in [FactKeys -> Recorded \cup {Nothing}] /\ result' \in Results \cup {Nothing}
        /\ decision' \in {"accept", "override", "escalate", Nothing}
    BY DEF Inv, TypeOK
  <2> QED
    BY <1>6, <1>7, <1>9, <2>1, <2>2, <2>3, <2>4 DEF TypeOK
<1>11. Fresh'
  BY <1>1, <1>2, <1>6 DEF Inv, Fresh, Early
<1>12. Chosen' /\ ScenarioFitsChosenPersona'
  BY <1>1, <1>3 DEF Chosen, ScenarioFitsChosenPersona
<1>13. AskedLeavesFact'
  BY <1>1, <1>2, <1>6 DEF AskedLeavesFact
<1>14. ReconstructionAgrees'
  BY <1>1, <1>3, <1>5, <1>8, <1>9 DEF Inv, ReconstructionAgrees
<1> QED
  BY <1>6, <1>8, <1>10, <1>11, <1>12, <1>13, <1>14 DEF Inv

\* The requestor is asked for a description.
LEMMA DescribeStep ==
  ASSUME Inv, Early, content = Nothing, NEW p \in Personas, NEW t \in Trails, AskToDescribe(t),
         persona' = p, source' = "user", t.persona = p, t.scenario = trail.scenario,
         t.zero = trail.zero, t.decision = trail.decision, t.facts = trail.facts, t.full = trail.full,
         UNCHANGED <<clarifying, facts, result, decision>>,
         task' \in [Requests -> Tasks], \A r \in Requests : task'[r] \in {Idle, task[r]}
  PROVE  Inv'
<1>1. /\ phase' = "describe" /\ status' = "in_progress" /\ trail' = t
      /\ UNCHANGED <<opening, content, queue, asked, current>>
  BY DEF AskToDescribe
<1>2. result = Nothing /\ Prepared' /\ RecommendationFitsFacts' /\ SaveNeverRefused'
  BY <1>1, IntakeStep DEF Early
<1>3. TypeOK'
  <2>1. status' \in Statuses /\ (phase' = "done") = (status' \in Over)
    BY <1>1 DEF Statuses, Over
  <2> QED
    BY <1>1, <2>1 DEF Inv, TypeOK
<1>4. Fresh' /\ Chosen' /\ Waiting' /\ ScenarioFitsChosenPersona'
  BY <1>1 DEF Inv, Fresh, Early, Chosen, Waiting, ScenarioFitsChosenPersona
<1>5. AskedLeavesFact'
  BY <1>1 DEF Inv, Fresh, AskedLeavesFact
<1>6. NothingSkipped'
  BY <1>1 DEF NothingSkipped, Over
<1>7. ReconstructionAgrees'
  <2>1. ValuesOf(facts)' = ValuesOf(facts)
    BY DEF ValuesOf
  <2> QED
    BY <1>1, <2>1 DEF Inv, ReconstructionAgrees
<1> QED
  BY <1>2, <1>3, <1>4, <1>5, <1>6, <1>7 DEF Inv

\* The trail after a persona was chosen.
LEMMA TrailChosen ==
  ASSUME NEW t \in Trails, NEW p \in Personas \cup {Nothing},
         NEW u \in {TrailStarted(t, p), TrailPersonaSet(t, p)}
  PROVE  /\ u \in Trails /\ u.persona = p /\ u.scenario = t.scenario /\ u.zero = t.zero
         /\ u.decision = t.decision /\ u.facts = t.facts /\ u.full = t.full
<1>1. CASE u = TrailStarted(t, p)
  <2>1. u \in Trails /\ u.persona = p
    BY <1>1, TrailTypes
  <2> QED
    BY <1>1, <2>1 DEF TrailStarted, Trails
<1>2. CASE u = TrailPersonaSet(t, p)
  <2>1. u \in Trails /\ u.persona = p
    BY <1>2, TrailTypes
  <2> QED
    BY <1>2, <2>1 DEF TrailPersonaSet, Trails
<1> QED
  BY <1>1, <1>2

\* start with a chosen persona.
LEMMA StartAsStep ==
  ASSUME Inv, NEW p \in Personas, StartAs(p)
  PROVE  Inv'
<1> DEFINE t == TrailStarted(trail, p)
<1>1. Early /\ content = Nothing /\ trail \in Trails /\ task \in [Requests -> Tasks]
  BY DEF Inv, Fresh, Early, StartAs, TypeOK
<1>2. /\ t \in Trails /\ t.persona = p /\ t.scenario = trail.scenario /\ t.zero = trail.zero
      /\ t.decision = trail.decision /\ t.facts = trail.facts /\ t.full = trail.full
  BY <1>1, TrailChosen
<1>3. /\ persona' = p /\ source' = "user"
      /\ UNCHANGED <<clarifying, facts, result, decision, task>>
      /\ AskToDescribe(t) \/ selectScenarioAndBegin(p, t)
  BY DEF StartAs
<1> HIDE DEF t
<1>4. CASE AskToDescribe(t)
  BY <1>1, <1>2, <1>3, <1>4, DescribeStep
<1>5. CASE selectScenarioAndBegin(p, t)
  BY <1>1, <1>2, <1>3, <1>5, SelectStep
<1> QED
  BY <1>3, <1>4, <1>5

\* start without one: the requestor has not chosen, and nothing is pinned.
LEMMA StartInferredStep ==
  ASSUME Inv, StartInferred
  PROVE  Inv'
<1>1. /\ status = "none" /\ status' = "in_progress" /\ phase' = "persona" /\ opening' = TRUE
      /\ persona' \in Personas \cup {Nothing} /\ source' \in {"user", "ai", Nothing}
      /\ trail' = TrailStarted(trail, persona')
      /\ UNCHANGED <<content, queue, asked, current, clarifying, facts, result, decision, task>>
  BY DEF StartInferred, Inv, TypeOK
<1>2. phase = "persona" /\ content = Nothing /\ task \in [Requests -> Tasks] /\ trail \in Trails
  BY <1>1 DEF Inv, Fresh, TypeOK
<1>3. result = Nothing /\ Prepared' /\ RecommendationFitsFacts' /\ SaveNeverRefused'
  BY <1>1, <1>2, IntakeStep
<1>4. /\ trail' \in Trails /\ trail'.persona = persona' /\ trail'.scenario = trail.scenario
      /\ trail'.zero = trail.zero /\ trail'.decision = trail.decision
      /\ trail'.facts = trail.facts /\ trail'.full = trail.full
  BY <1>1, <1>2, TrailChosen
<1>5. TypeOK'
  <2>1. status' \in Statuses /\ (phase' = "done") = (status' \in Over)
    BY <1>1 DEF Statuses, Over
  <2> QED
    BY <1>1, <1>4, <2>1 DEF Inv, TypeOK
<1>6. Fresh' /\ Chosen' /\ Waiting' /\ ScenarioFitsChosenPersona'
  BY <1>1, <1>2 DEF Inv, Fresh, Early, Chosen, Waiting, ScenarioFitsChosenPersona
<1>7. AskedLeavesFact'
  BY <1>1, <1>2 DEF Inv, Fresh, Early, AskedLeavesFact
<1>8. NothingSkipped'
  BY <1>1 DEF NothingSkipped, Over
<1>9. ReconstructionAgrees'
  <2>1. ValuesOf(facts)' = ValuesOf(facts)
    BY <1>1 DEF ValuesOf
  <2> QED
    BY <1>1, <1>2, <1>4, <2>1 DEF Inv, ReconstructionAgrees
<1> QED
  BY <1>3, <1>5, <1>6, <1>7, <1>8, <1>9 DEF Inv

\* The transaction of setPersona.
LEMMA SetPersonaStep ==
  ASSUME Inv, NEW r \in Requests, SetPersona(r)
  PROVE  Inv'
<1> DEFINE p == task[r].persona
           t == TrailPersonaSet(trail, p)
<1>1. /\ task[r].kind = "persona" /\ Early
      /\ persona' = p /\ source' = "user"
      /\ IF ~opening THEN AskToDescribe(t) ELSE selectScenarioAndBegin(p, t)
      /\ task' = [task EXCEPT ![r] = Idle]
      /\ UNCHANGED <<clarifying, facts, result, decision>>
  BY DEF SetPersona, Early
<1>2. task \in [Requests -> Tasks] /\ trail \in Trails
  BY DEF Inv, TypeOK
<1>3. task[r] \in Tasks /\ p \in Personas
  BY <1>1, <1>2 DEF Tasks, Idle
<1>4. task' \in [Requests -> Tasks] /\ \A q \in Requests : task'[q] \in {Idle, task[q]}
  BY <1>1, <1>2 DEF Tasks
<1>5. /\ t \in Trails /\ t.persona = p /\ t.scenario = trail.scenario /\ t.zero = trail.zero
      /\ t.decision = trail.decision /\ t.facts = trail.facts /\ t.full = trail.full
  BY <1>2, <1>3, TrailChosen
<1>6. ~opening => content = Nothing
  BY DEF Inv, Fresh
<1> HIDE DEF p, t
<1>7. CASE ~opening
  BY <1>1, <1>3, <1>4, <1>5, <1>6, <1>7, DescribeStep
<1>8. CASE opening
  BY <1>1, <1>3, <1>4, <1>5, <1>8, SelectStep
<1> QED
  BY <1>7, <1>8

\* The transaction of a description: the persona is still the one it was prepared for.
LEMMA DescribeAnswerStep ==
  ASSUME Inv, NEW r \in Requests, Describe(r)
  PROVE  Inv'
<1>1. /\ task[r].kind = "describe" /\ phase = "describe" /\ persona = task[r].persona
      /\ selectScenarioAndBegin(persona, trail)
      /\ task' = [task EXCEPT ![r] = Idle]
      /\ UNCHANGED <<persona, source, clarifying, facts, result, decision>>
  BY DEF Describe
<1>2. /\ task \in [Requests -> Tasks] /\ trail \in Trails /\ Early /\ source = "user"
      /\ trail.persona = persona
  BY <1>1 DEF Inv, TypeOK, Early, Chosen, ReconstructionAgrees
<1>3. task[r] \in Tasks /\ persona \in Personas
  BY <1>1, <1>2 DEF Tasks, Idle
<1>4. task' \in [Requests -> Tasks] /\ \A q \in Requests : task'[q] \in {Idle, task[q]}
  BY <1>1, <1>2 DEF Tasks
<1> QED
  BY <1>1, <1>2, <1>3, <1>4, SelectStep

\* What an answer does to the facts: it records facts of its own question only, and keeps
\* every fact it does not replace.
Answered(fs, q) ==
  /\ fs \in [FactKeys -> Recorded \cup {Nothing}]
  /\ \A k \in FactKeys : fs[k] = facts[k] \/ (fs[k] \in Recorded /\ fs[k].by = q)

\* setFact keeps the type of the facts.
LEMMA WithType ==
  ASSUME NEW fs \in [FactKeys -> Recorded \cup {Nothing}], NEW k \in FactKeys, NEW v \in Values,
         NEW src \in {"mcq", "ai"}, NEW q \in Questions
  PROVE  /\ With(fs, k, v, src, q) \in [FactKeys -> Recorded \cup {Nothing}]
         /\ With(fs, k, v, src, q)[k] \in Recorded /\ With(fs, k, v, src, q)[k].by = q
         /\ With(fs, k, v, src, q)[k].source = src
         /\ \A m \in FactKeys \ {k} : With(fs, k, v, src, q)[m] = fs[m]
BY DEF With, Recorded

\* Side facts fill gaps.
LEMMA SideFacts ==
  ASSUME Inv, content \in Contents, NEW q \in Questions, NEW fs \in WithSideFacts(facts, q)
  PROVE  /\ Answered(fs, q)
         /\ \A k \in FactKeys : facts[k] # Nothing => fs[k] = facts[k]
<1>1. facts \in [FactKeys -> Recorded \cup {Nothing}]
  BY DEF Inv, TypeOK
<1>2. CASE fs = facts
  BY <1>1, <1>2 DEF Answered
<1>3. CASE fs # facts
  <2>1. PICK k \in content.questions, v \in Values :
          fs = With(facts, content.fact[k], v, "ai", q) /\ facts[content.fact[k]] = Nothing
    BY <1>3 DEF WithSideFacts
  <2>2. content.fact[k] \in FactKeys
    BY ContentType
  <2>3. /\ fs \in [FactKeys -> Recorded \cup {Nothing}]
        /\ fs[content.fact[k]] \in Recorded /\ fs[content.fact[k]].by = q
        /\ \A m \in FactKeys \ {content.fact[k]} : fs[m] = facts[m]
    BY <1>1, <2>1, <2>2, WithType
  <2> QED
    BY <2>1, <2>2, <2>3 DEF Answered
<1> QED
  BY <1>2, <1>3

\* The audit entry of an answer takes the trail from the old facts to the new ones.
LEMMA LoggedStep ==
  ASSUME Inv, NEW q, NEW fs, Answered(fs, q), Log(fs, q)
  PROVE  /\ trail' \in Trails /\ trail'.persona = trail.persona /\ trail'.scenario = trail.scenario
         /\ trail'.zero = trail.zero /\ trail'.decision = trail.decision
         /\ trail'.full => trail'.facts = ValuesOf(fs)
<1> DEFINE t == TrailAnswered(trail, LoggedFacts(fs, q))
<1>1. trail \in Trails /\ facts \in [FactKeys -> Recorded \cup {Nothing}]
  BY DEF Inv, TypeOK
<1>2. trail.full => trail.facts = ValuesOf(facts)
  BY DEF Inv, ReconstructionAgrees
<1>3. CASE trail' = TrailReduced(trail)
  <2>1. trail' \in Trails /\ trail'.full = FALSE
    BY <1>1, <1>3, TrailTypes
  <2> QED
    BY <1>1, <1>3, <2>1 DEF TrailReduced, Trails
<1>4. CASE trail' = t
  <2> DEFINE log == LoggedFacts(fs, q)
             new == [k \in FactKeys |-> IF k \in DOMAIN log THEN log[k] ELSE trail.facts[k]]
  <2>1. DOMAIN log = {f \in FactKeys : fs[f] # Nothing /\ fs[f].by = q}
        /\ \A k \in DOMAIN log : log[k] = fs[k].value
    BY DEF LoggedFacts
  <2>2. trail.facts \in [FactKeys -> Values \cup {Nothing}]
    BY <1>1 DEF Trails
  <2>3. \A k \in DOMAIN log : log[k] \in Values
    BY <2>1 DEF Answered, Recorded
  <2>4. new \in [FactKeys -> Values \cup {Nothing}]
    <3> HIDE DEF log
    <3> QED
      BY <2>2, <2>3
  <2>5. trail.full => new = ValuesOf(fs)
    <3> SUFFICES ASSUME trail.full, NEW k \in FactKeys
                 PROVE  new[k] = IF fs[k] = Nothing THEN Nothing ELSE fs[k].value
      BY <2>4 DEF ValuesOf
    <3>1. trail.facts[k] = IF facts[k] = Nothing THEN Nothing ELSE facts[k].value
      BY <1>2 DEF ValuesOf
    <3>2. CASE k \in DOMAIN log
      BY <2>1, <3>2
    <3>3. CASE k \notin DOMAIN log
      <4>1. fs[k] = Nothing \/ fs[k].by # q
        BY <2>1, <3>3
      <4>2. fs[k] = facts[k]
        BY <4>1, AssessmentOK DEF Answered
      <4> QED
        BY <3>1, <3>3, <4>2
    <3> QED
      BY <3>2, <3>3
  <2>6. t = [trail EXCEPT !.facts = new]
    BY DEF TrailAnswered
  <2> HIDE DEF new, t
  <2> QED
    BY <1>1, <1>4, <2>4, <2>5, <2>6 DEF Trails
<1> QED
  BY <1>3, <1>4 DEF Log

\* The question an answer was prepared for is still the pending one.
LEMMA PendingQuestion ==
  ASSUME Inv, NEW r \in Requests, StillPending(r)
  PROVE  /\ task[r].key = current /\ current \in content.questions /\ current \in Questions
         /\ asked[current] = 0 /\ content \in Contents
         /\ content.fact[current] \in FactKeys
         /\ phase = "questions" /\ status = "in_progress" /\ task[r] \in Tasks
         /\ [task EXCEPT ![r] = Idle] \in [Requests -> Tasks]
         /\ \A x \in Requests : [task EXCEPT ![r] = Idle][x] \in {Idle, task[x]}
<1>1. /\ task[r].kind = "answer" /\ current = task[r].key
      /\ phase = "questions" /\ status = "in_progress"
  BY DEF StillPending
<1>2. task \in [Requests -> Tasks] /\ content \in Contents
  BY <1>1 DEF Inv, TypeOK, Chosen, Early
<1>3. task[r] \in Tasks /\ task[r].key \in Questions
  BY <1>1, <1>2 DEF Tasks, Idle
<1>4. current # Nothing
  BY <1>1, <1>3, BranchingOK
<1>5. current \in content.questions /\ asked[current] = 0
  BY <1>4 DEF Inv, AskedLeavesFact
<1>6. content.fact[current] \in FactKeys
  BY <1>1, <1>2, <1>3, ContentType
<1> QED
  BY <1>1, <1>2, <1>3, <1>5, <1>6 DEF Tasks

\* The answered question is recorded and the flow advances.
LEMMA SettleStep ==
  ASSUME Inv, NEW r \in Requests, StillPending(r), NEW v, NEW fs, Answered(fs, current),
         fs[content.fact[current]] # Nothing, Settle(r, fs, v)
  PROVE  Inv'
<1> DEFINE q    == current
           now  == [asked EXCEPT ![q] = @ + 1]
           b    == applyBranch(content, q, v, queue, now)
           step == advance(content, b, now, ValuesOf(fs), phase)
<1>1. /\ task[r].key = q /\ q \in content.questions /\ q \in Questions /\ asked[q] = 0
      /\ content \in Contents /\ phase = "questions" /\ status = "in_progress"
      /\ [task EXCEPT ![r] = Idle] \in [Requests -> Tasks]
      /\ \A x \in Requests : [task EXCEPT ![r] = Idle][x] \in {Idle, task[x]}
  BY PendingQuestion
<1>2. /\ facts' = fs /\ clarifying' = FALSE
      /\ queue' = step.queue /\ asked' = step.asked /\ current' = step.current
      /\ phase' = step.phase /\ status' = step.status
      /\ Log(fs, q)
      /\ task' = [task EXCEPT ![r] = Idle]
      /\ UNCHANGED <<persona, source, opening, content, result, decision>>
  BY <1>1 DEF Settle
<1>3. /\ asked \in [Questions -> {0, 1}] /\ queue \in Seq(Questions)
      /\ \A k \in Questions : asked[k] = 1 => facts[content.fact[k]] # Nothing
  BY DEF Inv, TypeOK, AskedLeavesFact
<1>4. now \in [Questions -> {0, 1}] /\ now[q] = 1 /\ \A k \in Questions \ {q} : now[k] = asked[k]
  BY <1>1, <1>3
<1>5. b \in Seq(Questions) /\ \A j \in DOMAIN queue : \E n \in DOMAIN b : b[n] = queue[j]
  <2>1. b = applyBranch(content, q, v, queue, now)
    OBVIOUS
  <2> HIDE DEF now, b
  <2> QED
    BY <1>1, <1>3, <2>1, BranchKeeps
<1>6. \A i \in DOMAIN content.flow : content.gate[content.flow[i]] = Nothing =>
        now[content.flow[i]] > 0 \/ \E j \in DOMAIN b : b[j] = content.flow[i]
  <2> SUFFICES ASSUME NEW i \in DOMAIN content.flow, content.gate[content.flow[i]] = Nothing
               PROVE  now[content.flow[i]] > 0 \/ \E j \in DOMAIN b : b[j] = content.flow[i]
    OBVIOUS
  <2> HIDE DEF now, b
  <2>1. content.flow[i] \in Questions
    BY <1>1, ContentType
  <2>2. \/ asked[content.flow[i]] > 0
        \/ q = content.flow[i]
        \/ \E j \in DOMAIN queue : queue[j] = content.flow[i]
    BY <1>1, AssessmentOK DEF Inv, Waiting
  <2> QED
    BY <1>3, <1>4, <1>5, <2>1, <2>2
<1> HIDE DEF now, b
<1>7. /\ queue' \in Seq(Questions)
      /\ asked' \in [Questions -> {0, 1}] /\ \A k \in Questions : asked'[k] \in {now[k], 0}
      /\ current' \in Questions \cup {Nothing}
      /\ current' # Nothing => current' \in content.questions /\ asked'[current'] = 0
      /\ phase' \in {"questions", "done"} /\ status' \in {"in_progress", "intake_complete"}
      /\ (phase' = "done") = (status' = "intake_complete")
      /\ phase' = "done" => current' = Nothing
      /\ Waiting' /\ NothingSkipped'
  <2>1. step = advance(content, b, now, ValuesOf(facts'), "questions")
    BY <1>1, <1>2
  <2>2. "questions" \in {"persona", "describe", "questions"} /\ content' = content
    BY <1>2
  <2> HIDE DEF step
  <2>3. /\ queue' \in Seq(Questions)
        /\ asked' \in [Questions -> {0, 1}] /\ \A k \in Questions : asked'[k] \in {now[k], 0}
        /\ current' \in Questions \cup {Nothing}
        /\ current' # Nothing => current' \in content.questions /\ asked'[current'] = 0
        /\ phase' \in {"questions", "questions", "done"}
        /\ status' \in {"in_progress", "intake_complete"}
        /\ (phase' = "done") = (status' = "intake_complete")
        /\ phase' = "done" => current' = Nothing
        /\ Waiting' /\ NothingSkipped'
    BY <1>1, <1>2, <1>4, <1>5, <1>6, <2>1, <2>2, Advanced
  <2> QED
    BY <2>3
<1> HIDE DEF step
<1>8. result = Nothing /\ Prepared' /\ RecommendationFitsFacts' /\ SaveNeverRefused'
  BY <1>1, <1>2, <1>7, IntakeStep
<1>9. /\ trail' \in Trails /\ trail'.persona = trail.persona /\ trail'.scenario = trail.scenario
      /\ trail'.zero = trail.zero /\ trail'.decision = trail.decision
      /\ trail'.full => trail'.facts = ValuesOf(fs)
  BY <1>2, LoggedStep
<1>10. TypeOK'
  <2>1. status' \in Statuses /\ (phase' = "done") = (status' \in Over)
    BY <1>7 DEF Statuses, Over
  <2>2. asked' \in [Questions -> Nat]
    BY <1>7
  <2>5. clarifying' \in BOOLEAN
    BY <1>2
  <2>3. facts' \in [FactKeys -> Recorded \cup {Nothing}]
    BY <1>2 DEF Answered
  <2>4. task' \in [Requests -> Tasks]
    BY <1>1, <1>2
  <2> QED
    BY <1>2, <1>7, <1>9, <2>1, <2>2, <2>3, <2>4, <2>5 DEF Inv, TypeOK
<1>11. Fresh' /\ Chosen' /\ ScenarioFitsChosenPersona'
  BY <1>1, <1>2, <1>7 DEF Inv, Fresh, Chosen, ScenarioFitsChosenPersona, Early
<1>12. AskedLeavesFact'
  <2>1. ASSUME NEW k \in Questions, asked'[k] = 1
        PROVE  fs[content.fact[k]] # Nothing
    <3>1. content.fact[k] \in FactKeys /\ now[k] = 1
      BY <1>1, <1>7, <2>1, ContentType
    <3>2. CASE k # q
      <4>1. facts[content.fact[k]] # Nothing
        BY <1>3, <1>4, <3>1, <3>2
      <4> QED
        BY <3>1, <4>1, AssessmentOK DEF Answered
    <3> QED
      BY <3>2
  <2> QED
    BY <1>2, <1>7, <2>1 DEF AskedLeavesFact
<1>13. ReconstructionAgrees'
  <2>1. ValuesOf(facts') = ValuesOf(fs) /\ ValuesOf(facts)' = ValuesOf(facts')
    BY <1>2 DEF ValuesOf
  <2> QED
    BY <1>2, <1>8, <1>9, <2>1 DEF Inv, ReconstructionAgrees
<1> QED
  BY <1>7, <1>8, <1>10, <1>11, <1>12, <1>13 DEF Inv

\* The facts an option or a text leaves.
LEMMA AnswerFacts ==
  ASSUME Inv, NEW q \in Questions, content \in Contents, content.fact[q] \in FactKeys,
         NEW fs, Answered(fs, q), NEW v \in Values, NEW src \in {"mcq", "ai"}
  PROVE  LET new == With(fs, content.fact[q], v, src, q)
         IN  Answered(new, q) /\ new[content.fact[q]] # Nothing
<1> DEFINE new == With(fs, content.fact[q], v, src, q)
<1>1. /\ new \in [FactKeys -> Recorded \cup {Nothing}]
      /\ new[content.fact[q]] \in Recorded /\ new[content.fact[q]].by = q
      /\ \A m \in FactKeys \ {content.fact[q]} : new[m] = fs[m]
  BY WithType DEF Answered
<1> HIDE DEF new
<1>2. Answered(new, q)
  BY <1>1 DEF Answered
<1>3. new[content.fact[q]] # Nothing
  BY <1>1, AssessmentOK
<1> QED
  BY <1>2, <1>3 DEF new

\* The facts as they are, are the facts after no answer.
LEMMA NoAnswer == ASSUME Inv, NEW q PROVE Answered(facts, q)
BY DEF Inv, TypeOK, Answered

\* An option was sent.
LEMMA AnswerStructuredStep ==
  ASSUME Inv, NEW r \in Requests, AnswerStructured(r)
  PROVE  Inv'
<1>1. StillPending(r)
  BY DEF AnswerStructured
<1>2. task[r].key = current /\ current \in Questions /\ content \in Contents
      /\ content.fact[current] \in FactKeys
  BY <1>1, PendingQuestion
<1>3. PICK v \in Values : Settle(r, With(facts, content.fact[current], v, "mcq", current), v)
  BY <1>2 DEF AnswerStructured
<1>4. LET new == With(facts, content.fact[current], v, "mcq", current)
      IN  Answered(new, current) /\ new[content.fact[current]] # Nothing
  BY <1>2, AnswerFacts, NoAnswer
<1> QED
  BY <1>1, <1>3, <1>4, SettleStep

\* A text was sent that settles the question.
LEMMA AnswerTextStep ==
  ASSUME Inv, NEW r \in Requests, AnswerText(r)
  PROVE  Inv'
<1>1. StillPending(r)
  BY DEF AnswerText
<1>2. task[r].key = current /\ current \in Questions /\ content \in Contents
      /\ content.fact[current] \in FactKeys
  BY <1>1, PendingQuestion
<1>3. PICK v \in Values, fs \in WithSideFacts(facts, current) :
        Settle(r, With(fs, content.fact[current], v, "ai", current), v)
  BY <1>2 DEF AnswerText
<1>4. Answered(fs, current)
  BY <1>2, SideFacts
<1>5. LET new == With(fs, content.fact[current], v, "ai", current)
      IN  Answered(new, current) /\ new[content.fact[current]] # Nothing
  BY <1>2, <1>4, AnswerFacts
<1> QED
  BY <1>1, <1>3, <1>5, SettleStep

\* A text was sent that does not: side facts are kept and clarification is asked for.
LEMMA ClarifyStep ==
  ASSUME Inv, NEW r \in Requests, Clarify(r)
  PROVE  Inv'
<1>1. StillPending(r)
  BY DEF Clarify
<1>2. /\ task[r].key = current /\ current \in content.questions /\ current \in Questions
      /\ content \in Contents /\ phase = "questions" /\ status = "in_progress"
      /\ [task EXCEPT ![r] = Idle] \in [Requests -> Tasks]
      /\ \A x \in Requests : [task EXCEPT ![r] = Idle][x] \in {Idle, task[x]}
  BY <1>1, PendingQuestion
<1>3. /\ clarifying' = TRUE /\ facts' \in WithSideFacts(facts, current) /\ Log(facts', current)
      /\ task' = [task EXCEPT ![r] = Idle]
      /\ UNCHANGED <<status, phase, persona, source, opening, content, queue, asked, current,
                     result, decision>>
  BY <1>2 DEF Clarify
<1>4. PICK fs \in WithSideFacts(facts, current) : facts' = fs
  BY <1>3
<1>5. Answered(fs, current) /\ \A k \in FactKeys : facts[k] # Nothing => fs[k] = facts[k]
  BY <1>2, SideFacts
<1>6. result = Nothing /\ Prepared' /\ RecommendationFitsFacts' /\ SaveNeverRefused'
  BY <1>2, <1>3, IntakeStep
<1>7. /\ trail' \in Trails /\ trail'.persona = trail.persona /\ trail'.scenario = trail.scenario
      /\ trail'.zero = trail.zero /\ trail'.decision = trail.decision
      /\ trail'.full => trail'.facts = ValuesOf(fs)
  BY <1>3, <1>4, <1>5, LoggedStep
<1>8. TypeOK'
  <2>1. clarifying' \in BOOLEAN /\ facts' \in [FactKeys -> Recorded \cup {Nothing}]
        /\ task' \in [Requests -> Tasks]
    BY <1>2, <1>3, <1>4, <1>5 DEF Answered
  <2> QED
    BY <1>3, <1>7, <2>1 DEF Inv, TypeOK
<1>9. Fresh' /\ Chosen' /\ Waiting' /\ ScenarioFitsChosenPersona'
  BY <1>2, <1>3 DEF Inv, Fresh, Chosen, Waiting, ScenarioFitsChosenPersona, Early
<1>10. AskedLeavesFact'
  <2>1. \A k \in Questions : content.fact[k] \in FactKeys
    BY <1>2, ContentType
  <2> QED
    BY <1>3, <1>4, <1>5, <2>1 DEF Inv, AskedLeavesFact
<1>11. NothingSkipped'
  BY <1>2, <1>3 DEF NothingSkipped, Over
<1>12. ReconstructionAgrees'
  <2>1. ValuesOf(facts)' = ValuesOf(fs)
    BY <1>4 DEF ValuesOf
  <2> QED
    BY <1>3, <1>6, <1>7, <2>1 DEF Inv, ReconstructionAgrees
<1> QED
  BY <1>6, <1>8, <1>9, <1>10, <1>11, <1>12 DEF Inv

\* The prepared recommendation is stored: the document still holds what it rests on.
LEMMA SubmitStep ==
  ASSUME Inv, NEW r \in Requests, Submit(r)
  PROVE  Inv'
<1>1. PICK zero \in BOOLEAN, ruled \in BOOLEAN :
        /\ task[r].kind = "submit" /\ status = "intake_complete"
        /\ result' = [basis |-> task[r].basis, zero |-> zero, ruled |-> ruled]
        /\ status' = IF zero /\ ~ruled THEN "error_review" ELSE "awaiting_decision"
        /\ trail'  = TrailRecommended(TrailScored(trail, zero))
        /\ task'   = [task EXCEPT ![r] = Idle]
        /\ UNCHANGED <<phase, persona, source, intake, decision>>
  BY DEF Submit, Recommend
<1>2. UNCHANGED <<opening, content, queue, asked, current, clarifying, facts>>
  BY <1>1 DEF intake
<1>3. task \in [Requests -> Tasks] /\ trail \in Trails
  BY DEF Inv, TypeOK
<1>4. task[r] \in Tasks /\ task[r].basis \in [FactKeys -> Values \cup {Nothing}]
  BY <1>1, <1>3 DEF Tasks, Idle
<1>5. task' \in [Requests -> Tasks] /\ \A x \in Requests : task'[x] \in {Idle, task[x]}
  BY <1>1, <1>3 DEF Tasks
<1>6. result' \in Results /\ result' # Nothing /\ result'.basis = task[r].basis /\ result'.zero = zero
  BY <1>1, <1>4, AssessmentOK DEF Results
<1>7. status' \in {"error_review", "awaiting_decision"}
  BY <1>1
<1>8. /\ trail' \in Trails /\ trail'.persona = trail.persona /\ trail'.scenario = trail.scenario
      /\ trail'.zero = zero /\ trail'.decision = trail.decision
      /\ trail'.facts = trail.facts /\ trail'.full = trail.full
  <2> DEFINE t == TrailScored(trail, zero)
  <2>1. t \in Trails /\ t.zero = zero
    BY <1>3, TrailTypes
  <2>2. /\ t.persona = trail.persona /\ t.scenario = trail.scenario /\ t.decision = trail.decision
        /\ t.facts = trail.facts /\ t.full = trail.full
    BY <1>3 DEF TrailScored, Trails
  <2>3. trail' = TrailRecommended(t)
    BY <1>1
  <2> HIDE DEF t
  <2>4. trail' \in Trails
    BY <2>1, <2>3, TrailTypes
  <2>5. /\ trail'.persona = t.persona /\ trail'.scenario = t.scenario /\ trail'.zero = t.zero
        /\ trail'.decision = t.decision /\ trail'.facts = t.facts /\ trail'.full = t.full
    BY <2>1, <2>3 DEF TrailRecommended, Trails
  <2> QED
    BY <2>1, <2>2, <2>4, <2>5
<1>9. TypeOK'
  <2>1. status' \in Statuses /\ status \in Over /\ status' \in Over
    BY <1>1, <1>7 DEF Statuses, Over
  <2>2. result' \in Results \cup {Nothing}
    BY <1>6
  <2> QED
    BY <1>1, <1>2, <1>5, <1>8, <2>1, <2>2 DEF Inv, TypeOK
<1>10. Fresh' /\ Chosen' /\ Waiting' /\ ScenarioFitsChosenPersona' /\ AskedLeavesFact'
  BY <1>1, <1>2, <1>7 DEF Inv, Fresh, Chosen, Waiting, ScenarioFitsChosenPersona, AskedLeavesFact, Early
<1>11. ValuesOf(facts)' = ValuesOf(facts)
       /\ missingRequired(content, result.basis)' = missingRequired(content, task[r].basis)
       /\ missingRequired(content, ValuesOf(facts))' = missingRequired(content, ValuesOf(facts))
  BY <1>2, <1>6 DEF ValuesOf, missingRequired
<1>12. Prepared'
  <2> SUFFICES ASSUME NEW x \in Requests, task'[x].kind = "submit"
               PROVE  /\ status' \in Over
                      /\ task'[x].basis = ValuesOf(facts)
                      /\ missingRequired(content, task'[x].basis) = {}
    BY <1>2, <1>11 DEF Prepared, missingRequired
  <2>1. task'[x] = task[x]
    BY <1>5 DEF Idle
  <2> QED
    BY <1>7, <2>1 DEF Inv, Prepared, Over, Statuses
<1>13. RecommendationFitsFacts'
  BY <1>1, <1>6, <1>11 DEF Inv, Prepared, RecommendationFitsFacts
<1>14. SaveNeverRefused'
  BY <1>6, <1>7 DEF SaveNeverRefused, Over, Statuses
<1>15. NothingSkipped'
  BY <1>1, <1>2, <1>11 DEF Inv, NothingSkipped, Over, Statuses, Producers
<1>16. ReconstructionAgrees'
  BY <1>1, <1>2, <1>6, <1>8, <1>11 DEF Inv, ReconstructionAgrees
<1> QED
  BY <1>9, <1>10, <1>12, <1>13, <1>14, <1>15, <1>16 DEF Inv

\* A decision.
LEMMA DecideStep ==
  ASSUME Inv, NEW d \in {"accept", "override", "escalate"}, Decide(d)
  PROVE  Inv'
<1>1. /\ status \in {"awaiting_decision", "escalated", "error_review"}
      /\ decision' = d
      /\ status' = IF d = "escalate" THEN "escalated" ELSE "closed"
      /\ trail'  = TrailDecided(trail, d)
      /\ UNCHANGED <<phase, persona, source, intake, result, task>>
  BY DEF Decide, Decidable
<1>2. UNCHANGED <<opening, content, queue, asked, current, clarifying, facts>>
  BY <1>1 DEF intake
<1>3. status' \in {"escalated", "closed"} /\ (status' = "closed" => d \in {"accept", "override"})
  BY <1>1
<1>4. trail \in Trails
  BY DEF Inv, TypeOK
<1>5. /\ trail' \in Trails /\ trail'.decision = d
      /\ trail'.persona = trail.persona /\ trail'.scenario = trail.scenario
      /\ trail'.zero = trail.zero /\ trail'.facts = trail.facts /\ trail'.full = trail.full
  <2>1. trail' \in Trails /\ trail'.decision = d
    BY <1>1, <1>4, TrailTypes
  <2> QED
    BY <1>1, <1>4, <2>1 DEF TrailDecided, Trails
<1>6. TypeOK'
  <2>1. status' \in Statuses /\ status \in Over /\ status' \in Over
    BY <1>1, <1>3 DEF Statuses, Over
  <2> QED
    BY <1>1, <1>2, <1>5, <2>1 DEF Inv, TypeOK
<1>7. Fresh' /\ Chosen' /\ Waiting' /\ ScenarioFitsChosenPersona' /\ AskedLeavesFact'
  BY <1>1, <1>2, <1>3 DEF Inv, Fresh, Chosen, Waiting, ScenarioFitsChosenPersona, AskedLeavesFact, Early
<1>8. ValuesOf(facts)' = ValuesOf(facts)
      /\ missingRequired(content, result.basis)' = missingRequired(content, result.basis)
      /\ missingRequired(content, ValuesOf(facts))' = missingRequired(content, ValuesOf(facts))
  BY <1>1, <1>2 DEF ValuesOf, missingRequired
<1>9. Prepared'
  BY <1>1, <1>2, <1>3, <1>8 DEF Inv, Prepared, Over, Statuses, missingRequired
<1>10. RecommendationFitsFacts' /\ SaveNeverRefused'
  BY <1>1, <1>3, <1>8 DEF Inv, RecommendationFitsFacts, SaveNeverRefused, Over, Statuses
<1>11. NothingSkipped'
  BY <1>1, <1>2, <1>8 DEF Inv, NothingSkipped, Over, Statuses, Producers
<1>12. ReconstructionAgrees'
  BY <1>1, <1>2, <1>5, <1>8 DEF Inv, ReconstructionAgrees
<1> QED
  BY <1>6, <1>7, <1>9, <1>10, <1>11, <1>12 DEF Inv

\* A request reads its snapshot, or ends without effect.
LEMMA PrepareStep ==
  ASSUME Inv, NEW r \in Requests,
         \/ PreparePersona(r) \/ PrepareDescribe(r) \/ PrepareAnswer(r) \/ PrepareSubmit(r)
         \/ GiveUp(r)
  PROVE  Inv'
<1>1. task \in [Requests -> Tasks] /\ facts \in [FactKeys -> Recorded \cup {Nothing}]
  BY DEF Inv, TypeOK
<1>2. UNCHANGED document
  BY DEF PreparePersona, PrepareDescribe, PrepareAnswer, PrepareSubmit, GiveUp
<1>3. ASSUME NEW new \in Tasks, task' = [task EXCEPT ![r] = new],
             new.kind = "submit" =>
               /\ status = "intake_complete" /\ new.basis = ValuesOf(facts)
               /\ missingRequired(content, ValuesOf(facts)) = {}
      PROVE  Inv'
  <2>1. task' \in [Requests -> Tasks]
    BY <1>1, <1>3
  <2>2. \A x \in Requests : task'[x].kind = "submit" =>
          \/ task'[x] = task[x]
          \/ /\ status = "intake_complete" /\ task'[x].basis = ValuesOf(facts)
             /\ missingRequired(content, ValuesOf(facts)) = {}
    BY <1>1, <1>3
  <2> QED
    BY <1>2, <2>1, <2>2, QuietStep
<1>4. CASE PreparePersona(r)
  <2>1. PICK p \in Personas :
          task' = [task EXCEPT ![r] = [kind |-> "persona", persona |-> p, prepared |-> opening]]
    BY <1>4 DEF PreparePersona
  <2>2. [kind |-> "persona", persona |-> p, prepared |-> opening] \in Tasks
    BY DEF Inv, TypeOK, Tasks
  <2> QED
    BY <1>3, <2>1, <2>2
<1>5. CASE PrepareDescribe(r)
  <2>1. task' = [task EXCEPT ![r] = [kind |-> "describe", persona |-> persona]] /\ persona \in Personas
    BY <1>5 DEF PrepareDescribe, Inv, Chosen
  <2>2. [kind |-> "describe", persona |-> persona] \in Tasks
    BY <2>1 DEF Tasks
  <2> QED
    BY <1>3, <2>1, <2>2
<1>6. CASE PrepareAnswer(r)
  <2>1. task' = [task EXCEPT ![r] = [kind |-> "answer", key |-> current]] /\ current # Nothing
    BY <1>6 DEF PrepareAnswer
  <2>2. [kind |-> "answer", key |-> current] \in Tasks
    BY <2>1 DEF Inv, TypeOK, Tasks
  <2> QED
    BY <1>3, <2>1, <2>2
<1>7. CASE PrepareSubmit(r)
  <2>1. /\ task' = [task EXCEPT ![r] = [kind |-> "submit", basis |-> ValuesOf(facts)]]
        /\ status = "intake_complete" /\ missingRequired(content, ValuesOf(facts)) = {}
    BY <1>7 DEF PrepareSubmit
  <2>2. [kind |-> "submit", basis |-> ValuesOf(facts)] \in Tasks
    BY <1>1, ValuesType DEF Tasks
  <2> QED
    BY <1>3, <2>1, <2>2
<1>8. CASE GiveUp(r)
  <2>1. task' = [task EXCEPT ![r] = Idle] /\ Idle \in Tasks /\ Idle.kind # "submit"
    BY <1>8 DEF GiveUp, Tasks, Idle
  <2> QED
    BY <1>3, <2>1
<1> QED
  BY <1>4, <1>5, <1>6, <1>7, <1>8

\* Every step keeps the invariant.
LEMMA InvStep ==
  ASSUME Inv, [Next]_vars
  PROVE  Inv'
<1>1. CASE UNCHANGED vars
  <2>1. UNCHANGED document /\ task' = task
    BY <1>1 DEF vars
  <2> QED
    BY <2>1, QuietStep DEF Inv, TypeOK
<1>2. ASSUME NEW r \in Requests, Handle(r) PROVE Inv'
  BY <1>2, PrepareStep, SetPersonaStep, DescribeAnswerStep, AnswerStructuredStep,
     AnswerTextStep, ClarifyStep, SubmitStep DEF Handle
<1> QED
  BY <1>1, <1>2, StartAsStep, StartInferredStep, DecideStep DEF Next

-------------------------------------------------------------------------------
(* Theorems *)

\* The invariant holds in every reachable state.
THEOREM SpecInv == Spec => []Inv
<1>1. Inv /\ [Next]_vars => Inv'
  BY InvStep
<1> QED
  BY InitInv, <1>1, PTL DEF Spec

\* The variables keep their types, and the intake is over exactly when the phase says so.
THEOREM TypeCorrect == Spec => []TypeOK
<1>1. Inv => TypeOK
  BY DEF Inv
<1> QED
  BY SpecInv, <1>1, PTL

\* Whatever requests were under way, the stored recommendation rests on the facts the
\* assessment holds, and on all required ones.
THEOREM RecommendationAlwaysFits == Spec => []RecommendationFitsFacts
<1>1. Inv => RecommendationFitsFacts
  BY DEF Inv
<1> QED
  BY SpecInv, <1>1, PTL

\* The pre-validate hook of the model never refuses a save: AI-01 and FR-08 hold by themselves.
THEOREM SaveIsNeverRefused == Spec => []SaveNeverRefused
<1>1. Inv => SaveNeverRefused
  BY DEF Inv
<1> QED
  BY SpecInv, <1>1, PTL

\* For every flow, branch and order of answers an asked question left its fact, and the
\* pending question is a pinned one that does not count as asked.
THEOREM AskedAlwaysLeavesFact == Spec => []AskedLeavesFact
<1>1. Inv => AskedLeavesFact
  BY DEF Inv
<1> QED
  BY SpecInv, <1>1, PTL

\* For every flow the intake ends only when every question without a gate was asked and
\* nothing pinned can still produce a missing required fact.
THEOREM NothingIsSkipped == Spec => []NothingSkipped
<1>1. Inv => NothingSkipped
  BY DEF Inv
<1> QED
  BY SpecInv, <1>1, PTL

\* The audit entries always reproduce persona, scenario, score, decision and, if the plan
\* kept them, the facts of the assessment.
THEOREM ReconstructionAlwaysAgrees == Spec => []ReconstructionAgrees
<1>1. Inv => ReconstructionAgrees
  BY DEF Inv
<1> QED
  BY SpecInv, <1>1, PTL

\* The pinned scenario is always one of the persona the requestor chose or confirmed.
THEOREM ScenarioAlwaysFits == Spec => []ScenarioFitsChosenPersona
<1>1. Inv => ScenarioFitsChosenPersona
  BY DEF Inv
<1> QED
  BY SpecInv, <1>1, PTL

\* No request, however late, changes a closed assessment.
THEOREM ClosedStaysClosed == Spec => ClosedIsFinal
<1>1. Inv /\ [Next]_vars => (status = "closed" => UNCHANGED document)
  <2> SUFFICES ASSUME Inv, Next, status = "closed"
               PROVE  UNCHANGED document
    BY DEF vars
  <2>1. phase = "done"
    BY DEF Inv, TypeOK, Over, Statuses
  <2>2. ASSUME NEW r \in Requests, Handle(r)
        PROVE  UNCHANGED document
    <3>1. ~SetPersona(r) /\ ~Describe(r) /\ ~Submit(r) /\ ~StillPending(r)
      BY <2>1 DEF SetPersona, Describe, Submit, StillPending
    <3> QED
      BY <2>2, <3>1 DEF Handle, AnswerStructured, AnswerText, Clarify, PreparePersona,
                        PrepareDescribe, PrepareAnswer, PrepareSubmit, GiveUp
  <2> QED
    BY <2>2 DEF Next, StartAs, StartInferred, Decide, Decidable
<1>2. Inv /\ [Next]_vars => [status = "closed" => UNCHANGED document]_vars
  BY <1>1
<1> QED
  BY SpecInv, <1>2, PTL DEF Spec, ClosedIsFinal

\* Once the questions phase is reached, no request changes the persona or the pinned content.
THEOREM PinnedStaysPinned == Spec => PinnedForGood
<1>1. Inv /\ [Next]_vars =>
        [(phase \in {"questions", "done"}) => UNCHANGED <<content, persona>>]_vars
  <2> SUFFICES ASSUME Inv, Next, phase \in {"questions", "done"}
               PROVE  UNCHANGED <<content, persona>>
    BY DEF vars
  <2>1. status # "none"
    BY DEF Inv, Fresh
  <2>2. ASSUME NEW r \in Requests, Handle(r)
        PROVE  UNCHANGED <<content, persona>>
    <3>1. ~SetPersona(r) /\ ~Describe(r)
      BY DEF SetPersona, Describe
    <3> QED
      BY <2>2, <3>1 DEF Handle, AnswerStructured, AnswerText, Settle, Clarify, PreparePersona,
                        PrepareDescribe, PrepareAnswer, PrepareSubmit, Submit, Recommend, GiveUp,
                        document, intake
  <2> QED
    BY <2>1, <2>2 DEF Next, StartAs, StartInferred, Decide, intake
<1> QED
  BY SpecInv, <1>1, PTL DEF Spec, PinnedForGood

\* An answer replaces a recorded fact only if its own question produces it.
LEMMA AnswerKeepsOthers ==
  ASSUME Inv, NEW r \in Requests, AnswerStructured(r) \/ AnswerText(r) \/ Clarify(r),
         NEW k \in FactKeys, facts[k] # Nothing, facts'[k] # facts[k]
  PROVE  current # Nothing /\ content.fact[current] = k /\ facts'[k].by = current
<1>1. StillPending(r)
  BY DEF AnswerStructured, AnswerText, Clarify
<1>2. /\ task[r].key = current /\ current \in Questions /\ content \in Contents
      /\ content.fact[current] \in FactKeys /\ current # Nothing
  BY <1>1, PendingQuestion, BranchingOK
<1>3. \E fs \in WithSideFacts(facts, current) :
        \/ facts' = fs
        \/ \E v \in Values, src \in {"mcq", "ai"} :
             facts' = With(fs, content.fact[current], v, src, current)
  <2>1. facts \in WithSideFacts(facts, current)
    BY DEF WithSideFacts
  <2>2. CASE AnswerStructured(r)
    BY <1>2, <2>1, <2>2 DEF AnswerStructured, Settle
  <2>3. CASE AnswerText(r)
    BY <1>2, <2>3 DEF AnswerText, Settle
  <2>4. CASE Clarify(r)
    BY <1>2, <2>4 DEF Clarify
  <2> QED
    BY <2>2, <2>3, <2>4
<1>4. PICK fs \in WithSideFacts(facts, current) :
        \/ facts' = fs
        \/ \E v \in Values, src \in {"mcq", "ai"} :
             facts' = With(fs, content.fact[current], v, src, current)
  BY <1>3
<1>5. fs \in [FactKeys -> Recorded \cup {Nothing}] /\ fs[k] = facts[k]
  BY <1>2, SideFacts DEF Answered
<1>6. PICK v \in Values, src \in {"mcq", "ai"} :
        facts' = With(fs, content.fact[current], v, src, current)
  BY <1>4, <1>5
<1>7. /\ facts'[content.fact[current]].by = current
      /\ \A m \in FactKeys \ {content.fact[current]} : facts'[m] = fs[m]
  BY <1>2, <1>5, <1>6, WithType
<1> QED
  BY <1>2, <1>5, <1>7

\* What the requestor clicked is replaced only by an answer to a question about the same fact.
THEOREM ClickedFactsAlwaysSurvive == Spec => ClickedFactsSurvive
<1> DEFINE Survives == \A k \in FactKeys :
                     facts[k] # Nothing /\ facts'[k] # facts[k] /\ facts[k].source = "mcq" =>
                       current # Nothing /\ content.fact[current] = k /\ facts'[k].by = current
<1>1. Inv /\ [Next]_vars => [Survives]_vars
  <2> SUFFICES ASSUME Inv, Next, NEW k \in FactKeys, facts[k] # Nothing, facts'[k] # facts[k]
               PROVE  current # Nothing /\ content.fact[current] = k /\ facts'[k].by = current
    OBVIOUS
  <2>1. PICK r \in Requests : Handle(r)
    BY DEF Next, StartAs, StartInferred, Decide, intake
  <2>2. AnswerStructured(r) \/ AnswerText(r) \/ Clarify(r)
    BY <2>1 DEF Handle, PreparePersona, PrepareDescribe, PrepareAnswer, PrepareSubmit, GiveUp,
                SetPersona, Describe, Submit, Recommend, document, intake
  <2> QED
    BY <2>2, AnswerKeepsOthers
<1> QED
  BY SpecInv, <1>1, PTL DEF Spec, ClickedFactsSurvive

\* advance takes no key out of the asked ones but that of a question whose fact is missing.
LEMMA AdvanceReAsks ==
  ASSUME NEW c \in Contents, NEW q \in Seq(Questions), NEW a \in [Questions -> Nat],
         NEW fs, NEW ph, NEW k \in Questions, advance(c, q, a, fs, ph).asked[k] = 0
  PROVE  a[k] = 0 \/ fs[c.fact[k]] \in {Nothing, Blank}
<1>1. CASE advance(c, q, a, fs, ph).asked = a
  BY <1>1
<1>2. ASSUME NEW x \in c.questions, fs[c.fact[x]] \in {Nothing, Blank},
             advance(c, q, a, fs, ph) = AskAgain(x, a, ph)
      PROVE  a[k] = 0 \/ fs[c.fact[k]] \in {Nothing, Blank}
  BY <1>2 DEF AskAgain
<1> QED
  BY <1>1, <1>2, AdvanceCases, AskFields DEF Finish

\* An answer that records a value settles its question, and no other is unsettled by it: what
\* advance asks again has lost its fact to nobody, so it had none before.
LEMMA SettleProgress ==
  ASSUME Inv, NEW r \in Requests, StillPending(r), NEW v, NEW fs, Settle(r, fs, v),
         fs \in [FactKeys -> Recorded \cup {Nothing}],
         fs[content.fact[current]] \in Recorded, fs[content.fact[current]].value # Blank,
         \A m \in FactKeys \ {content.fact[current]} : facts[m] # Nothing => fs[m] = facts[m]
  PROVE  Unsettled' \subseteq Unsettled \ {current}
<1> DEFINE q   == current
           now == [asked EXCEPT ![q] = @ + 1]
           b   == applyBranch(content, q, v, queue, now)
<1>1. /\ task[r].key = q /\ q \in content.questions /\ q \in Questions /\ asked[q] = 0
      /\ content \in Contents
  BY PendingQuestion
<1>2. asked \in [Questions -> Nat] /\ queue \in Seq(Questions) /\ facts \in [FactKeys -> Recorded \cup {Nothing}]
  BY DEF Inv, TypeOK
<1>3. now \in [Questions -> Nat] /\ now[q] = 1 /\ \A k \in Questions \ {q} : now[k] = asked[k]
  BY <1>1, <1>2
<1>4. b \in Seq(Questions)
  <2>1. b = applyBranch(content, q, v, queue, now)
    OBVIOUS
  <2> HIDE DEF now, b
  <2> QED
    BY <1>1, <1>2, <2>1, BranchKeeps
<1>5. facts' = fs /\ content' = content /\ asked' = advance(content, b, now, ValuesOf(fs), phase).asked
  BY <1>1 DEF Settle
<1> HIDE DEF now, b
<1>6. \A k \in Questions : content.fact[k] \in FactKeys
  BY <1>1, ContentType
<1>7. ASSUME NEW k \in content.questions, ValuesOf(fs)[content.fact[k]] \in {Nothing, Blank}
      PROVE  k # q /\ ValuesOf(facts)[content.fact[k]] \in {Nothing, Blank}
  <2> DEFINE m == content.fact[k]
  <2>1. m \in FactKeys /\ content.fact[q] \in FactKeys
    BY <1>1, <1>6, ContentType
  <2>2. m # content.fact[q]
    <3>1. ValuesOf(fs)[content.fact[q]] = fs[content.fact[q]].value
      BY <2>1, AssessmentOK DEF ValuesOf
    <3>2. fs[content.fact[q]].value # Nothing
      BY BranchingOK DEF Recorded
    <3> QED
      BY <1>7, <3>1, <3>2
  <2> HIDE DEF m
  <2>3. CASE facts[m] = Nothing
    BY <2>1, <2>2, <2>3 DEF ValuesOf, m
  <2>4. CASE facts[m] # Nothing
    <3>1. fs[m] = facts[m]
      BY <2>1, <2>2, <2>4
    <3>2. ValuesOf(fs)[m] = ValuesOf(facts)[m]
      BY <2>1, <3>1 DEF ValuesOf
    <3> QED
      BY <1>7, <2>2, <3>2 DEF m
  <2> QED
    BY <2>3, <2>4
<1>8. Unsettled' = {k \in content.questions : asked'[k] = 0 \/ ValuesOf(fs)[content.fact[k]] \in {Nothing, Blank}}
  BY <1>5 DEF Unsettled, ValuesOf
<1>9. ASSUME NEW k \in content.questions, asked'[k] = 0
      PROVE  k \in Unsettled \ {q}
  <2>1. k \in Questions
    BY <1>1, ContentType
  <2>2. now[k] = 0 \/ ValuesOf(fs)[content.fact[k]] \in {Nothing, Blank}
    BY <1>1, <1>3, <1>4, <1>5, <1>9, <2>1, AdvanceReAsks
  <2> QED
    BY <1>3, <1>7, <2>1, <2>2 DEF Unsettled
<1> QED
  BY <1>7, <1>8, <1>9 DEF Unsettled

\* A side fact is one of another question's, and fills a gap.
LEMMA SideFactsElsewhere ==
  ASSUME Inv, content \in Contents, NEW q \in Questions, NEW fs \in WithSideFacts(facts, q)
  PROVE  fs[content.fact[q]] = facts[content.fact[q]]
<1>1. facts \in [FactKeys -> Recorded \cup {Nothing}] /\ content.fact[q] \in FactKeys
  BY ContentType DEF Inv, TypeOK
<1>2. CASE fs = facts
  BY <1>2
<1>3. CASE fs # facts
  <2>1. PICK k \in content.questions, v \in Values :
          fs = With(facts, content.fact[k], v, "ai", q) /\ content.fact[k] # content.fact[q]
    BY <1>3 DEF WithSideFacts
  <2> QED
    BY <1>1, <2>1 DEF With
<1> QED
  BY <1>2, <1>3

\* For every flow, every answer that records a value brings the end of the intake nearer, so that
\* no more than Cardinality(Questions) of them follow one another.
THEOREM AnswersAlwaysMakeProgress == Spec => AnswersMakeProgress
<1> DEFINE Progress == LET f == content.fact[current]
                       IN  current # Nothing /\ facts'[f] # facts[f] /\ facts'[f].value # Blank =>
                             Unsettled' \subseteq Unsettled \ {current}
<1>1. Inv /\ [Next]_vars => [Progress]_vars
  <2> DEFINE f == content.fact[current]
  <2> SUFFICES ASSUME Inv, Next, current # Nothing, facts'[f] # facts[f], facts'[f].value # Blank
               PROVE  Unsettled' \subseteq Unsettled \ {current}
    OBVIOUS
  <2>1. PICK r \in Requests : Handle(r)
    BY DEF Next, StartAs, StartInferred, Decide, intake
  <2>2. AnswerStructured(r) \/ AnswerText(r) \/ Clarify(r)
    BY <2>1 DEF Handle, PreparePersona, PrepareDescribe, PrepareAnswer, PrepareSubmit, GiveUp,
                SetPersona, Describe, Submit, Recommend, document, intake
  <2>3. StillPending(r)
    BY <2>2 DEF AnswerStructured, AnswerText, Clarify
  <2>4. task[r].key = current /\ current \in Questions /\ content \in Contents /\ f \in FactKeys
    BY <2>3, PendingQuestion
  <2>5. facts \in WithSideFacts(facts, current)
    BY DEF WithSideFacts
  <2>6. ~Clarify(r)
    <3> SUFFICES ASSUME Clarify(r) PROVE FALSE
      OBVIOUS
    <3>1. facts' \in WithSideFacts(facts, current)
      BY <2>4 DEF Clarify
    <3> QED
      BY <2>4, <3>1, SideFactsElsewhere
  <2>7. \E v \in Values, fs \in WithSideFacts(facts, current), src \in {"mcq", "ai"} :
          Settle(r, With(fs, f, v, src, current), v)
    <3>1. CASE AnswerStructured(r)
      BY <2>4, <2>5, <3>1 DEF AnswerStructured
    <3>2. CASE AnswerText(r)
      BY <2>4, <3>2 DEF AnswerText
    <3> QED
      BY <2>2, <2>6, <3>1, <3>2
  <2>8. PICK v \in Values, fs \in WithSideFacts(facts, current), src \in {"mcq", "ai"} :
          Settle(r, With(fs, f, v, src, current), v)
    BY <2>7
  <2> DEFINE new == With(fs, f, v, src, current)
  <2>9. /\ fs \in [FactKeys -> Recorded \cup {Nothing}]
        /\ \A m \in FactKeys : facts[m] # Nothing => fs[m] = facts[m]
    BY <2>4, SideFacts DEF Answered
  <2>10. /\ new \in [FactKeys -> Recorded \cup {Nothing}] /\ new[f] \in Recorded
         /\ \A m \in FactKeys \ {f} : new[m] = fs[m]
    BY <2>4, <2>9, WithType
  <2>11. facts' = new
    BY <2>8 DEF Settle
  <2> HIDE DEF new, f
  <2>12. \A m \in FactKeys \ {f} : facts[m] # Nothing => new[m] = facts[m]
    BY <2>9, <2>10
  <2>13. Settle(r, new, v) /\ new[f].value # Blank
    BY <2>8, <2>11 DEF new
  <2> QED
    BY <2>3, <2>10, <2>12, <2>13, SettleProgress DEF f
<1> QED
  BY SpecInv, <1>1, PTL DEF Spec, AnswersMakeProgress
===============================================================================
