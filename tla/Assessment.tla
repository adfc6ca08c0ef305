------------------------------ MODULE Assessment ------------------------------
(***************************************************************************)
(* The life of one assessment (modules/assessments/service.ts): persona,    *)
(* scenario and pinned content, the intake, the recommendation, the human   *)
(* decision, and what reconstruct makes of its audit entries.               *)
(*                                                                         *)
(* Requests run concurrently on the same document: tabs of its owner, the   *)
(* reviewers, retries.  A handler reads a snapshot, checks it, calls the AI *)
(* and only then runs its transaction, which reads the document again.  The *)
(* first part is one action and the transaction another; AuditChain's       *)
(* CommitsOnCurrentSnapshot is why an audited transaction is one step.      *)
(* What the AI answered has no influence before the transaction, so it is   *)
(* chosen there.  Messages, timestamps, confidence figures and who may see  *)
(* the assessment are left out.                                             *)
(***************************************************************************)
EXTENDS Branching

CONSTANTS
  Requests,    \* requests that may be under way at the same time
  Personas,    \* keys of the active personas
  Scenarios,   \* keys of their active scenarios
  Contents     \* what pinVersions can find when a scenario is selected

Recorded == [value : Values, source : {"mcq", "ai"}, by : Questions]
Results  == [basis : [FactKeys -> Values \cup {Nothing}], zero : BOOLEAN, ruled : BOOLEAN]

ASSUME AssessmentOK ==
  /\ Contents \subseteq Pinned(Personas, Scenarios)
  /\ \A c \in Contents : Consistent(c)
  /\ Nothing \notin Personas \cup Scenarios \cup Contents \cup Recorded \cup Results

VARIABLES
  status, phase,
  persona,         \* personaKey
  source,          \* personaSource
  opening,         \* whether openingText is set
  content,         \* scenario, versions and pinnedContent
  queue, asked,    \* queue, askedQuestionKeys
  current,         \* currentQuestionKey
  clarifying,      \* whether a clarification is pending
  facts,           \* facts[k]: the recorded fact of key k
  result,          \* the recommendation: the facts it rests on, whether the score is 0, whether a rule fired
  decision,        \* decision.type
  trail,           \* the state reconstruct computes from the audit entries written so far
  task             \* task[r]: what request r has read before its transaction

intake   == <<opening, content, queue, asked, current, clarifying, facts>>
document == <<status, phase, persona, source, intake, result, decision, trail>>
vars     == <<document, task>>

-------------------------------------------------------------------------------
(* Facts and the audit trail *)

\* factsOf(doc)
ValuesOf(fs) == [k \in FactKeys |-> IF fs[k] = Nothing THEN Nothing ELSE fs[k].value]

\* setFact
With(fs, k, v, src, q) == [fs EXCEPT ![k] = [value |-> v, source |-> src, by |-> q]]

\* doc.facts.filter((f) => f.questionKey === q.key): the facts an `answered' entry carries.
LoggedFacts(fs, q) ==
  [k \in {f \in FactKeys : fs[f] # Nothing /\ fs[f].by = q} |-> fs[k].value]

EmptyTrail ==
  [status |-> "unknown", persona |-> Nothing, scenario |-> Nothing, zero |-> Nothing,
   decision |-> Nothing, facts |-> [k \in FactKeys |-> Nothing], full |-> TRUE]

\* The cases of reconstruct; an answer logged without fullAudit has no facts.
TrailStarted(t, p)     == [t EXCEPT !.status = "in_progress", !.persona = p]
TrailPersonaSet(t, p)  == [t EXCEPT !.persona = p]
TrailScenario(t, s)    == [t EXCEPT !.scenario = s]
TrailAnswered(t, fs)   ==
  [t EXCEPT !.facts = [k \in FactKeys |-> IF k \in DOMAIN fs THEN fs[k] ELSE @[k]]]
TrailReduced(t)        == [t EXCEPT !.full = FALSE]
TrailScored(t, zero)   == [t EXCEPT !.zero = zero]
TrailRecommended(t)    ==
  [t EXCEPT !.status = IF t.zero = TRUE THEN "error_review" ELSE "awaiting_decision"]
TrailDecided(t, d)     ==
  [t EXCEPT !.decision = d, !.status = IF d = "escalate" THEN "escalated" ELSE "closed"]

-------------------------------------------------------------------------------
(* Persona and scenario *)

Idle == [kind |-> "idle"]

Init ==
  /\ status = "none" /\ phase = "persona"
  /\ persona = Nothing /\ source = Nothing
  /\ opening = FALSE /\ content = Nothing
  /\ queue = <<>> /\ asked = [k \in Questions |-> 0]
  /\ current = Nothing /\ clarifying = FALSE
  /\ facts = [k \in FactKeys |-> Nothing]
  /\ result = Nothing /\ decision = Nothing
  /\ trail = EmptyTrail
  /\ task = [r \in Requests |-> Idle]

\* selectScenarioAndBegin: pin what is there now and advance; t is the trail before its entry.
selectScenarioAndBegin(p, t) ==
  \E c \in {x \in Contents : x.persona = p} :
    LET step == advance(c, c.flow, asked, ValuesOf(facts), phase)
    IN  /\ content' = c
        /\ opening' = TRUE
        /\ queue'   = step.queue
        /\ asked'   = step.asked
        /\ current' = step.current
        /\ phase'   = step.phase
        /\ status'  = step.status
        /\ trail'   = TrailScenario(t, c.scenario)

\* afterPersona without an opening text: ask for a description.
AskToDescribe(t) ==
  /\ phase' = "describe"
  /\ status' = "in_progress"
  /\ trail' = t
  /\ UNCHANGED <<opening, content, queue, asked, current>>

\* start with a persona the requestor chose, with or without an opening text.
StartAs(p) ==
  /\ status = "none"
  /\ persona' = p /\ source' = "user"
  /\ \/ AskToDescribe(TrailStarted(trail, p))
     \/ selectScenarioAndBegin(p, TrailStarted(trail, p))
  /\ UNCHANGED <<clarifying, facts, result, decision, task>>

\* start without one: the AI proposes a persona, or none, and the requestor must confirm.
StartInferred ==
  /\ status = "none"
  /\ status' = "in_progress" /\ phase' = "persona"
  /\ opening' = TRUE
  /\ \/ \E p \in Personas : persona' = p /\ source' = "ai"
     \/ UNCHANGED <<persona, source>>
  /\ trail' = TrailStarted(trail, persona')
  /\ UNCHANGED <<content, queue, asked, current, clarifying, facts, result, decision, task>>

\* setPersona, and answer in the persona phase, up to the transaction.
PreparePersona(r) ==
  /\ task[r] = Idle
  /\ status # "none"
  /\ phase \notin {"questions", "done"}
  /\ \E p \in Personas :
       task' = [task EXCEPT ![r] = [kind |-> "persona", persona |-> p, prepared |-> opening]]
  /\ UNCHANGED document

\* Mutation: the transaction does not look at the phase again.
SetPersonaAnyPhase(r) ==
  /\ task[r].kind = "persona"
  /\ persona' = task[r].persona /\ source' = "user"
  /\ LET t == TrailPersonaSet(trail, task[r].persona)
     IN  IF ~opening THEN AskToDescribe(t)
         ELSE task[r].prepared /\ selectScenarioAndBegin(task[r].persona, t)
  /\ task' = [task EXCEPT ![r] = Idle]
  /\ UNCHANGED <<clarifying, facts, result, decision>>

\* The transaction of setPersona.
SetPersona(r) ==
  /\ task[r].kind = "persona"
  /\ phase \notin {"questions", "done"}
  /\ persona' = task[r].persona /\ source' = "user"
  /\ LET t == TrailPersonaSet(trail, task[r].persona)
     IN  IF ~opening THEN AskToDescribe(t)
         ELSE task[r].prepared /\ selectScenarioAndBegin(task[r].persona, t)
  /\ task' = [task EXCEPT ![r] = Idle]
  /\ UNCHANGED <<clarifying, facts, result, decision>>

\* answer in the describe phase, up to the transaction.
PrepareDescribe(r) ==
  /\ task[r] = Idle
  /\ status = "in_progress" /\ phase = "describe"
  /\ task' = [task EXCEPT ![r] = [kind |-> "describe", persona |-> persona]]
  /\ UNCHANGED document

\* Mutation: the transaction does not look at the persona again.
DescribeAnyPersona(r) ==
  /\ task[r].kind = "describe"
  /\ status = "in_progress" /\ phase = "describe"
  /\ selectScenarioAndBegin(task[r].persona, trail)
  /\ task' = [task EXCEPT ![r] = Idle]
  /\ UNCHANGED <<persona, source, clarifying, facts, result, decision>>

\* Its transaction: refused when the assessment changed while the scenario was selected.
Describe(r) ==
  /\ task[r].kind = "describe"
  /\ status = "in_progress" /\ phase = "describe" /\ persona = task[r].persona
  /\ selectScenarioAndBegin(task[r].persona, trail)
  /\ task' = [task EXCEPT ![r] = Idle]
  /\ UNCHANGED <<persona, source, clarifying, facts, result, decision>>

-------------------------------------------------------------------------------
(* The intake *)

\* answer in the questions phase, up to the transaction.
PrepareAnswer(r) ==
  /\ task[r] = Idle
  /\ status = "in_progress" /\ phase = "questions"
  /\ current # Nothing /\ current \in content.questions
  /\ task' = [task EXCEPT ![r] = [kind |-> "answer", key |-> current]]
  /\ UNCHANGED document

\* Mutation: the transaction of an answer checks nothing again.
StillPendingUnchecked(r) == task[r].kind = "answer"

\* What the transaction of an answer checks again.
StillPending(r) ==
  /\ task[r].kind = "answer"
  /\ status = "in_progress" /\ phase = "questions" /\ current = task[r].key

\* Mutation: a fact the model read between the lines replaces what was there.
WithSideFactsOverwriting(fs, q) ==
  {fs} \cup {With(fs, content.fact[k], v, "ai", q) :
               k \in {x \in content.questions : content.fact[x] # content.fact[q]},
               v \in Values \ {Blank}}

\* The facts after at most one side fact of a free answer to q: it only fills a gap.
WithSideFacts(fs, q) ==
  {fs} \cup {With(fs, content.fact[k], v, "ai", q) :
               k \in {x \in content.questions : /\ content.fact[x] # content.fact[q]
                                                /\ fs[content.fact[x]] = Nothing},
               v \in Values \ {Blank}}

\* The `answered' entry, with the facts of question q if the tenant has fullAudit now.
Log(fs, q) == trail' \in {TrailAnswered(trail, LoggedFacts(fs, q)), TrailReduced(trail)}

\* Mutation: what to ask next is decided on the facts read before the answer was recorded.
SettleOnOldFacts(r, fs, v) ==
  LET q    == task[r].key
      now  == [asked EXCEPT ![q] = @ + 1]
      step == advance(content, applyBranch(content, q, v, queue, now), now, ValuesOf(facts), phase)
  IN  /\ facts'   = fs
      /\ clarifying' = FALSE
      /\ queue'   = step.queue
      /\ asked'   = step.asked
      /\ current' = step.current
      /\ phase'   = step.phase
      /\ status'  = step.status
      /\ Log(fs, q)
      /\ task'    = [task EXCEPT ![r] = Idle]
      /\ UNCHANGED <<persona, source, opening, content, result, decision>>

\* The asked fact is recorded: fs are the facts after it, v the value the trigger sees.
Settle(r, fs, v) ==
  LET q    == task[r].key
      now  == [asked EXCEPT ![q] = @ + 1]
      step == advance(content, applyBranch(content, q, v, queue, now), now, ValuesOf(fs), phase)
  IN  /\ facts'   = fs
      /\ clarifying' = FALSE
      /\ queue'   = step.queue
      /\ asked'   = step.asked
      /\ current' = step.current
      /\ phase'   = step.phase
      /\ status'  = step.status
      /\ Log(fs, q)
      /\ task'    = [task EXCEPT ![r] = Idle]
      /\ UNCHANGED <<persona, source, opening, content, result, decision>>

\* An option, a yes/no or a number was sent.
AnswerStructured(r) ==
  /\ StillPending(r)
  /\ task[r].key \notin content.freeText
  /\ \E v \in Values :
       Settle(r, With(facts, content.fact[task[r].key], v, "mcq", task[r].key), v)

\* Text was sent and the model's reading of it settles the question, or the one
\* clarification was already asked for.
AnswerText(r) ==
  /\ StillPending(r)
  /\ \E v \in Values, fs \in WithSideFacts(facts, task[r].key) :
       Settle(r, With(fs, content.fact[task[r].key], v, "ai", task[r].key), v)

\* Mutation: the clarification is saved and not audited.
ClarifyUnlogged(r) ==
  /\ StillPending(r)
  /\ ~clarifying
  /\ clarifying' = TRUE
  /\ facts' \in WithSideFacts(facts, task[r].key)
  /\ task' = [task EXCEPT ![r] = Idle]
  /\ UNCHANGED <<status, phase, persona, source, opening, content, queue, asked, current,
                 result, decision, trail>>

\* Text was sent and does not settle the question: ask once for clarification.
Clarify(r) ==
  /\ StillPending(r)
  /\ ~clarifying
  /\ clarifying' = TRUE
  /\ facts' \in WithSideFacts(facts, task[r].key)
  /\ Log(facts', task[r].key)
  /\ task' = [task EXCEPT ![r] = Idle]
  /\ UNCHANGED <<status, phase, persona, source, opening, content, queue, asked, current,
                 result, decision>>

-------------------------------------------------------------------------------
(* Recommendation and decision *)

\* submit up to its transaction: the rules and the matrix are run on the snapshot.
PrepareSubmit(r) ==
  /\ task[r] = Idle
  /\ status = "intake_complete"
  /\ missingRequired(content, ValuesOf(facts)) = {}
  /\ task' = [task EXCEPT ![r] = [kind |-> "submit", basis |-> ValuesOf(facts)]]
  /\ UNCHANGED document

\* The transaction of submit: three entries and the result.
Recommend(r) ==
  \E zero, ruled \in BOOLEAN :
    /\ result' = [basis |-> task[r].basis, zero |-> zero, ruled |-> ruled]
    /\ status' = IF zero /\ ~ruled THEN "error_review" ELSE "awaiting_decision"
    /\ trail'  = TrailRecommended(TrailScored(trail, zero))
    /\ task'   = [task EXCEPT ![r] = Idle]
    /\ UNCHANGED <<phase, persona, source, intake, decision>>

\* Mutation: the prepared result is stored whatever happened since.
SubmitStale(r) ==
  /\ task[r].kind = "submit"
  /\ Recommend(r)

Submit(r) ==
  /\ task[r].kind = "submit"
  /\ status = "intake_complete"
  /\ Recommend(r)

Decidable == {"awaiting_decision", "escalated", "error_review"}

\* Mutation: the document is closed and the decision not recorded.
DecideUnrecorded(d) ==
  /\ status \in Decidable
  /\ ~(status = "error_review" /\ d = "accept")
  /\ status' = IF d = "escalate" THEN "escalated" ELSE "closed"
  /\ trail'  = TrailDecided(trail, d)
  /\ UNCHANGED <<phase, persona, source, intake, result, decision, task>>

\* decide: one transaction, nothing read before it.
Decide(d) ==
  /\ status \in Decidable
  /\ ~(status = "error_review" /\ d = "accept")
  /\ decision' = d
  /\ status' = IF d = "escalate" THEN "escalated" ELSE "closed"
  /\ trail'  = TrailDecided(trail, d)
  /\ UNCHANGED <<phase, persona, source, intake, result, task>>

\* A request ends without effect: CONFLICT, VALIDATION_ERROR, the AI failed, a crash.
GiveUp(r) ==
  /\ task[r] # Idle
  /\ task' = [task EXCEPT ![r] = Idle]
  /\ UNCHANGED document

Handle(r) ==
  \/ PreparePersona(r) \/ SetPersona(r) \/ PrepareDescribe(r) \/ Describe(r)
  \/ PrepareAnswer(r) \/ AnswerStructured(r) \/ AnswerText(r) \/ Clarify(r)
  \/ PrepareSubmit(r) \/ Submit(r) \/ GiveUp(r)

Next ==
  \/ \E p \in Personas : StartAs(p)
  \/ StartInferred
  \/ \E r \in Requests : Handle(r)
  \/ \E d \in {"accept", "override", "escalate"} : Decide(d)

Spec == Init /\ [][Next]_vars

\* A requestor who goes on answering, and is answered.
AnsweringSpec ==
  /\ Spec
  /\ \A r \in Requests : SF_vars(PrepareAnswer(r)) /\ SF_vars(AnswerStructured(r) \/ AnswerText(r))
-------------------------------------------------------------------------------
(* Properties *)

Statuses == {"none", "in_progress", "intake_complete", "awaiting_decision", "escalated",
             "closed", "error_review"}
Over     == Statuses \ {"none", "in_progress"}
Tasks    == {Idle} \cup [kind : {"persona"}, persona : Personas, prepared : BOOLEAN]
                   \cup [kind : {"describe"}, persona : Personas]
                   \cup [kind : {"answer"}, key : Questions]
                   \cup [kind : {"submit"}, basis : [FactKeys -> Values \cup {Nothing}]]

Trails   == [status : Statuses \cup {"unknown"}, persona : Personas \cup {Nothing},
             scenario : Scenarios \cup {Nothing}, zero : BOOLEAN \cup {Nothing},
             decision : {"accept", "override", "escalate", Nothing},
             facts : [FactKeys -> Values \cup {Nothing}], full : BOOLEAN]

\* The types of the variables, and how status and phase go together: the phase is `done'
\* exactly when the intake is over, and then no question is pending.
TypeOK ==
  /\ status \in Statuses
  /\ phase \in {"persona", "describe", "questions", "done"}
  /\ persona \in Personas \cup {Nothing}
  /\ source \in {"user", "ai", Nothing}
  /\ opening \in BOOLEAN
  /\ content \in Contents \cup {Nothing}
  /\ queue \in Seq(Questions)
  /\ asked \in [Questions -> Nat]
  /\ current \in Questions \cup {Nothing}
  /\ clarifying \in BOOLEAN
  /\ facts \in [FactKeys -> Recorded \cup {Nothing}]
  /\ result \in Results \cup {Nothing}
  /\ decision \in {"accept", "override", "escalate", Nothing}
  /\ trail \in Trails
  /\ task \in [Requests -> Tasks]
  /\ (phase = "done") = (status \in Over)
  /\ phase = "done" => current = Nothing

\* The recommendation rests on the facts the assessment holds, and on all required ones,
\* although the rules and the matrix ran on a snapshot read before the AI was called.
RecommendationFitsFacts ==
  result # Nothing =>
    /\ result.basis = ValuesOf(facts)
    /\ missingRequired(content, result.basis) = {}

\* The two promises the pre-validate hook of the model enforces (AI-01, FR-08) hold by
\* themselves, so that no save is ever refused; and a status that awaits a human has a
\* recommendation to decide on.
SaveNeverRefused ==
  /\ status = "closed" => decision \in {"accept", "override"}
  /\ (result # Nothing) = (status \in Over \ {"intake_complete"})

\* A closed assessment stays as it was closed, whatever requests were still under way.
ClosedIsFinal ==
  [][status = "closed" => UNCHANGED document]_vars

\* Reconstructing the assessment from its audit entries gives back the persona, scenario,
\* score and last decision of the document, and its facts unless the plan left them out.
ReconstructionAgrees ==
  /\ trail.persona = persona
  /\ trail.scenario = IF content = Nothing THEN Nothing ELSE content.scenario
  /\ trail.zero = IF result = Nothing THEN Nothing ELSE result.zero
  /\ trail.decision = decision
  /\ trail.full => trail.facts = ValuesOf(facts)

\* An asked question left its fact, and the pending question is one not asked yet, whatever
\* branches, side facts, clarifications and second asks the intake went through.
AskedLeavesFact ==
  /\ \A k \in Questions : asked[k] \in {0, 1} /\ (asked[k] = 1 => facts[content.fact[k]] # Nothing)
  /\ current # Nothing => current \in content.questions /\ asked[current] = 0

\* When the intake is over every question of the flow without a gate was asked, and a
\* required fact is missing only where no pinned question could produce it.  (The second part
\* holds since the re-ask has no limit: AskAgain takes the key out of askedQuestionKeys, where
\* advance counts it.  See IntakeEnds.)
NothingSkipped ==
  status \in Over =>
    /\ \A i \in DOMAIN content.flow :
         content.gate[content.flow[i]] = Nothing => asked[content.flow[i]] > 0
    /\ \A i \in missingRequired(content, ValuesOf(facts)) :
         Producers(content, content.required[i]) = {}

\* The pinned questions advance may still ask: not asked yet, or without a value for their fact.
Unsettled ==
  {k \in content.questions : asked[k] = 0 \/ ValuesOf(facts)[content.fact[k]] \in {Nothing, Blank}}

\* An answer that records a value settles its question and unsettles no other, whatever it
\* branches to, fills in on the side or makes advance ask again.  So only blank answers can
\* keep the intake going: there are at most as many others in a row as there are questions.
AnswersMakeProgress ==
  [][LET f == content.fact[current]
     IN  current # Nothing /\ facts'[f] # facts[f] /\ facts'[f].value # Blank =>
           Unsettled' \subseteq Unsettled \ {current}]_vars

\* What the requestor clicked is replaced only by an answer to the pending question, when
\* that question produces the same fact: a guess of the model never replaces it.
ClickedFactsSurvive ==
  [][\A k \in FactKeys :
       facts[k] # Nothing /\ facts'[k] # facts[k] /\ facts[k].source = "mcq" =>
         current # Nothing /\ content.fact[current] = k /\ facts'[k].by = current]_vars

\* A scenario is selected only for a persona the requestor chose or confirmed (FR-04), and
\* it is one of that persona, also when the persona changed in another tab meanwhile.
ScenarioFitsChosenPersona ==
  content # Nothing => source = "user" /\ content.persona = persona

\* Once the questions phase is reached, the pinned content is never pinned again.
PinnedForGood ==
  [][(phase \in {"questions", "done"}) => UNCHANGED <<content, persona>>]_vars

\* reconstruct.test.ts: "timeline, facts, score, decisions and status all come back from
\* the log and match the document", from the recommendation on.
ReconstructedStatusAgrees == result # Nothing => trail.status = status

\* decide: "a score of 0 cannot be accepted; override with a classification or escalate".
ZeroScoreNeverAccepted ==
  result # Nothing /\ result.zero /\ ~result.ruled => decision # "accept"

\* advance: "Thank you -- I have everything I need. Submit the assessment to get the result."
CompleteCanBeSubmitted ==
  status = "intake_complete" => missingRequired(content, ValuesOf(facts)) = {}

\* advance: "re-ask the question that produces the first missing fact once", "allow one more
\* ask": who goes on answering reaches the end of the intake, blank answers or not.
IntakeEnds == (phase = "questions") ~> (phase = "done")

\* setPersona: "the persona cannot change once questions have started".
PersonaFixedOnceAsked == [][current # Nothing => persona' = persona]_vars
===============================================================================
