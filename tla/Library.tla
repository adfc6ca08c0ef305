-------------------------------- MODULE Library --------------------------------
(***************************************************************************)
(* The content library of a tenant: versioned personas and scenarios        *)
(* (modules/personas, modules/scenarios), questions edited in place         *)
(* (modules/questions), the release report about them                       *)
(* (modules/datasets/content-verify.ts) and an intake that pins them        *)
(* (modules/assessments/content.ts).                                       *)
(*                                                                         *)
(* An edit is one audited transaction, so edits of a tenant are serial      *)
(* (AuditChain!CommitsOnCurrentSnapshot).  An intake is not: it reads the   *)
(* persona and the scenario, waits for the model, and pins in a transaction *)
(* of its own, when the library may be another one.                        *)
(***************************************************************************)
EXTENDS VersionedContent, FiniteSets, SequencesExt

CONSTANTS
  PersonaGroups, ScenarioGroups,   \* version groups that may be created
  PersonaBodies,    \* [key, sector, default]: default is defaultScenarioKey
  ScenarioBodies,   \* [key, persona, flow, required]
  Files,            \* uploads: [persona, scenario, questions], the last a function on some keys
  QuestionBodies,   \* per key, sets of [fact, follow]: factKey and the branch's questionKeys
  Questions,        \* question keys
  FactKeys,         \* fact keys
  Sectors,          \* sectors of personas and of scoring matrices
  Default,          \* the key of the scoring matrix without a sector
  Answer,           \* the one answer that triggers a branch
  Nothing,          \* no document
  MinScenarios, MaxScenarios,      \* MIN_SCENARIOS, MAX_SCENARIOS
  MaxVersions       \* bound: MaxVersions[g] versions of group g

QuestionBody == [fact : FactKeys, follow : Seq(Questions)]
QuestionDoc  == [status : {"active", "retired"}, body : QuestionBody]

ASSUME LibraryOK ==
  /\ Default \notin Sectors /\ Answer # Nothing /\ Nothing \notin Questions \cup FactKeys
  /\ MaxVersions \in [PersonaGroups \cup ScenarioGroups -> Nat \ {0}]
  /\ IsFiniteSet(Questions) /\ Nothing \notin QuestionDoc
  /\ \A s \in ScenarioBodies : s.flow \in Seq(Questions)
  /\ \A k \in Questions : QuestionBodies[k] \subseteq QuestionBody
  /\ \A f \in Files : /\ f.persona \in PersonaBodies /\ f.scenario \in ScenarioBodies
                      /\ DOMAIN f.questions \subseteq Questions
                      /\ \A k \in DOMAIN f.questions : f.questions[k] \in QuestionBody

Matrices == Sectors \cup {Default}

VARIABLES
  personas,    \* the collection of personas
  scenarios,   \* the collection of scenarios
  questions,   \* questions[k]: Nothing, or status and body
  matrices,    \* which scoring matrices are active (module Scoring)
  intake       \* the intake that selects and pins content

vars == <<personas, scenarios, questions, matrices, intake>>

B == INSTANCE Branching WITH Values <- {Answer, Nothing}, Blank <- Nothing, Nothing <- Default

-------------------------------------------------------------------------------
(* Questions *)

ActiveIn(qs) == {k \in Questions : qs[k] # Nothing /\ qs[k].status = "active"}
Active == ActiveIn(questions)
Follow(k)   == Range(questions[k].body.follow)
FactsOf(ks) == {questions[k].body.fact : k \in ks}

\* Mutation: branches are not followed.
questionMapFlat(flow) == Active \cap Range(flow)

\* The keys found from start, wave by wave: next[k] are the keys question k leads to.
Walk(start, next) ==
  LET upTo[n \in 0..Cardinality(Questions)] ==
        IF n = 0 THEN start ELSE upTo[n - 1] \cup UNION {next[k] : k \in upTo[n - 1]}
  IN  upTo[Cardinality(Questions)]

\* questionMap: the active questions of the flow, and wave by wave their active follow-ups.
questionMap(flow) ==
  Walk(Active \cap Range(flow),
       [k \in Questions |-> IF k \in Active THEN Active \cap Follow(k) ELSE {}])

\* The queue of verifyScenarioLinks and of the gate: every key named, active or not.
NamedFrom(keys, qs) ==
  Walk(keys, [k \in Questions |-> IF k \in ActiveIn(qs) THEN Range(qs[k].body.follow) ELSE {}])
NamedIn(flow, qs) == NamedFrom(Range(flow), qs)
Named(flow) == NamedIn(flow, questions)

\* pinVersions, with currentMatrix: what an intake of persona p and scenario s needs now.
Pinnable(p, s) ==
  /\ Range(s.flow) \cup UNION {Follow(k) : k \in questionMap(s.flow)} \subseteq questionMap(s.flow)
  /\ {p.sector, Default} \cap matrices # {}

\* What pinVersions stores, in the form module Branching reads it.
PinnedContent(p, s) ==
  [persona |-> p.key, scenario |-> s.key, flow |-> s.flow,
   gate      |-> [k \in Questions |-> Default],
   questions |-> questionMap(s.flow),
   order     |-> SetToSeq(questionMap(s.flow)),
   fact      |-> [k \in questionMap(s.flow) |-> questions[k].body.fact],
   trigger   |-> [k \in questionMap(s.flow) |->
                    [on |-> Answer, follow |-> questions[k].body.follow]],
   freeText  |-> {},
   required  |-> SetToSeq(s.required)]

-------------------------------------------------------------------------------
(* The release report *)

\* verifyScenarioLinks finds no issue.
LinksOk(s) ==
  /\ s.flow # <<>>
  /\ Named(s.flow) \subseteq Active
  /\ s.required \subseteq FactsOf(Named(s.flow) \cap Active)

\* The scenarios of the snapshot verifyTenant reads, one transactionless read per collection,
\* for one persona.
SnapshotOf(key) == {v \in Current(scenarios) : At(scenarios, v).body.persona = key}

\* verifyContentSnapshot on persona p: number of scenarios, default scenario, links, matrix.
ReportOk(p) ==
  /\ Cardinality(SnapshotOf(p.key)) \in MinScenarios..MaxScenarios
  /\ \E v \in SnapshotOf(p.key) : At(scenarios, v).body.key = p.default
  /\ \A v \in SnapshotOf(p.key) : LinksOk(At(scenarios, v).body)
  /\ p.sector \in matrices \/ Default \in matrices

-------------------------------------------------------------------------------
(* Edits *)

NoIntake == [pc |-> "idle", persona |-> Nothing, scenario |-> Nothing, content |-> Nothing]

Init ==
  /\ personas = [g \in PersonaGroups |-> <<>>]
  /\ scenarios = [g \in ScenarioGroups |-> <<>>]
  /\ questions = [k \in Questions |-> Nothing]
  /\ matrices = {}
  /\ intake = NoIntake

\* personasService: create, update, activate, deactivate.
EditPersona(g) ==
  /\ \/ \E b \in PersonaBodies :
          /\ personas[g] = <<>> /\ MayCreate(personas, b.key)
          /\ personas' = createDraft(personas, g, b)
     \/ \E n \in DOMAIN personas[g] :
          \/ \E b \in PersonaBodies :
               /\ b.key = personas[g][n].body.key
               /\ MayUpdate(personas, g, n)
               /\ personas[g][n].status = "draft" \/ Len(personas[g]) < MaxVersions[g]
               /\ personas' = updateAsNewVersion(personas, g, n, b)
          \/ MayActivate(personas, g, n) /\ personas' = activate(personas, g, n)
          \/ MayDeactivate(personas, g, n) /\ personas' = deactivate(personas, g, n)
  /\ UNCHANGED <<scenarios, questions, matrices, intake>>

\* Mutation: only the questions of the flow itself are looked up.
validatedFlat(s) ==
  /\ \E p \in CurrentBodies(personas) : p.key = s.persona
  /\ s.flow # <<>> /\ Range(s.flow) \subseteq Active
  /\ s.required \subseteq FactsOf(Range(s.flow))

\* The gate on scenario s in a library of personas ps and questions qs: the walk stops at the
\* first key without an active question.
PassesGate(s, ps, qs) ==
  /\ \E p \in CurrentBodies(ps) : p.key = s.persona
  /\ s.flow # <<>>
  /\ NamedIn(s.flow, qs) \subseteq ActiveIn(qs)
  /\ s.required \subseteq {qs[k].body.fact : k \in NamedIn(s.flow, qs)}

validateForActivation(s) == PassesGate(s, personas, questions)

\* scenariosService: create for a persona that exists in some version, update, activate, deactivate.
EditScenario(g) ==
  /\ \/ \E b \in ScenarioBodies :
          /\ \E v \in Versions(personas) : At(personas, v).body.key = b.persona
          /\ scenarios[g] = <<>> /\ MayCreate(scenarios, b.key)
          /\ scenarios' = createDraft(scenarios, g, b)
     \/ \E n \in DOMAIN scenarios[g] :
          \/ \E b \in ScenarioBodies :
               /\ b.key = scenarios[g][n].body.key /\ b.persona = scenarios[g][n].body.persona
               /\ MayUpdate(scenarios, g, n)
               /\ scenarios[g][n].status = "draft" \/ Len(scenarios[g]) < MaxVersions[g]
               /\ scenarios' = updateAsNewVersion(scenarios, g, n, b)
          \/ /\ MayActivate(scenarios, g, n) /\ validateForActivation(scenarios[g][n].body)
             /\ scenarios' = activate(scenarios, g, n)
          \/ MayDeactivate(scenarios, g, n) /\ scenarios' = deactivate(scenarios, g, n)
  /\ UNCHANGED <<personas, questions, matrices, intake>>

\* Object.assign(doc, patch): a patch without a branch leaves the old one where it is.
Merged(old, patch) ==
  [fact |-> patch.fact, follow |-> IF patch.follow = <<>> THEN old.follow ELSE patch.follow]

\* questionsService: create, update in place (the fact may be left out), retire.
EditQuestion(k) ==
  /\ \/ /\ questions[k] = Nothing
        /\ \E b \in QuestionBodies[k] :
             questions' = [questions EXCEPT ![k] = [status |-> "active", body |-> b]]
     \/ /\ k \in Active
        /\ \E b \in QuestionBodies[k], fact \in FactKeys :
             /\ fact \in {b.fact, questions[k].body.fact}
             /\ questions' = [questions EXCEPT ![k].body =
                                Merged(@, [fact |-> fact, follow |-> b.follow])]
     \/ k \in Active /\ questions' = [questions EXCEPT ![k].status = "retired"]
  /\ UNCHANGED <<personas, scenarios, matrices, intake>>

\* A scoring matrix is activated or deactivated.
EditMatrix ==
  /\ matrices' \in SUBSET Matrices /\ matrices' # matrices
  /\ UNCHANGED <<personas, scenarios, questions, intake>>

-------------------------------------------------------------------------------
(* Content uploads (modules/datasets/service.ts; their approval is module ChangeControl) *)

\* questionInfo: a question of the file, else an active one of the library.
Known(f)   == DOMAIN f.questions \cup Active

\* Mutation: the walk looks at the library before the file.
InfoOfLibrary(f, k) == IF k \in Active THEN questions[k].body ELSE f.questions[k]

Info(f, k) == IF k \in DOMAIN f.questions THEN f.questions[k] ELSE questions[k].body

\* The keys crossValidate walks over.
Walked(f) ==
  Walk(Range(f.scenario.flow),
       [k \in Questions |-> IF k \in Known(f) THEN Range(Info(f, k).follow) ELSE {}])

\* crossValidate finds no error.
crossValidate(f) ==
  /\ f.persona.default \in {f.scenario.key} \cup {s.key : s \in CurrentBodies(scenarios)}
  /\ \A k \in DOMAIN f.questions : Range(f.questions[k].follow) \subseteq Known(f)
  /\ f.scenario.persona \in {f.persona.key} \cup {p.key : p \in CurrentBodies(personas)}
  /\ f.scenario.flow # <<>>
  /\ Walked(f) \subseteq Known(f)
  /\ f.scenario.required \subseteq {Info(f, k).fact : k \in Walked(f)}

\* The group a body goes to: the one with the current version of its key, else an unused one.
Home(docs, key) ==
  LET current == {v \in Versions(docs) : At(docs, v).isCurrent /\ At(docs, v).body.key = key} IN
  IF current # {} THEN {v[1] : v \in current} ELSE {g \in DOMAIN docs : docs[g] = <<>>}

\* A version of its own for body b in group g, active at once.
Installed(docs, g, b) ==
  LET next == [docs EXCEPT ![g] = Append(@, Draft(b))] IN activate(next, g, Len(next[g]))

\* Nothing stands in the way of a new version in g: no open draft, and the bound.
Free(docs, g) == OpenDrafts(docs, g) = {} /\ Len(docs[g]) < MaxVersions[g]

\* The groups the persona and the scenario of a file can go to: a scenario keeps its persona.
PersonaHomes(f)  == {g \in Home(personas, f.persona.key) : Free(personas, g)}
ScenarioHomes(f) == {g \in Home(scenarios, f.scenario.key) :
  /\ Free(scenarios, g)
  /\ \A n \in DOMAIN scenarios[g] : scenarios[g][n].body.persona = f.scenario.persona}

\* The questions once those of the file are upserted: one that exists, retired or not, is updated.
Upserted(f) ==
  [k \in Questions |->
     IF k \notin DOMAIN f.questions THEN questions[k]
     ELSE [status |-> "active",
           body   |-> IF questions[k] = Nothing THEN f.questions[k]
                      ELSE Merged(questions[k].body, f.questions[k])]]

\* The follow-ups that questions of the file keep from the library, where the check saw none.
KeptFollowUps(f) ==
  UNION {Follow(k) : k \in {q \in DOMAIN f.questions \cap Walked(f) :
                              f.questions[q].follow = <<>> /\ questions[q] # Nothing}}

\* What the activation of a file stores: persona, questions and scenario in one transaction.
InstallFile(f) ==
  /\ \E g \in PersonaHomes(f) : personas' = Installed(personas, g, f.persona)
  /\ questions' = Upserted(f)
  /\ \E g \in ScenarioHomes(f) : scenarios' = Installed(scenarios, g, f.scenario)
  /\ UNCHANGED <<matrices, intake>>

\* activate: through the services' own checks, or the transaction is given up.
ApplyFile(f) == InstallFile(f) /\ validateForActivation(f.scenario)'

-------------------------------------------------------------------------------
(* The intake *)

\* afterPersona, prepareScenarioSelection: persona and scenario are read, the model is asked.
Prepare ==
  /\ intake.pc = "idle"
  /\ \E p \in CurrentBodies(personas), s \in CurrentBodies(scenarios) :
       /\ s.persona = p.key
       /\ intake' = [pc |-> "prepared", persona |-> p, scenario |-> s, content |-> Nothing]
  /\ UNCHANGED <<personas, scenarios, questions, matrices>>

\* Mutation: the missing questions are not looked for.
PinUnchecked ==
  /\ intake.pc = "prepared"
  /\ intake' = [intake EXCEPT !.pc = "pinned",
                  !.content = PinnedContent(intake.persona, intake.scenario)]
  /\ UNCHANGED <<personas, scenarios, questions, matrices>>

\* pinVersions in the committing transaction.
Pin ==
  /\ intake.pc = "prepared"
  /\ Pinnable(intake.persona, intake.scenario)
  /\ intake' = [intake EXCEPT !.pc = "pinned",
                  !.content = PinnedContent(intake.persona, intake.scenario)]
  /\ UNCHANGED <<personas, scenarios, questions, matrices>>

\* The content changed before it could be pinned, or the intake goes on; then the next one.
Leave ==
  /\ \/ intake.pc = "prepared" /\ ~Pinnable(intake.persona, intake.scenario)
     \/ intake.pc = "pinned"
  /\ intake' = NoIntake
  /\ UNCHANGED <<personas, scenarios, questions, matrices>>

Next ==
  \/ \E g \in PersonaGroups : EditPersona(g)
  \/ \E g \in ScenarioGroups : EditScenario(g)
  \/ \E k \in Questions : EditQuestion(k)
  \/ EditMatrix
  \/ \E f \in Files : ApplyFile(f)
  \/ Prepare \/ Pin \/ Leave

Spec == Init /\ [][Next]_vars

-------------------------------------------------------------------------------
(* Properties *)

\* Whatever order drafts, activations and deactivations come in, a group has at most one current
\* version, which is its one active version, and at most one open draft, which is its newest.
GroupsWellFormed ==
  \A docs \in {personas, scenarios} : \A g \in DOMAIN docs :
    /\ \A n \in DOMAIN docs[g] : docs[g][n].isCurrent <=> docs[g][n].status = "active"
    /\ \A m, n \in DOMAIN docs[g] :
         (docs[g][m].status # "deactivated" /\ m < n) =>
            docs[g][m].status = "active" /\ docs[g][n].status # "active"

\* Assessments keep ids and versions of personas and scenarios only: what was active once never
\* changes its body again, neither while it is active nor afterwards.
ActiveNeverEdited ==
  [][\A c \in {"persona", "scenario"} :
       LET old == IF c = "persona" THEN personas ELSE scenarios
           new == IF c = "persona" THEN personas' ELSE scenarios'
       IN \A v \in Versions(old) : At(old, v).status # "draft" =>
            /\ At(new, v).body = At(old, v).body
            /\ At(old, v).status = "deactivated" => At(new, v).status = "deactivated"]_vars

\* Questions are edited and retired between the selection of a scenario and its pinning: what is
\* pinned is still closed under the flow and the follow-ups, as the intake assumes (Branching).
PinnedIsConsistent == intake.pc = "pinned" => B!Consistent(intake.content)

\* The walk of the report agrees with the walk of the intake: when the report finds nothing wrong
\* with a persona, each of its scenarios can be pinned and every fact it requires be asked for.
\* (ReportOk leaves the conditions on rules and golden cases out: it holds more often.)
ReportMeansPinnable ==
  \A p \in CurrentBodies(personas), s \in CurrentBodies(scenarios) :
    (s.persona = p.key /\ ReportOk(p)) =>
      Pinnable(p, s) /\ s.required \subseteq FactsOf(questionMap(s.flow))

\* Scenario version v is live, has a persona and could carry an intake, given a matrix.
Serves(v) ==
  /\ v \in Current(scenarios)
  /\ LET s == At(scenarios, v).body IN
     \E p \in CurrentBodies(personas) :
        /\ p.key = s.persona
        /\ matrices = Matrices => Pinnable(p, s)
        /\ s.required \subseteq FactsOf(questionMap(s.flow))

\* A scenario that goes live can be pinned at that moment (given a matrix), follow-ups of
\* follow-ups included, and its required facts can all be asked for.
LiveMeansPinnable ==
  [][\A v \in UNION {{g} \X (1..MaxVersions[g]) : g \in ScenarioGroups} :
       (v \notin Current(scenarios) /\ v \in Current(scenarios)') => Serves(v)']_vars

\* crossValidate walks over the file before the library, the activation gate over the library that
\* holds the file, where a question of the file keeps the branch it had if its row has none.  As long
\* as those branches lead to active questions only, a file without an error that can be stored (its
\* persona and scenario have no open draft, the scenario keeps its persona) passes the gate: at the
\* moment the check would still find no error, its activation is not given up.
ValidFileActivates ==
  \A f \in Files :
    (/\ PersonaHomes(f) # {} /\ ScenarioHomes(f) # {}
     /\ crossValidate(f)
     /\ NamedFrom(KeptFollowUps(f), Upserted(f)) \subseteq ActiveIn(Upserted(f))) =>
      \A g \in PersonaHomes(f) :
        PassesGate(f.scenario, Installed(personas, g, f.persona), Upserted(f))

\* The comment at crossValidate: it mirrors what scenario activation will enforce, so a validated
\* dataset activates without surprises.  A branch kept from the library is such a surprise.
ActivatesWithoutSurprise ==
  \A f \in Files :
    (crossValidate(f) /\ ScenarioHomes(f) # {}) =>
      \A g \in PersonaHomes(f) :
        PassesGate(f.scenario, Installed(personas, g, f.persona), Upserted(f))

\* The comment at createDraft: `key` must be unique among current documents of the tenant.
KeyUniqueAmongCurrent ==
  \A v, w \in Current(personas) : At(personas, v).body.key = At(personas, w).body.key => v = w
===============================================================================
