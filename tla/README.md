# Formal verification of the risk-sense backend

This directory specifies the backend in TLA+, model-checks it with TLC on small instances and
proves the results that matter most with TLAPS. It is written from the code under `src/src`; paths
below are relative to that directory.

The backend serves bank staff (tenants) who describe a risk event to an assistant. A deterministic
intake asks pinned questions, a rule engine and a scoring matrix produce a recommendation, a human
decides, and everything is written to a hash-chained audit log. AI is used to *read* text (persona,
scenario, facts) and never to decide. Around that core stand versioned content, four-eyes approval
of rules and datasets, session and one-time-code handling, and nightly retention and conformance
jobs. Requests run concurrently on several stateless processes (a server, or warm serverless
functions) over one MongoDB with snapshot transactions and unique indexes.

## 1. Inventory

| component | state | operations | what is hard | what makes it correct |
|---|---|---|---|---|
| audit log `modules/audit` | one chain of entries per tenant; per-process promise map `tails` | `write`, `verify`, `archive`, query | writers on several processes, inside and outside transactions, race for the next `seq`; retry inside a transaction would split it | gapless chain, right hashes; evidence iff the mutation; the log only grows |
| transactions `lib/db.ts` | open transactions | `withMongoTransaction`, `createMongoReadinessGate` | replay of a whole unit of work, driver replays, crash, expiry; warm functions sharing one preparation | audited transactions of one tenant are serial; replays are bounded |
| assessment `modules/assessments/service.ts` | one document: status, phase, persona, pinned content, queue, facts, result, decision | `start`, `setPersona`, `answer`, `submit`, `decide` | snapshot, then AI call, then transaction: tabs, retries and reviewers interleave in between | no stale work reaches the document; closed is final; pinned once |
| conversation flow `branching.ts` | queue, asked keys | `nextQuestion`, `applyBranch`, `missingRequired`, `advance` | gates, follow-ups, re-asking of required facts, side facts | nothing skipped, an asked question left its fact, every answer with a value brings the end nearer |
| content pinning `content.ts` | pinned versions and questions | `pinVersions`, `restorePinnedQuestions` | questions are edited in place while they are pinned | what is pinned is complete and never changes |
| reconstruction `reconstruct.ts` | none (a fold of the log) | `reconstruct` | reduced audits, early returns that audit separately | the log reproduces the document |
| sessions `modules/auth/service.ts` | session rows with a slot, unique per user | login, supersede or block, `touch`, terminate | two logins racing for a slot; `touch` saving over a termination; the account changing under an exchange | at most the limit open; an ended session stays ended; the right factor behind every request |
| one-time codes `otp.service.ts` | codes, issue lock with a lifetime, attempts | issue, verify | verify inside the login transaction; the lock may expire before its owner is done | a code works once; attempts are never lost |
| rate limits `rate-limits/store.ts` | a counter per key and window | increment, reset | two processes create the counter of a key | the limit holds across processes |
| versioned content `lib/versioned.ts` with personas, scenarios, questions | version groups, one current version; questions edited in place | draft, edit, activate, deactivate, upload | copy on write, two groups with one key, four pieces of code that walk a flow | what goes live can be pinned; active versions never change |
| rules `modules/rules` | rule versions with author, approver and status | create, edit, approve, activate, retire; engine | four eyes over chains of edits, sheets merged into open drafts; the order of rules | a live rule was approved as it is by somebody else; the class depends on no order |
| rule migration `rules/migration.ts` | legacy indexes and rows | inspect, backfill, build, drop | killed and concurrent runs, two releases writing | always a unique index on the key; a run can be repeated |
| scoring `modules/scoring` | versions of scoring matrices | create, patch, approve, activate, simulate | rounding, patches that skip the refinements | exactly one class per score; four eyes |
| datasets `modules/datasets` | uploads with approval and failure records | upload, approve, activate | one-transaction activation merging into drafts; failure recorded in a second one | applied once or not at all; a file the check passes also passes the gate |
| retention, conformance, nightly jobs | flags, archives, last run day | flag, enforce, repair, scan, schedule | timer and cron route run the same job; reads outside the transaction; midnight, crashes | enforced whole, once and, unless one cannot be repaired, eventually; flags converge |
| tenants, sectors, directory | plan, sectors, domain; accounts and their identities | patch a tenant, create and change accounts, sign up, bind | requests authenticated before a demotion; reference against removal; two identities for one address | roles fit the plan; no stranded sector; an account keeps its identity |
| access control, public demo scope, reports | a cache of reports | list, open, decide, escalate, report | two pieces of code for one scope, stale callers, a cache shared between callers | the list shows what opens; no report shows more |
| health, DR evidence, AI provider, support libraries, scripts | little or none | queries, wiring | - | - |

How they interact: every mutation runs inside `withMongoTransaction` and calls `audit.write` in it;
`assessments` pins content of `versioned` libraries and rules, calls the AI provider before its
transaction and stores what the engine and the matrix computed; `reconstruct` reads the log back;
logins join the one-time code and the session in one transaction; role changes end sessions;
datasets create and activate content, matrices and rules; the jobs enforce retention on assessments
and their log entries; reports read assessments within the scope that also decides who opens them.
`PROJECT.json` lists the components with what is modelled of each, and the hazards with their lines.

## 2. Modules

Order of the work: the audit log first, since every other operation relies on it; then the
assessment, the core of the product; then the components with the hardest concurrency; then the
content the assessment runs on, and administration.

| module | models | composes / refines | state |
|---|---|---|---|
| `AuditLog` | the promise of the audit log | - | refined by `AuditChain` |
| `AuditChain` | `audit/service.ts`, `lib/db.ts` | refines `AuditLog` | checked and proved |
| `Branching`, `Assessment` | `branching.ts`, `assessments/service.ts`, `reconstruct.ts` | each transaction one step, by `AuditChain` | checked and proved |
| `Sessions` | `auth/service.ts`, `auth/routes.ts`, `middleware/auth.ts` | the login exchange over the serial transactions of `AuditChain` | checked and proved |
| `VersionedContent` | `lib/versioned.ts` | operators, used by the next two | checked and proved through them |
| `Library` | personas, scenarios, questions, `content.ts`, `content-verify.ts`, uploads | instantiates `Branching`: what it pins is `Consistent`, the assumption of `Assessment` | checked and proved |
| `Conditions`, `Scoring` | `shared/conditions.ts`, `modules/scoring`, `rules/engine.ts` | `VersionedContent` with matrices as bodies | checked and proved |
| `FourEyes` | the promise of change control | - | refined by `ChangeControl` |
| `ChangeControl` | `rules/service.ts`, `datasets/service.ts` | refines `FourEyes` | checked and proved |
| `RuleMigration` | `rules/migration.ts`, `rules/indexes.ts` | the operations of `ChangeControl` in small, next to the script | checked, all safety properties proved |
| `Nightly` | `retention`, `conformance`, `jobs` | - | checked, the safety property proved |
| `Tenants` | `tenants`, `system`, `users`, sector checks of `datasets` | - | checked and proved |
| `Access` | scope checks of `assessments`, `public-demo-scope.ts`, `reports` | - | checked and proved |

Each component has one module, an `MC...` module with the small sets of its instance, a `.cfg` and a
`...Proofs` module. `Tenants`, `Nightly` and `RuleMigration` share `AdministrationProofs`, which extends
all three; that is why two of them call their specification `TenantsSpec` and `MigrationSpec`. Transactions of one tenant are single actions in all
modules but `AuditChain`, since each writes an audit entry and `TransactionsAreSerial` holds;
what the code reads before or outside its transaction is an action of its own.

The most useful work that is left: the issue lock and the attempts of one-time codes, and the
readiness gate (section 10).

## 3. The audit chain

`AuditLog` is the promise: a log to which one request at a time appends its whole batch of entries,
once or never. `AuditChain` is `audit.write` and `withMongoTransaction`, and implements it
(`ImplementsAuditLog`).

| code | model |
|---|---|
| `AuditLogModel` rows of a tenant, committed | `log`; the unique index is `Taken`, and `Held` for uncommitted rows of other transactions |
| a MongoDB session with its snapshot and writes | `open`, `snap[r]`, `mine[r]` |
| the promise chain `tails` of a process | `tail[i]`, the running call first; `Release` when it settles |
| `last`, `seq`, `prevHash` in `run` | `cand[r]`; read in `ReadLast`, used in the inserts: two steps, so that others act in between |
| attempts in `audit.write`, attempts in `withMongoTransaction` | `attempt[r]`, `replay[r]` |
| driver callbacks, transient errors, duplicate keys | `Begin`, `ReadFails`, `LoseTransient`, `Collide`, `Duplicate`, `Commit` |
| a process dies; the server ends an idle transaction | `Crash`, `Expire` |

MongoDB is external and modelled by what the code relies on: a transaction reads its snapshot and
its own writes, an insert that meets a committed row with its key fails as a duplicate (or as a
write conflict, when it was committed after the snapshot), one that meets an uncommitted row of
another transaction fails in a transaction and waits outside one. SHA-256 is ideal: `HashOf`
appends to the history it commits to, so equal digests mean equal histories.

What goes wrong if the code were different is not obvious. `Transaction A inserts entry n, a lone
write of the same process prepares n too` is possible, since the promise settles at the insert
and not at the commit (`NoRaceOnOneInstance` is violated, see section 9). The lone write then waits
in the server for A, and A's next `audit.write` is chained behind it: nobody moves until the server
ends the transaction. `Expire` is enabled for that situation (`Stalled`) and for a transaction whose
process died, and nowhere else; without it `EverySettles` fails.

The unique `seq` gives more than a chain. Two audited transactions of one tenant that read the same
snapshot prepare the same next number, so only one commits: snapshot isolation becomes serial
execution for everything that audits. `CommitsOnCurrentSnapshot` states it; the other modules take
an audited transaction as one atomic step because of it.

## 4. The assessment

`Branching` holds the pure functions, under the names they have in the code. `Assessment` holds
the handlers. A handler that calls the AI is two actions: `Prepare...` reads and checks a snapshot
and remembers it in `task[r]`, and the second action is the transaction with its second checks; any
other request may act in between. The AI's answer is chosen in the second action, which is the
same as choosing it earlier because nothing reads it before. `decide` reads nothing before its
transaction and is one action. `GiveUp` stands for every end without effect: a conflict, a
validation error, a failed AI call, a crash before the commit.

| code | model |
|---|---|
| `status`, `phase`, `personaKey`, `personaSource`, `openingText` | `status`, `phase`, `persona`, `source`, `opening` |
| `scenarioId`, `versions`, `pinnedContent` | `content`, one record with all that is pinned |
| `queue`, `askedQuestionKeys`, `currentQuestionKey`, `pendingClarification` | `queue`, `asked` (how often a key is in the array), `current`, `clarifying` |
| `facts` | `facts[k]`: value, source and the question that produced it |
| `recommendation`, `decision` | `result`: the facts it was computed from, score 0 or not, a rule or not; `decision` |
| audit entries of the assessment | `trail`: the state the fold of `reconstruct` has reached after them |
| `start`, `setPersona`, `answer`, `submit`, `decide` | `StartAs`, `StartInferred`; `PreparePersona`, `SetPersona`; `PrepareDescribe`, `Describe`, `PrepareAnswer`, `AnswerStructured`, `AnswerText`, `Clarify`; `PrepareSubmit`, `Submit`; `Decide` |

What `pinVersions` can find is the constant `Contents`. It is any set of pinned contents for which
`Consistent` holds, which is what `Library` shows of pinning (`PinnedIsConsistent`). In particular a
content may require a fact none of its questions produces, because questions are edited in place
after activation.

Fact values are classes: equal or not equal to a trigger or gate, and the empty string, which is a
recorded value that still counts as missing. A blank answer to a required fact is therefore asked
for again, and nothing limits how often: the re-ask takes the key out of `askedQuestionKeys`
(`AskAgain`), which is where it counts. What does bring the intake to its end is an answer with a value:
it settles one of the pinned questions and unsettles none (`AnswersMakeProgress`). Left out: messages, timestamps, confidence figures,
masking, the numbers behind the score (module `Scoring`); who may see and decide is `Access`. None
of them is read by a guard that is modelled.

## 5. The other components

### 5.0 Sessions and the login exchange

`Sessions` is one account: the exchanges that log in, the requests that carry a session id, and the
administrators who change the account or its tenant meanwhile.

| code | model |
|---|---|
| session rows, `terminatedAt`, `terminationReason` | `sessions[l]`, named by the exchange that opened it; `state` is `none`, `open` or the reason |
| `slot`, `lastSeenAt`, `expiresAt`, `absoluteExpiresAt`, `loginAssurance.method` | `slot`, `seen`, `expires`, `until` (`Never` when there is none), `method` |
| the user and tenant rows `authenticate` reads | `account`; an exchange and a request keep the copy they read in `as` |
| one-time codes | `codes[c]`: unsent, active, superseded, used |
| `POST /auth/session`, the public demo login | `Authenticate`, then `Begin` (snapshot, `verify`), then `Open`, `Block`, `Replay` or `Fail`; `RefuseCode` for a wrong code |
| a request: `authenticate`, `touch` | `Arrive`, `Read`, then `RejectEnded`, `Expire`, `RejectUnassured` or `Accept`; `Logout` or `Answer` |
| `updateUser`, `reconcileMongoUser`, `PATCH /system/tenant` | `ChangeUser`, `Promote`, `ChangeTenant` |

The transaction of an exchange decides on its snapshot `snap[l]` and commits later. What it may have
missed is `moved[l]`: sessions that `touch` saved, and `AuditLog` for any audited commit. It commits
(`Commits`) only if no audited commit came in between, which is what section 3 proves of audited
transactions of one tenant, and if none of the sessions it ends was saved since, which is MongoDB's
write conflict. `terminate`, `terminateAllForUser`, `updateUser` and the tenant update are audited
transactions on the current state for the same reason and are one action each. `touch` is not: it
reads, and saves later without a condition, outside any transaction, so `Read` and `Accept` are two
actions and the save goes through whatever became of the session. That is why `EndedOnce` is not
obvious (the save must leave `terminatedAt` alone) and `TouchOnlyExtends` fails.

Each check of the time takes any value between the last read and now, as processes are slow. `create`
looks twice when it makes room, the second time at a later time (`Late`). The catch of the slot's
unique index never runs in the model: `LimitHolds` proves that the slot chosen on the snapshot is free
when the transaction commits.

Left out: the development bypass, the flag that switches public demo access off (taken as on), the
expiry and the attempts of codes, the identity link (`Tenants` has it), the bound on replays
(section 3), the promise chain `creationTails` (it only removes interleavings on one process), the
deletion of rows a day after their expiry, and changes of `maxConcurrentSessions` and the idle timeout
(constants). `lastSeenAt` ties are broken either way.

### 5.1 The content library

`VersionedContent` has the operations of `lib/versioned.ts` as operators on a collection: groups of
versions, `createDraft`, `updateAsNewVersion` (a draft in place, an active version by copy),
`activate`, `deactivate`. `Library` uses them for personas and scenarios, edits questions in place
as `questions/service.ts` does, applies uploads, and lets an intake read a persona and a scenario
(`Prepare`) and pin them later (`Pin`), when the library may be another one.

| code | model |
|---|---|
| `personasService`, `scenariosService` | `EditPersona`, `EditScenario`; the activation gate is `validateForActivation` |
| `questionsService` | `EditQuestion`; an update is merged into the question (`Merged`) |
| `crossValidate`, `activate` of a dataset | `crossValidate`, `Upserted` and `InstallFile` (what an upload stores), `ApplyFile` (with the gate) |
| `verifyTenant`, `verifyContentSnapshot` | `ReportOk` |
| `prepareScenarioSelection`, `pinVersions` | `Prepare`, `Pin`, `Leave` |

Four pieces of code walk the questions of a flow: the gate, the report, the check of an upload and
pinning. They differ (one stops at a missing key, one skips retired questions, one looks into the
file first), and the properties say where the differences do not matter. They matter in one place: an
edit and an upload *merge* into a question that exists, so that a question of a file whose row has no
branch keeps the one it had. The check of the upload walks the file and sees no branch there, the gate
walks the library and follows it (`KeptFollowUps`). `ValidFileActivates` names those follow-ups in its
hypothesis, and `UploadSurprise.cfg` shows what happens without it. What the four walks share is `Walk`:
from a set of keys along the follow-ups of each, as often as there are questions, which is until nothing
new is found. `PinnedIsConsistent` is the
assumption `Assessment` makes of its contents, so the two modules fit together.

### 5.2 Scoring and rules

`Scoring` is the life of a matrix (`MatrixBody` on creation, `MatrixPatch` without its refinements
afterwards, approval, activation, the sheet of a dataset) and what `compute.ts` makes of it. A score
is a fraction, added up in the order of the factors (`Total`), so that rounding is exact, and the division by
an empty scale gives an infinity or NaN, as in JavaScript. `Conditions` has the comparisons of
`shared/conditions.ts` with `normalizeValue`: `"yes"`, `"5"` and their kind stand for other values. A
condition is the list of the nodes of its tree, a group after the nodes it groups, so that any nesting
is a sequence and `matches` goes over it once. `evaluate` sorts as the engine does: stable, so
that the order the rules come in could matter.

### 5.3 Change control

`FourEyes` is the promise: for each key there is a piece of content in effect or none, and one that
was reviewed and waits or none; a piece is what one person wrote and another reviewed, and goes into
effect as it is; a change takes the review back; a batch is reviewed and goes into effect as a whole,
once, or is given up. It knows no versions, statuses, requests or failures.

`ChangeControl` is one rule key per version group, with drafts, approvals and activations, and the
datasets whose sheets create or replace rules. A sheet has a trigger, a class and a priority
(`Sheets`); what it lacks, `forcedAction` and `sectors`, is `Extras`. Activation of a dataset loads it
(`Load`), then applies all of it in one transaction that looks again (`Apply`), or fails (`Abort`)
and records that in a second one (`RecordFailure`); processes die in between. `applied` and
`vouched` are history: how often content was applied, and what a person approved.

`ImplementsFourEyes` maps the active version of a rule to the piece in effect, the approved one to the
piece that waits, and an approved dataset to a reviewed batch. An approval is then `Review`, an
edit of an approved version `Withdraw`, an activation `Release`, a retirement `Retire` or `Withdraw`, the
transaction of a dataset `ReleaseBatch` and the record of a failure `CloseBatch`; drafts, loads,
rollbacks and crashes are stutters. `extra` is not part of a piece: what a sheet does to it is the
divergence `ExtrasReviewed.cfg` shows (section 9).

### 5.4 The rule migration

`RuleMigration` is the script `migrate-rule-versions.ts` at the grain of its steps: inspection and
plan, the backfill transaction with the filters of its updates, inspection, index builds one by one,
inspection, drop, inspection. Next to it write the application with versions (`App...`) and the
release before it (`Legacy...`), which knows no versions and is shut down one day. `Fits` says
whether a unique index admits a collection; a write goes through when all existing indexes do.

### 5.5 The nightly work

`Nightly` is the retention run and the conformance scan of a tenant, started by the timer, the cron
route or a person, so that runs overlap and last past midnight. A run takes its time and the tenant's
plan when it starts (any plan, as an administrator may change it between two runs) and its candidates
outside of transactions; `Flag`, `Enforce` and `Report` look again. Days are counted as ages: `age` and `flagged` of a record grow at midnight, and a cutoff of n
days taken `lag` midnights ago asks for n + `lag`. The initial records include what earlier releases
left: closed without a decision, a result too early, and half enforced. A half-enforced record
(`HalfEnforced`) is marked as enforced and not as recorded; of the four further things an enforcement
does (content gone, transcript gone, cold copy there, entry there) any may be done or not
(`Leftovers`), as the repair in the code and its test (`retention.test.ts:158-182`) expect. The repair
completes what is left, with one exception: for an archived record whose cold copy is missing it throws
(`ColdCopyMissing`), and the run of the tenant ends at that record (`StopAtMissing`), while the scan goes on.

### 5.6 Tenants, accounts and sectors

`Tenants` has the settings of tenants, their accounts, the identities bound to them, and the content
and datasets that name a sector. `Authenticate` remembers who sent a request and the domains of other
tenants it will see; the action that follows checks everything else on the current state. A login
resolves its account (`Resolve`, `SelfSignup`) and binds it later (`Finalize`). An upload is checked
(`Preflight`), stored (`Store`), approved and activated, each on the sectors of its time.

### 5.7 Access and reports

`Access` has the accounts with role, departments and cross-department right, the plan's features, the
assessments with owner, department, visitor and reviewer, and the cache of reports. A caller is a
copy of an account and the features, with the tag of a sandbox session; a decision keeps that copy
until its transaction. Demo accounts are shared by visitors, who are told apart by the tag only. They are changed
like any other account: what `system/routes.ts:49` and `directory.service.ts:150-157` protect, the role
and the disabling, is protected from requests of sandbox sessions, and departments and the
cross-department right are not protected at all. An account is a demo account while it has the role of its
demo identity (`IsDemo`, the code's `isPublicDemoAccount`); one that lost it is an ordinary account, and
a cached report may outlive the change.

## 6. Runs

Deadlock is checked in `library`, `nightly`, `tenants` and `access`. The other runs turn it off because the
system does stop there: every request settles, an assessment is closed, all exchanges are answered,
all versions a bound allows are retired, the migration is done.

**`audit_chain`** (`MCAuditChain`, 15 883 distinct states). Two processes; a submit that writes two
entries in one transaction, a decision that writes one, and two lone writes, spread so that each
process has a transaction and a lone write. `MaxAttempts` is 2 (3 in the code) and `MaxReplays` 2 (4
in the code): one retry and its exhaustion are reached, and a further retry repeats the same step
from the same situation. Two entries are the least that leave a transaction between two inserts.
The run shows five properties: the chain verifies; a request has entries iff it reported
success; transactions commit on the state they saw; the log refines `AuditLog`; all requests
settle.

**`assessment`** (`MCAssessment`, 503 274 distinct states). Two requests under way at a time, which
is enough for every pair of snapshot and transaction to overlap; more requests only add readers of
the same snapshot. Requests are interchangeable and declared symmetric (the run has no liveness
property). Four contents of at most three questions: a flow with a gate, a branch and a required
fact only a gated question produces; the same after an in-place edit took that producer away; a flow
whose only node is gated; and two questions that produce the same fact, one of free text. At most one
side fact per free answer: a second one is the same step on another key. The properties:

- `RecommendationFitsFacts`: the stored recommendation rests on the facts of the document and all
  required ones, although it was computed before the transaction.
- `ClosedIsFinal`: nothing a late request carries changes a closed assessment.
- `ReconstructionAgrees`: folding the audit entries gives persona, scenario, score, last decision
  and, on a plan with full audit, the facts.
- `AskedLeavesFact`, `NothingSkipped`: the intake neither loses nor skips a question, through
  branches, side facts, clarifications and second asks. That no required fact is missing at the end is
  due to the re-ask having no limit, which the comments of the code contradict (section 9).
- `AnswersMakeProgress`: an answer that records a value settles its question and unsettles no other,
  although `advance` may put a question that was asked back to be asked again.
- `ClickedFactsSurvive`: what the user clicked is replaced only by an answer to the pending question
  of the same fact, never by a guess of the model.
- `ScenarioFitsChosenPersona`, `PinnedForGood`: the scenario belongs to the confirmed persona,
  whatever tabs raced, and once questions have begun nothing is pinned again.

**`sessions`** (`MCSessions`, 484 866 distinct states). Two exchanges, one request at a time, two
codes, one change of the account among six states: free and paid, requestor and auditor, with and
without `blockConcurrentLogin`, a public demo identity, a disabled user. `Max` is 1 and `DemoMax` 2, so
that two exchanges fill either; the idle timeout of 2 is below the lifetime of 3 and the clock reaches
both. Two exchanges are the least that race for a place or a code. The properties:

- `WithinLimit`: no two open sessions share a slot and each slot is below the limit of its kind, whatever
  two exchanges saw when they chose.
- `CodeOpensOneSession`: a code is used up exactly when it opened a session, and by one exchange only,
  although a blocked, failed or replayed exchange has verified it before.
- `AcceptedWithOwnFactor`: behind each accepted request of a managed role stands a session whose own
  exchange consumed a code, and of a demo account a demo session, whatever the account was before.
- `BlockedLoginSparesLive`: with the concurrency block an exchange ends no session that is live and
  sufficient, also when a request extended it after the exchange took its snapshot.
- `EndedOnce`: nothing reopens an ended session or ends it again.

Exchanges, requests and codes are interchangeable and declared symmetric.

**`library`** (`MCLibrary`, 670 236 distinct states). One persona in two versions, one scenario in three,
three questions with a chain of two follow-ups and other bodies to edit them to, four uploads, an
intake. Two is the least depth for which following a branch once is not enough, and three versions
let a draft stand beside an active and a deactivated one. The properties:

- `PinnedIsConsistent`: what an intake pins is closed under flow and follow-ups, whatever was edited
  since it selected the scenario.
- `ReportMeansPinnable`: when the release report finds nothing wrong, every scenario can be pinned and
  every required fact be asked for.
- `LiveMeansPinnable`: a scenario that goes live, by hand or by an upload, can be pinned at that moment.
- `ValidFileActivates`: in every state, a file that can be stored and in which the check of the upload finds
  no error there and then also passes the gate in the library that holds it, provided the branches its
  questions keep from the library lead to active questions only.

**`scoring`** (`MCScoring`, 6 109 distinct states). One matrix in two versions, two factors on scales of
different width, three classes, scores up to 10 instead of 100, four tables of factors (one with an
empty scale, one with weights that do not reach the top and values off the scale), three of thresholds
(one with a gap, one that ends early), three administrators, three rules of which two share a
priority, seven sets of facts with several spellings. The properties:

- `MatrixFourEyes`: an active matrix was approved, as it is, by somebody else than its author.
- `RefinedIsExact`: for a body `MatrixBody` accepts, each reading of the factors gives a number within
  the range before any clamping, and exactly one class.
- `ResultIsDetermined`: the result is the same for every order of the rules; only a score of 0 without
  a rule needs review; complete clicked facts are never sent on for want of confidence; more facts, or
  the same ones spelled otherwise, take no rule back.

**`change_control`** (`MCChangeControl`, 129 194 distinct states). One rule in two versions, one
dataset, two activation requests, three administrators (the author, the approver and a third who
edits in between). `ImplementsFourEyes`: every step is one `FourEyes` allows, so that whatever edits,
approvals, sheets and activations follow each other, what takes effect was reviewed as it is by
somebody else than its author, and no live version is edited in place. `AppliedIffActive`: the content
of a dataset was applied once if it is active and not at all otherwise.

**`nightly`** (`MCNightly`, 286 512 distinct states). Two records, the timer and one other run, a window and
a grace period of a day each, runs that last past one midnight, one fault. One record is new, or breaks
the schema; the other was left half enforced, in one of five states: only marked, as reduced or as
archived, the latter with its cold copy or without; marked and emptied with its entry; emptied but for
the transcript. Records influence each other only through a run that ends at one of them, for which two suffice.
`EnforcedWholeAndOnce`: one entry, content and transcript gone together, the cold copy of an archived
record whole. `FlagsConverge`: in the end exactly the invalid records carry an open flag.
`ClosedIsEnforced`: each closed record is enforced in the end, unless the tenant has a record that cannot
be repaired; section 9 says what happens then.

**`tenants`** (`MCTenants`, 217 166 distinct states). One tenant, one administrator and a second
address that is invited or signs up, four requests, two identities, two sectors, one document, one
dataset. Four requests are enough for two administrators to act on each other while the plan changes
and a third request, older than all of it, still waits.
`RolesFitPlan`, `NoStrandedSector` and `BoundOnce` as in their comments.

**`rule_migration`** (`MCRuleMigration`, 531 804 distinct states). Two keys, two rule documents (a
second version or a second key), two runs of the script, one crash. `Protected`: the old unique index
or all its replacements exist at all times. `BackfilledTruthfully`: a row becomes current by the
migration exactly when it is active at that moment. `Resumable`: if the collection stays in a state
the preflight accepts, the migration completes.

**`access`** (`MCAccess`, 1 742 112 distinct states). One assessment, one department, one member with
four possible accounts and one with two, a guest requestor with three (department and
cross-department right change), a guest auditor who may lose his role, two visitors, one decision
under way, one cached report. `ListShowsWhatOpens`: the query of the list and the check of one assessment agree
for every caller. `ReportsStayInScope`: a report out of the cache holds nothing its reader would not
count himself. `RoutedWithinReach`: whoever an assessment is routed to is an active requestor who
reaches it at that moment, and not the one who routes it.

`zero_score_accepted` and `key_unique` are expected violations (section 9). Where a run declares no
symmetry its constants are few or it has liveness properties.

Further configurations, to be run by hand: `SessionsRoom.cfg` (`MCSessions`, three exchanges for two
places, 649 846 distinct states) passes `WithinLimit` and `EvictsOnlyForRoom` (nothing is superseded
without need); `LibraryVersions.cfg` (`MCLibrary`, 670 236 distinct states) passes `GroupsWellFormed`
(one current version, which is the active one, and one open draft per group) and `ActiveNeverEdited`;
`MigrationFinal.cfg` (`MCRuleMigration`, three rows, so that a version, its successor and a second key fit,
1 858 260 distinct states) passes `MigratedForGood` (once migrated and without the old application, the
collection stays migrated).
The others violate their property; section 9 lists them.

Every property of the passing runs has a mutant in `PROJECT.json`: a plausible slip in one
definition (a dropped re-check, a write that does not join its transaction, a missing release, an
off-by-one bound) that TLC must catch. The mutated forms stand in the modules before the definition
they replace, marked `Mutation`.

**Fairness.** `EverySettles`: `Progress(r)` is weakly fair (a process runs its event loop and the
server answers), and so is `Expire(r)` (the server ends a transaction past its lifetime, 60 s by
default). `FlagsConverge` and `ClosedIsEnforced`: days pass, the timer starts its run on some day on
which it has not run (`scheduler.ts` looks every few minutes, and marks the day in the process), and
a run that has started goes on; the cron route and people may never call, and crashes and failed
transactions are bounded by `MaxFaults`, as no job can promise anything when every attempt fails.
`Resumable`: the old release is shut down some day and the operator calls the script again until it
succeeds; crashes are bounded. The other modules state no liveness: nothing obliges a user to answer
or to send a request. Only `AskedWithoutEnd.cfg` supposes one who does (`AnsweringSpec`: a requestor goes on
answering and is answered), to show that even then the intake need not end.

## 7. Proofs

`AuditChainProofs` proves, for every set of processes and requests, every assignment of requests to
processes, every number of writes per transaction and every retry limit (`ConstantsOK` is the only
assumption):

| theorem | property |
|---|---|
| `TypeCorrect` | `TypeOK`, with both retry counters below their limits |
| `ChainAlwaysVerifies` | `ChainVerifies` |
| `TransactionsAreSerial` | `CommitsOnCurrentSnapshot` |
| `EvidenceAlwaysMatches` | `EvidenceMatchesOutcome` |
| `ChainImplementsLog` | `ImplementsAuditLog` |

`ChainVerifies` is not inductive: it says nothing of entries not yet committed. The invariant `Inv`
adds what the next commit will rest on:

- `Running`: the write that has read the newest entry is the one its process runs;
- `Holding`: where a request may be while its transaction is open, and that a closed one holds nothing;
- `Views`: what an open transaction sees, its snapshot with its own inserts, is itself a verified
  chain, and a transaction that has inserted anything sees the whole log;
- `Candidates`: a prepared entry follows what its request saw; outside a transaction that may be
  stale, and then its number is taken;
- `OneHolder`: at most one open transaction has uncommitted entries. This is where the unique index
  enters: an insert passes only when the number is neither taken nor held, and a number that is
  neither extends the longest chain there is.

A commit by the one holder therefore appends a verified chain to the log its snapshot ends with, which
gives the chain, the serial commits and the refinement step of `AuditLog` at once; every other step
is a stutter of the abstract log or its lone `Record`. The proof has one lemma per action and a
`QED` by case analysis of `Next`.

`AssessmentProofs` proves `TypeOK` and every property of the `assessment` run for every set of requests, personas,
questions, facts and values and for every set of contents that passes pinning (`BranchingOK`,
`AssessmentOK`: the marker `Nothing` is none of the values, and the contents are consistent):

| theorem | property |
|---|---|
| `TypeCorrect` | `TypeOK` |
| `RecommendationAlwaysFits` | `RecommendationFitsFacts` |
| `SaveIsNeverRefused` | `SaveNeverRefused` (no run lists it): the model's pre-validate hook never fails a transaction |
| `AskedAlwaysLeavesFact`, `NothingIsSkipped` | `AskedLeavesFact`, `NothingSkipped` |
| `AnswersAlwaysMakeProgress` | `AnswersMakeProgress` |
| `ReconstructionAlwaysAgrees` | `ReconstructionAgrees` |
| `ScenarioAlwaysFits`, `PinnedStaysPinned` | `ScenarioFitsChosenPersona`, `PinnedForGood` |
| `ClosedStaysClosed` | `ClosedIsFinal` |
| `ClickedFactsAlwaysSurvive` | `ClickedFactsSurvive` |

The proof has two halves. The first is about the functions of `Branching`: `AdvanceCases` (the three
ways `advance` goes), `AdvanceKeeps` (no question without a gate is lost), `AdvanceEnds` (when it ends
the intake no pinned question can produce what is missing) and `BranchKeeps`. The least askable
position exists by well-foundedness of the numbers; `Kept` is a recursive function whose existence and
type are proved by a least counterexample (`KeptType`). `AdvanceReAsks` says of a question that is asked again that its
fact is missing or blank, so it was not settled before, and `SettleProgress` that an answer with a value
takes its question out of `Unsettled` and puts nothing in. Hence, whatever the flow, at most as many such
answers follow each other as there are pinned questions. The second is the invariant `Inv`, which adds
to the properties what they rest on:

- `Fresh`: before the questions phase nothing is asked and no fact is known, so that a scenario may be
  pinned anew without leaving anything behind;
- `Chosen`: outside the persona phase the persona is the requestor's, and questions imply content;
- `Waiting`: each ungated question of the flow is asked, pending or waiting. `NothingSkipped` is its
  instance at the end of the intake;
- `Prepared`: a submit under way has read facts and required facts that the document still holds. It
  is inductive because facts change only before the intake ends, and the intake never reopens: that
  is the reason the second check in the transaction of `submit` may look at the status alone.

`SessionsProofs` proves `TypeOK`, `ExpiryWithinLifetime` and every property of the `sessions` run, for every number of exchanges,
requests and codes, every limit, timeout and lifetime (`SessionsOK`: finitely many exchanges, positive
limits, a demo idle timeout no longer than the tenant's and the lifetime):

| theorem | property |
|---|---|
| `TypeCorrect` | `TypeOK` |
| `LimitHolds` | `WithinLimit` |
| `OneSessionPerCode` | `CodeOpensOneSession` |
| `OwnFactor` | `AcceptedWithOwnFactor` |
| `ExpiryCapped` | `ExpiryWithinLifetime` |
| `EndsOnce` | `EndedOnce` |
| `BlockedSpares` | `BlockedLoginSparesLive` |
| `EvictsNoMoreThanNeeded` | `EvictsOnlyForRoom` |

`WithinLimit` is not inductive: an exchange chooses its slot on a snapshot. `IInv` adds

- `SnapshotFresh`: while no audited commit has been missed, the snapshot shows each session with its
  present state, slot, method and end, and exactly as it is unless `touch` saved it since; and the code
  is still the active one;
- `CodeIffFactor`, `OpenedByExchange`: a session exists once its exchange is done, and has a code
  exactly when its method is the one-time code;
- `CallsAreOnSessions`: a request holds a session that was opened, with its true method and end, and an
  accepted one was assured for the account it read.

`Frame` collects what every step but `Open` does to the sessions (at most ends some, or moves an expiry
within its end); `FrameKeeps` does the rest for all of them at once, and `OpenStep` is the one long
lemma: the open sessions after the commit are those kept on the snapshot plus the new one.
`EvictsNoMoreThanNeeded` counts instead: `create` sorts by age and ends the oldest sessions until one place
is free, so as soon as it ends one that is live and sufficient, those it keeps fill all places but one
(`KeptFillTheLimit`). The snapshot may be older than the sessions, so the same is shown of the
sessions at the commit (`OpenEvicts`).

`ChangeControlProofs` proves both properties of its run, and three more, for any sets and bounds
(`ChangeControlOK`):

| theorem | property |
|---|---|
| `ChangeControlImplementsFourEyes` | `ImplementsFourEyes` |
| `AlwaysLiveRuleReviewed` | `LiveRuleReviewed`: a live rule carries the approval of somebody else than its author, of what it says |
| `AlwaysAppliedIffActive` | `AppliedIffActive` |
| `AlwaysOneLiveOneOpen` | at most one version of a rule is live, at most one open |
| `AlwaysLiveUntilReplaced` | only a retirement takes a rule out of effect |

The invariant `Sane` is about the versions of one rule: approved and live ones carry a foreign
approval of what they say, at most one is open, at most one live. Each operation (`Created`,
`Updated`, `Approved`, `Activated`) is shown to preserve it, a sheet is composed of them, and the
action lemmas only say which operation they perform. `SaneUpload` adds what the four eyes of a sheet
rest on: a dataset that was approved has a reviewer other than its author.

The refinement rests on the same invariant. For each operation on the versions of a rule a lemma
(`UpdatedPieces`, `ApprovedPieces`, `ActivatedPieces`, `RetiredPieces`, `SheetAppliedPieces`) says which pieces are in
effect and wait afterwards; that there is one open version at most is why an approval finds nothing
waiting, and why an activation leaves nothing behind. `OneRulesStep` turns such a change into an action of
`FourEyes`, and `ApplyPromise` does it for all rules of a dataset at once.

`LibraryProofs` proves the properties of the `library` run and of `LibraryVersions.cfg`, for any personas, scenarios,
questions and uploads, flows of any length and follow-ups of any depth:

| theorem | property |
|---|---|
| `TypeCorrect` | `TypeInv` |
| `PinnedContentIsConsistent` | `PinnedIsConsistent` |
| `ReportIsTrustworthy` | `ReportMeansPinnable` |
| `LiveScenariosCanBePinned` | `LiveMeansPinnable` |
| `CheckedFilesPassTheGate` | `ValidFileActivates` |
| `CheckedFilesAreApplied` | a step that stores a checked file is its whole activation |
| `GroupsStayWellFormed`, `ActiveVersionsAreSealed` | `GroupsWellFormed`, `ActiveNeverEdited` |

The proof has three parts.

- Walks. The proofs need two things of `Walk`: its result is closed
  (`WalkCloses`) and contained in every closed set with the same start (`WalkIsLeast`). Both follow from its
  waves, whose existence and growth are shown by a least counterexample (`WavesExist`, `WavesClose`:
  a walk that grew at every step would have more members than there are questions). Two walks that reach
  active questions only are then equal (`WalksAgree`), and that is what the report and the check of an
  upload rely on.
- Versioned documents. `CreateStep`, `AppendStep`, `UpdateStep`, `DeactivateStep` and `ActivateStep` say what each
  operation of `lib/versioned.ts` does to one group: it stays well formed, and no active version changes.
- The library. `LibraryInv` is the types, well-formed groups, that a live scenario has a flow, that an intake has selected one
  with a flow, and `PinnedIsConsistent`. The last is inductive because a pinned content is a copy: what
  is left to show is that `Pin` copies a closed set, which is `WalkCloses` on the questions of that moment,
  not of the selection.

`CheckedFilesPassTheGate` takes a file without errors, in any state that satisfies the invariant, and shows
that the gate accepts the library which holds it. The upload looks up a key in the file before the
library, the gate in the library alone, where a question of the file may have kept a branch. What the gate
reaches is therefore what the check reached together with what the kept branches lead to: that union is
closed under the follow-ups of the installed library, and active throughout, the first part because the
check found no error, the second by the hypothesis (`CheckedMeansGate`). So no step that stores a checked
file is given up by the gate while those branches lead to active questions (`CheckedFilesAreApplied`).

`ScoringProofs` proves the three properties of the `scoring` run for any classes, tables, administrators, rules
and facts (`ScoringOK`):

| theorem | property |
|---|---|
| `TypeCorrect` | `ScoringInv`, below |
| `ActiveMatricesWereApproved` | `MatrixFourEyes` |
| `AcceptedMatricesScoreExactly` | `RefinedIsExact` |
| `ResultsAreDetermined` | `ResultIsDetermined` |

`MatrixFourEyes` is not inductive, as an approval is given to a draft and counts later. `ScoringInv` says of
every version that an approval on record is somebody else's and of the body as it is, that a current version has one, and
that a draft is not current.
The other two are about the functions.
`SumIsBounded` (again by a least counterexample, over the partial sums) puts the weighted sum of readings
within their scales between 0 and the sum of the weights, `RoundedIsBounded` keeps that through
rounding, and `OneRangeFits` finds the class: contiguous ranges ascend (`RangesAscend`), so the first that
does not end below the score is the only one that fits. For the rules, a comparison that
holds goes on to hold with more facts (`ComparisonsPersist`) and so does a condition of any depth
(`ConditionsPersist`, over the list of its nodes); the first of the sorted rules is the strongest
whatever order they come in (`WinnerIsStrongest`). `SureOfClickedFacts` computes the confidence of clicked facts.

`AdministrationProofs` has three parts.

`EnforcedWholeAndOnce` holds for any records, runs, windows, faults and plans, and for any half-enforced
records: `Leftovers` may be all combinations of content, transcript, cold copy and entry. What makes it
inductive is `Whole`: a record that is not enforced still has its content and transcript and no mode,
entry or copy, and one that is enforced and not recorded has at most one entry and a mode; nothing is said of
the rest of it. That the cold copy of an archived record is there once it is recorded then rests on the
guard of `Enforce`, `ColdCopyMissing`. `Enforce` looks at the record again in its transaction, so
nothing need be said about what a run has found.

For tenants, `RolesFitPlan` is inductive once the types
are known: every action that gives a role looks at the plan in its transaction, and the change to
FREE looks at all accounts. For `NoStrandedSector` a removal looks at everything in use and every new
use at the vocabulary; a dataset that was checked but not stored is not in use, and `Store` looks
again. `BoundOnce` follows from the look `Finalize` takes at the account in its transaction.

For the migration, any keys, runs, rows and crashes, `Protected` rests on `DropIsSafe`: a run at
the step `drop` has found all replacements built. It stays true because indexes other than the old
one are only added. `BackfilledTruthfully` needs no invariant about the plans of runs, which may be out
of date: the filter of each update asks for the status the plan holds, so a row is marked from a status
it has at that moment (`BackfillIsTruthful`), and no other step changes the group of a row
(`OthersLeaveGroups`). `AlwaysMigratedForGood` is what a second, later or repeated call of the script relies on.
It needs the types only: for a migrated collection the preflight asks what `UpToDate` says of its rows
(`SoundIsUpToDate`), every save of the application keeps that (`SavedRowsAreUpToDate`; the indexes
refuse the rest), a backfill planned earlier finds its filters unmatched or has nothing to do
(`LateBackfill`), and a run creates indexes of `Targets` only (`TodoStays`), never the old one.

`AccessProofs` proves the three properties of its run. `ListShowsWhatOpens` is a case analysis of the
two pieces of code, for any caller whatsoever (`ListIsReadable`). `ReportsStayInScope` needs `CacheInv`: every
possible caller, with any account he may have now or later, could have counted the rows stored under
his key. Callers of one key count the same (`KeyDeterminesRows`): the key of an ordinary caller names his account and
departments, unless he counts everything anyway, and the key of a visitor, which leaves departments and right
out, names his tag. What makes the
latter enough is `TagsBelong`, the invariant that an assessment with a visitor's tag is owned by a
demo account, together with `VisitorCountsHisOwn`: the filter on the tag decides alone, whatever departments and right the
shared account has now. What a report selects on never changes in an assessment, and new
assessments only add rows. `RoutedWithinReach` needs the type of a decision's caller only.

## 8. What is only model-checked

- Liveness under fairness, which the provers do not reach: `EverySettles`, `FlagsConverge`, `ClosedIsEnforced`, `Resumable`.
- The expected violations are counterexamples, not theorems.

Recursive definitions (`Walk`, `Total`, `Kept`, the nodes of a condition) are recursive functions, and what is said
of them for every input is proved by a least counterexample, as the library's induction theorems take an operator as
a parameter, which the provers cannot instantiate.

## 9. Findings

Two runs violate what the code says of itself; `PROJECT.json` quotes the places.

- **`zero_score_accepted`**: a score of 0 cannot be accepted from `error_review`, but can after an
  escalation.
- **`key_unique`**: `key` is to be unique among the current documents of a tenant. `createDraft` looks at
  current documents only and `activate` demotes its own group only, so two drafts of one key, or a draft
  and an upload, end as two current documents, and readers by key take whichever comes first.

These configurations violate a comment or a test too. They are kept to be run by hand:

- `ExtrasReviewed.cfg` (`MCChangeControl`): "activation applies exactly what was reviewed"
  (`datasets/model.ts:9`). The sheet of a dataset merges into an open draft and keeps its `forcedAction` and
  `sectors`, which neither the dataset nor its reviewer has seen (`datasets/service.ts:291`).
- `ThresholdGap.cfg` (`MCScoring`): the last line of `classify` is "unreachable when thresholds are
  contiguous (schema enforces it)" (`compute.ts:67`). The schema of a patch does not (`schema.ts:47`): a
  score in a gap, or NaN from an empty scale, becomes `issue`.
- `DomainUnique.cfg` (`MCTenants`): "the email domain must be unique across tenants"
  (`system/routes.ts:166`). Two tenants that set the same domain at once each see the other without it;
  nothing they both write makes one of them replay.
- `AuditSingleInstance.cfg` (`MCAuditChain`): writes are serialised per tenant "so seq/prevHash never race
  on a single instance" (`audit/service.ts:59`). The promise is released at the insert, and an insert in a
  transaction is invisible until the commit. The retries absorb the race.
- `AssessmentClaims.cfg` (`MCAssessment`, with `tlc -continue`, as it checks three claims):
  `ReconstructedStatusAgrees`: `submit` sets `error_review` for a score of 0 *without a rule*,
  `reconstruct` for every score of 0; with a rule, the reconstruction differs from the document, which
  `reconstruct.test.ts:46` excludes.
  `CompleteCanBeSubmitted`: the intake tells the user to submit (`assessments/service.ts:174`) although a
  required fact has no producer, its question having been edited in place; submit refuses for good.
  `PersonaFixedOnceAsked`: "the persona cannot change once questions have started"
  (`assessments/service.ts:324`). When every node of a flow is gated, the first question is asked by the re-ask
  branch, which leaves the phase; the persona can then still change.
- `AskedWithoutEnd.cfg` (`MCAssessment`, one request, one content, a requestor who goes on answering):
  the question of a missing required fact is re-asked "once" (`assessments/service.ts:158`), with "one more
  ask" allowed (`:165`). The guard `reAsked < 2` counts the key in `askedQuestionKeys` and the branch behind it
  removes the key, so the guard never fails: blank answers are asked for again without end (`IntakeEnds`
  is violated). It is also the reason no required fact is skipped at the end (`NothingSkipped`).
- `UploadSurprise.cfg` (`MCLibrary`): the check of an upload mirrors the activation gate, "so a validated
  dataset activates without surprises" (`datasets/service.ts:62-66`). An upload merges into an existing
  question (`questions/service.ts:56`), so one whose row has no branch keeps its old branch, which the check does not
  see; if that leads to a retired question, the gate gives the activation up.
- `StuckArchive.cfg` (`MCNightly`): closed assessments are enforced after the grace period, without the
  exception `ClosedIsEnforced` makes. A half-enforced archived record whose cold copy is missing makes the
  repair throw (`retention/service.ts:160`). The run of that tenant ends there, every night again, and
  the records behind it are not enforced either.
- `TouchExtends.cfg` (`MCSessions`): `touch` "extends the session on every request" (`auth/service.ts:180`).
  Of two requests side by side the one with the earlier time may save last, and the expiry goes back.
- `RoleAtNextLogin.cfg` (`MCSessions`): sessions end with a change of role "so the new role applies at next
  login" (`auth/service.ts:236`); an exchange that authenticated before opens its session after it, and that
  session serves the new role.

What the modelling brought up besides, where no text says otherwise:

- A gated node that is popped while its fact is unknown is dropped for good (`branching.ts:42`).
- Two administrators with requests under way may demote each other, and a tenant is left without any
  (`directory.service.ts:158` looks at the sender's own account only). The change of a tenant to FREE through
  the API conflicts whenever a managed account exists, and its sender has one.
- A sector that any version of a persona, or a dataset never activated, has named cannot be removed.
- While the old release still writes, it may retire a row the migration has made current, or
  activate one that is not; activation repairs the second, nothing repairs the first, and every
  inspection then refuses the collection. `Resumable` assumes it does not stay so.
- A report is stored by whoever computes it, so a slower and older computation may replace a newer one for
  the rest of the hour. Reports do not ask for `reviewDashboard` as lists do, and leave out
  assessments that were only routed to the reader.
- An assessment routed to a demo account cannot be opened by anybody behind it: the filter on the
  visitor's tag comes first.
- A text of blanks counts as a value for the confidence (`compute.ts:76`) but not for a condition.

## 10. Not modelled, and why

- The issue lock of one-time codes with its lifetime, the cooldown, the hourly count and the attempts
  (`otp.service.ts`): `Sessions` issues a code in one step. The lock expires after five minutes, also when
  its owner still waits for the mail provider; the hourly count is exact only while it holds.
- `createMongoReadinessGate` (`lib/db.ts:107`): requests of a warm function share one preparation, and the
  connection may drop while it runs. It keeps no stored state and would need a model of the driver.
- Rate limits: one atomic upsert per hit, repeated when two processes create the same counter.
- Masking, mail, Firebase, health, the record of recovery drills, the formats of workbooks and exports, the
  aggregates of reports: no state, or a matter of formats TLC does not help with.
- Seeds, operator scripts and wiring: they only call the services modelled here.
- Deletion by age (sessions, codes, cached reports) is modelled for reports only, where a reader sees it.
