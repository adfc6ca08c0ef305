------------------------------ MODULE Nightly ------------------------------
(***************************************************************************)
(* The nightly work of one tenant: the retention run, which flags closed   *)
(* assessments past their window and enforces them a grace period later,   *)
(* and the conformance scan, which flags records that break an invariant   *)
(* of the assessment schema.  It is started by the in-process timer, by    *)
(* the cron route and by hand, so several runs overlap; a run reads the    *)
(* tenant, its candidates and the scanned records outside any transaction, *)
(* and acts on them in transactions that follow.                           *)
(*                                                                         *)
(* Transactions of a tenant are atomic here: each of them writes an audit  *)
(* entry, and AuditChain shows that makes them serial.                     *)
(***************************************************************************)
EXTENDS Integers, FiniteSets

CONSTANTS
  Records,     \* assessments of the tenant
  HalfEnforced, \* those whose enforcement an earlier release left unfinished
  Leftovers,   \* the states in which it may have left them
  Runs,        \* who may be running: the timer, the cron route or a person
  Timer,       \* the run the in-process timer starts
  Window,      \* retentionPolicy.assessmentDays, in model days
  Grace,       \* DEFAULT_GRACE_DAYS, in model days
  MaxLag,      \* bound: a run ends within this many midnights
  MaxFaults    \* bound: crashes and failed transactions

ASSUME NightlyAssumption ==
  /\ Timer \in Runs /\ HalfEnforced \subseteq Records
  /\ Leftovers \subseteq [mode : {"archived", "reduced"}, body : BOOLEAN, transcript : BOOLEAN,
                           copy : {"none", "full"}, entry : {0, 1}]
  /\ {Window, Grace, MaxLag, MaxFaults} \subseteq Nat

Unflagged == -1
Plans == {"free", "paid"}

VARIABLES
  docs,      \* the assessments
  messages,  \* the assessments whose transcript is stored
  archives,  \* assessmentArchives: what the cold copy of a record holds
  entries,   \* audit entries retention.archived / retention.reduced per record
  flags,     \* assessmentConformanceFlags
  runs,      \* what each run has read
  ranToday,  \* lastRunDay of the timer's process is today
  faults     \* faults so far

stored == <<docs, messages, archives, entries>>
vars == <<stored, flags, runs, ranToday, faults>>

Idle == [at |-> "idle", plan |-> "free", lag |-> 0, todo |-> {}]

\* A record as the application writes it, when it was created just now.
Fresh == [status |-> "in_progress", result |-> FALSE, decision |-> FALSE, age |-> 0,
          flagged |-> Unflagged, enforced |-> FALSE, recorded |-> FALSE,
          mode |-> "none", body |-> TRUE]

\* What earlier releases left behind: a result before its time, a closed record
\* without a decision, and a record marked as enforced before the transcript and
\* the content went and the audit entry was written in the same transaction.
Legacy ==
  {[Fresh EXCEPT !.result = TRUE], [Fresh EXCEPT !.status = "closed", !.result = TRUE]}
Interrupted(left) ==
  [Fresh EXCEPT !.status = "closed", !.result = TRUE, !.decision = TRUE,
                !.age = Window + MaxLag, !.flagged = Grace + MaxLag,
                !.enforced = TRUE, !.mode = left.mode, !.body = left.body]

\* Any part of an interrupted enforcement may be missing, the cold copy included.
Init ==
  /\ \E left  \in [HalfEnforced -> Leftovers],
        other \in [Records \ HalfEnforced -> {Fresh} \cup Legacy] :
       /\ docs = [r \in Records |-> IF r \in HalfEnforced THEN Interrupted(left[r]) ELSE other[r]]
       /\ messages = {r \in Records : r \in HalfEnforced => left[r].transcript}
       /\ archives = [r \in Records |-> IF r \in HalfEnforced THEN left[r].copy ELSE "none"]
       /\ entries = [r \in Records |-> IF r \in HalfEnforced THEN left[r].entry ELSE 0]
  /\ flags = [r \in Records |-> "none"]
  /\ runs = [p \in Runs |-> Idle]
  /\ ranToday = FALSE
  /\ faults = 0

-----------------------------------------------------------------------------
\* The world around the runs.

CapTo(n, cap) == IF n >= cap THEN cap ELSE n

\* Midnight.  Ages stop growing where no comparison can tell them apart.
NewDay ==
  /\ \A p \in Runs : runs[p].lag < MaxLag
  /\ docs' = [r \in Records |->
                [docs[r] EXCEPT
                  !.age = CapTo(@ + 1, Window + MaxLag),
                  !.flagged = IF @ = Unflagged THEN @ ELSE CapTo(@ + 1, Grace + MaxLag)]]
  /\ runs' = [p \in Runs |-> IF runs[p].at = "idle" THEN Idle ELSE [runs[p] EXCEPT !.lag = @ + 1]]
  /\ ranToday' = FALSE
  /\ UNCHANGED <<messages, archives, entries, flags, faults>>

\* Submitting computes the result; deciding closes the record.
Submit(r) ==
  /\ docs[r].status = "in_progress"
  /\ docs' = [docs EXCEPT ![r].status = "awaiting", ![r].result = TRUE]
  /\ UNCHANGED <<messages, archives, entries, flags, runs, ranToday, faults>>

Close(r) ==
  /\ docs[r].status = "awaiting"
  /\ docs' = [docs EXCEPT ![r].status = "closed", ![r].decision = TRUE]
  /\ UNCHANGED <<messages, archives, entries, flags, runs, ranToday, faults>>

-----------------------------------------------------------------------------
\* The retention run.  `now` is taken at its start: `lag` is how many midnights
\* ago that was, so a cutoff of n days asks for an age of n + lag today.

\* Both starters read the tenants first, and with them a plan that an
\* administrator may change at any time: one run finds one plan, another the other.
\* The timer marks the day beforehand.
Start(p) ==
  /\ runs[p].at = "idle"
  /\ p = Timer => ~ranToday
  /\ ranToday' = (ranToday \/ p = Timer)
  /\ \E plan \in Plans : runs' = [runs EXCEPT ![p] = [Idle EXCEPT !.at = "find", !.plan = plan]]
  /\ UNCHANGED <<stored, flags, faults>>

PastWindow(p, r) == docs[r].status = "closed" /\ docs[r].age >= Window + runs[p].lag

\* Mutation: a record that is flagged already is flagged again.
FlaggableAgain(p, r) == PastWindow(p, r) /\ ~docs[r].enforced

Flaggable(p, r) == PastWindow(p, r) /\ docs[r].flagged = Unflagged /\ ~docs[r].enforced

Due(p, r) ==
  /\ PastWindow(p, r)
  /\ docs[r].flagged # Unflagged /\ docs[r].flagged >= Grace + runs[p].lag
  /\ ~docs[r].recorded

FindToFlag(p) ==
  /\ runs[p].at = "find"
  /\ runs' = [runs EXCEPT ![p].at = "flag", ![p].todo = {r \in Records : Flaggable(p, r)}]
  /\ UNCHANGED <<stored, flags, ranToday, faults>>

\* One transaction; the update repeats the conditions of the search.
Flag(p) ==
  /\ runs[p].at = "flag"
  /\ docs' = [r \in Records |->
                IF r \in runs[p].todo /\ Flaggable(p, r)
                THEN [docs[r] EXCEPT !.flagged = runs[p].lag] ELSE docs[r]]
  /\ runs' = [runs EXCEPT ![p].at = "due", ![p].todo = {}]
  /\ UNCHANGED <<messages, archives, entries, flags, ranToday, faults>>

FindDue(p) ==
  /\ runs[p].at = "due"
  /\ runs' = [runs EXCEPT ![p].at = "enforce", ![p].todo = {r \in Records : Due(p, r)}]
  /\ UNCHANGED <<stored, flags, ranToday, faults>>

\* REDUCE_UNSET: the business content goes; the status, the decision's type and
\* its user stay, and so does the classification inside the result.
Reduced(doc, mode) ==
  [doc EXCEPT !.body = FALSE, !.enforced = TRUE, !.recorded = TRUE, !.mode = mode]

\* A record that was enforced keeps its mode; otherwise the plan the run read decides.
ModeOf(p, doc) == IF doc.mode # "none" THEN doc.mode
                  ELSE IF runs[p].plan = "paid" THEN "archived" ELSE "reduced"

\* The transaction of one record: look again, keep the cold copy, remove the
\* transcript, reduce the record, and write the entry unless one exists.
Enforced(p, r) ==
  LET doc       == docs[r]
      repairing == doc.enforced
      mode      == ModeOf(p, doc)
      copy      == IF doc.body /\ r \in messages THEN "full" ELSE "partial"
  IN  /\ archives' = IF mode = "archived" /\ ~repairing /\ archives[r] = "none"
                     THEN [archives EXCEPT ![r] = copy] ELSE archives
      /\ messages' = messages \ {r}
      /\ docs' = [docs EXCEPT ![r] = Reduced(doc, mode)]
      /\ entries' = IF repairing /\ entries[r] > 0 THEN entries
                    ELSE [entries EXCEPT ![r] = @ + 1]

\* Mutation: the cold copy of a record to repair is not looked for.
NeverMissing(p, r) == FALSE

\* A record to repair was archived, and its cold copy is not there.
ColdCopyMissing(p, r) ==
  docs[r].enforced /\ ModeOf(p, docs[r]) = "archived" /\ archives[r] = "none"

\* The nightly work turns to the scan, which does not look at the plan.
Scanning(p) == [Idle EXCEPT !.at = "scan", !.lag = runs[p].lag]

Enforce(p, r) ==
  /\ runs[p].at = "enforce" /\ r \in runs[p].todo
  /\ Due(p, r) /\ ~ColdCopyMissing(p, r)
  /\ Enforced(p, r)
  /\ runs' = [runs EXCEPT ![p].todo = @ \ {r}]
  /\ UNCHANGED <<flags, ranToday, faults>>

\* Another run enforced it in the meantime.
Skip(p, r) ==
  /\ runs[p].at = "enforce" /\ r \in runs[p].todo
  /\ ~Due(p, r)
  /\ runs' = [runs EXCEPT ![p].todo = @ \ {r}]
  /\ UNCHANGED <<stored, flags, ranToday, faults>>

\* "cannot reconcile archived assessment": the transaction throws, and the run of
\* this tenant ends there, before the records that come after this one.
StopAtMissing(p, r) ==
  /\ runs[p].at = "enforce" /\ r \in runs[p].todo
  /\ Due(p, r) /\ ColdCopyMissing(p, r)
  /\ runs' = [runs EXCEPT ![p] = Scanning(p)]
  /\ UNCHANGED <<stored, flags, ranToday, faults>>

\* The row of the run is written; the chain check that follows only reads.
Finish(p) ==
  /\ runs[p].at = "enforce" /\ runs[p].todo = {}
  /\ runs' = [runs EXCEPT ![p] = Scanning(p)]
  /\ UNCHANGED <<stored, flags, ranToday, faults>>

\* A transaction fails: the run of this tenant ends there, with its error, and
\* the nightly work goes on.
Fail(p) ==
  /\ faults < MaxFaults
  /\ runs[p].at \in {"flag", "due", "enforce"}
  /\ faults' = faults + 1
  /\ runs' = [runs EXCEPT ![p] = Scanning(p)]
  /\ UNCHANGED <<stored, flags, ranToday>>

-----------------------------------------------------------------------------
\* The conformance scan.

Issues(r) ==
  \/ docs[r].status = "closed" /\ ~docs[r].decision
  \/ docs[r].status = "in_progress" /\ docs[r].result

\* All records are read and validated before the transaction.
Scan(p) ==
  /\ runs[p].at = "scan"
  /\ runs' = [runs EXCEPT ![p].at = "report", ![p].todo = {r \in Records : Issues(r)}]
  /\ UNCHANGED <<stored, flags, ranToday, faults>>

\* Mutation: a flag is raised for a record that has none, and never resolved.
ReportOnce(p) ==
  /\ runs[p].at = "report"
  /\ flags' = [r \in Records |-> IF r \in runs[p].todo THEN "open" ELSE flags[r]]
  /\ runs' = [runs EXCEPT ![p] = Idle]
  /\ UNCHANGED <<stored, ranToday, faults>>

\* One bulk write: an upsert that reopens for every issue, and a resolution of
\* every open flag of a valid record.
Report(p) ==
  /\ runs[p].at = "report"
  /\ flags' = [r \in Records |->
                 IF r \in runs[p].todo THEN "open"
                 ELSE IF flags[r] = "open" THEN "resolved" ELSE flags[r]]
  /\ runs' = [runs EXCEPT ![p] = Idle]
  /\ UNCHANGED <<stored, ranToday, faults>>

\* The process of a run ends; the timer's process forgets the day it marked.
Crash(p) ==
  /\ faults < MaxFaults
  /\ runs[p].at # "idle"
  /\ faults' = faults + 1
  /\ runs' = [runs EXCEPT ![p] = Idle]
  /\ ranToday' = (ranToday /\ p # Timer)
  /\ UNCHANGED <<stored, flags>>

-----------------------------------------------------------------------------
Working(p) ==
  \/ FindToFlag(p) \/ Flag(p) \/ FindDue(p)
  \/ \E r \in Records : Enforce(p, r) \/ Skip(p, r) \/ StopAtMissing(p, r)
  \/ Finish(p) \/ Scan(p) \/ Report(p)

Next ==
  \/ NewDay
  \/ \E r \in Records : Submit(r) \/ Close(r)
  \/ \E p \in Runs : Start(p) \/ Working(p) \/ Fail(p) \/ Crash(p)

\* Days pass, the timer's process is up in the hour of some day, and a run that
\* has started goes on; the cron route and people may never call.
Fairness ==
  /\ WF_vars(NewDay)
  /\ WF_vars(Start(Timer))
  /\ \A p \in Runs : WF_vars(Working(p))

Spec == Init /\ [][Next]_vars /\ Fairness

-----------------------------------------------------------------------------
\* Enforcement is whole and happens once, however many runs find the same
\* record and wherever an earlier release stopped with it: a record that is
\* recorded as enforced has one audit entry, its content and its transcript are
\* gone together, and an archived one has its cold copy.  What was never
\* enforced still has everything.
EnforcedWholeAndOnce ==
  \A r \in Records :
    /\ docs[r].recorded => entries[r] = 1 /\ r \notin messages /\ ~docs[r].body
    /\ docs[r].recorded /\ docs[r].mode = "archived" => archives[r] = "full"
    /\ ~docs[r].enforced => /\ entries[r] = 0 /\ archives[r] = "none"
                            /\ r \in messages /\ docs[r].body

\* In the end exactly the records that break an invariant of the schema carry an
\* open flag.  A scan reads before its transaction, so one that read earlier may
\* commit later and report what no longer holds; a following night corrects it.
FlagsConverge ==
  \A r \in Records : <>[](flags[r] = "open" <=> Issues(r))

\* No run can repair this record, and each run that comes to it ends there.
Unrepairable(r) ==
  /\ docs[r].enforced /\ ~docs[r].recorded
  /\ docs[r].mode = "archived" /\ archives[r] = "none"

\* A closed assessment is enforced in the end, finitely many crashes and failed
\* runs notwithstanding, unless the tenant has a record that cannot be repaired:
\* neither the mark on the day nor a repeated flag delays it for ever.
ClosedIsEnforced ==
  \A r \in Records :
    docs[r].status = "closed" ~> (docs[r].recorded \/ \E s \in Records : Unrepairable(s))

\* What one would expect without that record.  It does not hold: a record whose
\* cold copy is missing is never enforced, and it may stop every run before the
\* others.
EveryClosedIsEnforced ==
  \A r \in Records : docs[r].status = "closed" ~> docs[r].recorded
=============================================================================
