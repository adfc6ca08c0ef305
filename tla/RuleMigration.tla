----------------------------- MODULE RuleMigration -----------------------------
(***************************************************************************)
(* The one-time migration of hard rules to versions                         *)
(* (modules/rules/migration.ts), while the application that knows versions  *)
(* and the one before it, which does not, may both be writing.              *)
(*                                                                         *)
(* One tenant: every index and every check is per tenant.  Rows are well     *)
(* formed: rows with an invalid id, key or status and rows that carry some   *)
(* of the three fields are refused by every inspection and written by none   *)
(* of the actors.  The two reads of an inspection are one step.  What comes   *)
(* between the first draft of a version and its activation is in             *)
(* ChangeControl: drafts stand for approved versions here as well.           *)
(***************************************************************************)
EXTENDS Integers, Sequences, FiniteSets, SequencesExt

CONSTANTS
  Keys,       \* rule keys
  Scripts,    \* processes of the migration script
  MaxRows,    \* bound: rule documents
  MaxCrashes  \* bound: runs that are killed

ASSUME RuleMigrationOK == MaxRows \in Nat \ {0} /\ MaxCrashes \in Nat

VARIABLES
  rows,      \* the rules collection; a row's _id is its position
  indexes,   \* the unique indexes that exist
  run,       \* run[r]: where a run of the script is
  legacyUp,  \* the application without versions still writes
  crashes

migrationVars == <<rows, indexes, run, legacyUp, crashes>>

Statuses == {"draft", "active", "retired"}

\* RULE_VERSION_INDEXES, in the order they are created.
Targets == <<"v1", "current", "groupVersion">>

NotStarted == [pc |-> "idle", plan |-> {}, todo |-> <<>>]

\* A row without version fields: group and version 0.
LegacyRow(k, s)     == [key |-> k, status |-> s, group |-> 0, version |-> 0, current |-> FALSE]
IsLegacy(row)       == row.group = 0
LegacyIds(rs)       == {n \in DOMAIN rs : IsLegacy(rs[n])}
IsRepeatFree(S, f(_)) == \A i, j \in S : f(i) = f(j) => i = j

\* Whether the unique index ix admits the collection rs; a missing field is indexed as null.
Fits(ix, rs) ==
  LET KeyOf(n)   == rs[n].key
      Version(n) == <<rs[n].group, rs[n].version>>
  IN CASE ix = "legacy"       -> IsRepeatFree(DOMAIN rs, KeyOf)
       [] ix = "v1"           -> IsRepeatFree({n \in DOMAIN rs : rs[n].version = 1}, KeyOf)
       [] ix = "current"      -> IsRepeatFree({n \in DOMAIN rs : rs[n].current}, KeyOf)
       [] ix = "groupVersion" -> IsRepeatFree(DOMAIN rs, Version)

Admitted(rs) == \A ix \in indexes : Fits(ix, rs)

-------------------------------------------------------------------------------
(* The preflight: planRuleBackfill and planRuleIndexes *)

\* What the backfill makes of a row: a group of its own at version 1, current when active.
Backfilled(row, n) ==
  IF IsLegacy(row) THEN [row EXCEPT !.group = n, !.version = 1, !.current = (row.status = "active")]
  ELSE row

Projected == [n \in DOMAIN rows |-> Backfilled(rows[n], n)]

\* No issue is found in the collection as it would be after the backfill.
Sound ==
  LET p == Projected IN
  /\ \A n \in DOMAIN p : p[n].current <=> p[n].status = "active"
  /\ \A ix \in ToSet(Targets) : Fits(ix, p)
  /\ \A i, j \in DOMAIN p : p[i].group = p[j].group => p[i].key = p[j].key
  /\ \A n \in DOMAIN p : \E m \in DOMAIN p : p[m].group = p[n].group /\ p[m].version = 1

NoLegacyRows == LegacyIds(rows) = {}
Missing      == LET Absent(ix) == IF ix \in indexes THEN <<>> ELSE <<ix>>
                IN Absent(Targets[1]) \o Absent(Targets[2]) \o Absent(Targets[3])
AllBuilt     == ToSet(Targets) \subseteq indexes

\* The postcondition the last inspection verifies.
Migrated == Sound /\ NoLegacyRows /\ AllBuilt /\ "legacy" \notin indexes

-------------------------------------------------------------------------------
(* The script *)

\* The run ends, with an error or not; the script can be called again.
End(r) == run' = [run EXCEPT ![r] = NotStarted]
Goto(r, pc) == run' = [run EXCEPT ![r].pc = pc]

\* Mutation: a run that finds every row backfilled takes the migration for done.
InspectWithRows(r) ==
  /\ run[r].pc = "idle" /\ Sound /\ ~NoLegacyRows
  /\ run' = [run EXCEPT ![r] =
       [pc |-> "backfill",
        plan |-> {[id |-> n, key |-> rows[n].key, status |-> rows[n].status] : n \in LegacyIds(rows)},
        todo |-> <<>>]]
  /\ UNCHANGED <<rows, indexes, legacyUp, crashes>>

\* The initial inspection, and the plan taken from it.  A run it refuses changes nothing.
Inspect(r) ==
  /\ run[r].pc = "idle" /\ Sound
  /\ run' = [run EXCEPT ![r] =
       [pc |-> IF NoLegacyRows THEN "recheck" ELSE "backfill",
        plan |-> {[id |-> n, key |-> rows[n].key, status |-> rows[n].status] : n \in LegacyIds(rows)},
        todo |-> <<>>]]
  /\ UNCHANGED <<rows, indexes, legacyUp, crashes>>

\* Mutation: the filter of an update does not ask for the status the plan was made from.
MatchesById(op) == IsLegacy(rows[op.id]) /\ rows[op.id].key = op.key

\* The filter of an update: still a legacy row, of the same key and status.
Matches(op) == IsLegacy(rows[op.id]) /\ rows[op.id].key = op.key /\ rows[op.id].status = op.status

\* The transaction: all rows of the plan, with the values of the plan, or none.
Backfill(r) ==
  /\ run[r].pc = "backfill"
  /\ LET plan == run[r].plan
         next == [n \in DOMAIN rows |->
                    IF \E op \in plan : op.id = n
                      THEN LET op == CHOOSE op \in plan : op.id = n IN
                           [rows[n] EXCEPT !.group = n, !.version = 1, !.current = (op.status = "active")]
                      ELSE rows[n]]
     IN IF (\A op \in plan : Matches(op)) /\ Admitted(next)
          THEN rows' = next /\ run' = [run EXCEPT ![r] = [NotStarted EXCEPT !.pc = "recheck"]]
          ELSE End(r) /\ UNCHANGED rows
  /\ UNCHANGED <<indexes, legacyUp, crashes>>

\* The inspection after the backfill; it names the indexes to create.
Recheck(r) ==
  /\ run[r].pc = "recheck"
  /\ IF Sound /\ NoLegacyRows
       THEN run' = [run EXCEPT ![r].pc = "build", ![r].todo = Missing]
       ELSE End(r)
  /\ UNCHANGED <<rows, indexes, legacyUp, crashes>>

\* createIndex: refused by rows it does not admit, without effect when it exists.
Build(r) ==
  /\ run[r].pc = "build" /\ run[r].todo # <<>>
  /\ IF Fits(Head(run[r].todo), rows)
       THEN /\ indexes' = indexes \cup {Head(run[r].todo)}
            /\ run' = [run EXCEPT ![r].todo = Tail(@)]
       ELSE End(r) /\ UNCHANGED indexes
  /\ UNCHANGED <<rows, legacyUp, crashes>>

\* Mutation: the legacy index goes first, the replacements are created afterwards.
BeforeDropEarly(r) ==
  /\ run[r].pc = "build"
  /\ IF Sound /\ NoLegacyRows
       THEN Goto(r, IF "legacy" \in indexes THEN "drop" ELSE "verify")
       ELSE End(r)
  /\ UNCHANGED <<rows, indexes, legacyUp, crashes>>

\* The inspection before the drop.
BeforeDrop(r) ==
  /\ run[r].pc = "build" /\ run[r].todo = <<>>
  /\ IF Sound /\ NoLegacyRows /\ AllBuilt
       THEN Goto(r, IF "legacy" \in indexes THEN "drop" ELSE "verify")
       ELSE End(r)
  /\ UNCHANGED <<rows, indexes, legacyUp, crashes>>

\* dropIndex: an error when another run was faster.
Drop(r) ==
  /\ run[r].pc = "drop"
  /\ indexes' = indexes \ {"legacy"}
  /\ IF "legacy" \in indexes THEN Goto(r, "verify") ELSE End(r)
  /\ UNCHANGED <<rows, legacyUp, crashes>>

\* The last inspection: the run ends here whatever it finds.
Verify(r) ==
  /\ run[r].pc = "verify"
  /\ End(r)
  /\ UNCHANGED <<rows, indexes, legacyUp, crashes>>

\* The process is killed; what it had committed stays.
Kill(r) ==
  /\ run[r].pc # "idle" /\ crashes < MaxCrashes
  /\ crashes' = crashes + 1
  /\ End(r)
  /\ UNCHANGED <<rows, indexes, legacyUp>>

Step(r) == \/ Inspect(r) \/ Backfill(r) \/ Recheck(r) \/ Build(r)
           \/ BeforeDrop(r) \/ Drop(r) \/ Verify(r)

-------------------------------------------------------------------------------
(* The application with versions (rules/service.ts).  It cannot save a row      *)
(* without a version group, and starting it builds the indexes of its model.     *)

SaveRows(rs) == Admitted(rs) /\ rows' = rs

AppCreate(k) ==
  /\ Len(rows) < MaxRows /\ \A n \in DOMAIN rows : rows[n].key # k
  /\ SaveRows(Append(rows, [LegacyRow(k, "draft") EXCEPT !.group = Len(rows) + 1, !.version = 1]))
  /\ UNCHANGED <<indexes, run, legacyUp, crashes>>

\* An edit of an active rule: the next version of its group, while none is open.
AppNewVersion(n) ==
  /\ Len(rows) < MaxRows /\ ~IsLegacy(rows[n]) /\ rows[n].status = "active"
  /\ LET group == {m \in DOMAIN rows : rows[m].group = rows[n].group} IN
     /\ \A m \in group : rows[m].status # "draft"
     /\ SaveRows(Append(rows, [rows[n] EXCEPT !.status = "draft", !.current = FALSE,
                                           !.version = 1 + CHOOSE v \in {rows[m].version : m \in group} :
                                               \A m \in group : rows[m].version <= v]))
  /\ UNCHANGED <<indexes, run, legacyUp, crashes>>

\* activate: the version in effect is retired; an active row that is not current is repaired.
AppActivate(n) ==
  /\ ~IsLegacy(rows[n]) /\ rows[n].status \in {"draft", "active"} /\ ~rows[n].current
  /\ SaveRows([m \in DOMAIN rows |->
       IF m = n THEN [rows[m] EXCEPT !.status = "active", !.current = TRUE]
       ELSE IF rows[m].group = rows[n].group /\ rows[m].current /\ rows[m].status = "active"
         THEN [rows[m] EXCEPT !.status = "retired", !.current = FALSE]
       ELSE rows[m]])
  /\ UNCHANGED <<indexes, run, legacyUp, crashes>>

AppRetire(n) ==
  /\ ~IsLegacy(rows[n]) /\ rows[n].status # "retired"
  /\ SaveRows([rows EXCEPT ![n].status = "retired", ![n].current = FALSE])
  /\ UNCHANGED <<indexes, run, legacyUp, crashes>>

\* In the order of the model, up to the first one the rows do not admit.
AppBuild ==
  /\ ~AllBuilt /\ Fits(Head(Missing), rows)
  /\ indexes' = indexes \cup {Head(Missing)}
  /\ UNCHANGED <<rows, run, legacyUp, crashes>>

AppNext ==
  \/ \E k \in Keys : AppCreate(k)
  \/ \E n \in DOMAIN rows : AppNewVersion(n) \/ AppActivate(n) \/ AppRetire(n)
  \/ AppBuild

-------------------------------------------------------------------------------
(* The application before versions: it writes key and status, and stops for good *)

LegacyInsert(k) ==
  /\ legacyUp /\ Len(rows) < MaxRows
  /\ SaveRows(Append(rows, LegacyRow(k, "draft")))
  /\ UNCHANGED <<indexes, run, legacyUp, crashes>>

LegacySetStatus(n, s) ==
  /\ legacyUp /\ rows[n].status # s
  /\ SaveRows([rows EXCEPT ![n].status = s])
  /\ UNCHANGED <<indexes, run, legacyUp, crashes>>

LegacyStop ==
  /\ legacyUp /\ legacyUp' = FALSE
  /\ UNCHANGED <<rows, indexes, run, crashes>>

LegacyNext ==
  \/ \E k \in Keys : LegacyInsert(k)
  \/ \E n \in DOMAIN rows, s \in Statuses : LegacySetStatus(n, s)
  \/ LegacyStop

MigrationInit ==
  /\ rows \in {<<>>} \cup {<<LegacyRow(k, s)>> : k \in Keys, s \in Statuses}
  /\ indexes = {"legacy"}
  /\ run = [r \in Scripts |-> NotStarted]
  /\ legacyUp = TRUE
  /\ crashes = 0

MigrationNext == (\E r \in Scripts : Step(r) \/ Kill(r)) \/ AppNext \/ LegacyNext

\* The old application is stopped some day, and the operator runs the script until it succeeds.
MigrationSpec ==
  /\ MigrationInit /\ [][MigrationNext]_migrationVars
  /\ WF_migrationVars(LegacyStop) /\ \A r \in Scripts : WF_migrationVars(Step(r))

-------------------------------------------------------------------------------
(* Properties *)

\* The comment in indexes.ts: there is never an unprotected write window.  Whatever was interrupted
\* or run twice, the key index of the old application or all of its replacements are in place.
Protected == "legacy" \in indexes \/ AllBuilt

\* A rule the old application activates or retires between the plan and the backfill is not given
\* the plan's answer: a row becomes current with the migration exactly when it is active then.
BackfilledTruthfully ==
  [][\A n \in DOMAIN rows : IsLegacy(rows[n]) /\ ~IsLegacy(rows'[n]) =>
       (rows'[n].current <=> rows'[n].status = "active")]_migrationVars

\* A run killed at any step, refused half-way or overtaken by another one can be repeated: unless
\* the collection stays in a state the preflight refuses, the migration is completed.
Resumable == <>[]Sound => <>Migrated

\* The migration is over once: with the old application gone, what the application with versions
\* writes, a run that started late and a run that is repeated leave a collection migrated that is.
MigratedForGood ==
  [][(Migrated /\ ~legacyUp) => Migrated']_migrationVars
===============================================================================
