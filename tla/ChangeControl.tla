----------------------------- MODULE ChangeControl -----------------------------
(***************************************************************************)
(* Change control of hard rules (modules/rules/service.ts) and of datasets, *)
(* whose scoring sheet brings hard rules of its own                         *)
(* (modules/datasets/service.ts).                                          *)
(*                                                                         *)
(* Every edit of a rule, and the activation of a dataset with everything it *)
(* applies, is one audited transaction; those of one tenant are serial      *)
(* (AuditChain!CommitsOnCurrentSnapshot), so each is one action.  Outside   *)
(* of them are the first load of an activation and the transaction that     *)
(* records its failure.                                                    *)
(***************************************************************************)
EXTENDS Integers, Sequences, FiniteSets, SequencesExt

CONSTANTS
  Keys,        \* rule keys: create refuses a key that exists, so a key is a version group
  Sheets,      \* what a scoring sheet can say of a rule: trigger, class, priority
  Extras,      \* what it cannot: forcedAction and sectors
  NoExtra,     \* neither of them
  Datasets,    \* uploads
  Files,       \* what an upload may contain: for some keys, a sheet
  Admins,      \* administrators
  Nobody,
  Runs,        \* activation requests
  MaxVersions  \* bound: versions of a rule

ASSUME ChangeControlOK ==
  /\ NoExtra \in Extras /\ Nobody \notin Admins /\ MaxVersions \in Nat \ {0}
  /\ \A f \in Files : DOMAIN f \subseteq Keys /\ \A k \in DOMAIN f : f[k] \in Sheets

VARIABLES
  rules,     \* rules[k]: the versions of rule k
  datasets,  \* datasets[d]: the stored upload
  run,       \* run[r]: the activation under way
  applied,   \* history: how often the content of a dataset was applied
  vouched    \* history: vouched[k]: the extras somebody approved, as the approver saw them

vars == <<rules, datasets, run, applied, vouched>>

OpenIn(vs)   == {n \in DOMAIN vs : vs[n].status \in {"draft", "approved"}}
ActiveIn(vs) == {n \in DOMAIN vs : vs[n].status = "active"}
Open(k)      == OpenIn(rules[k])
Active(k)    == ActiveIn(rules[k])

Version(sheet, extra, author) ==
  [status |-> "draft", sheet |-> sheet, extra |-> extra,
   createdBy |-> author, approvedBy |-> Nobody, seen |-> Nobody]

NoDataset == [status |-> "none", author |-> Nobody, reviewer |-> Nobody, file |-> <<>>]
NoRun == [pc |-> "idle", dataset |-> Nobody]

Init ==
  /\ rules = [k \in Keys |-> <<>>]
  /\ datasets = [d \in Datasets |-> NoDataset]
  /\ run = [r \in Runs |-> NoRun]
  /\ applied = [d \in Datasets |-> 0]
  /\ vouched = [k \in Keys |-> {NoExtra}]

-------------------------------------------------------------------------------
(* Rules: what each operation makes of the versions vs of one rule *)

Created(vs, sheet, extra, a) == <<Version(sheet, extra, a)>>

\* Mutation: an edit of an approved version keeps the approval.
UpdatedApproved(vs, n, sheet, extra, a) ==
  IF vs[n].status = "active"
    THEN Append(vs, Version(sheet, extra, a))
    ELSE [vs EXCEPT ![n].sheet = sheet, ![n].extra = extra, ![n].createdBy = a]

\* update: a draft or an approved version becomes a draft of the editor, without approval; an
\* active one is copied.
Updated(vs, n, sheet, extra, a) ==
  IF vs[n].status = "active"
    THEN Append(vs, Version(sheet, extra, a))
    ELSE [vs EXCEPT ![n] = Version(sheet, extra, a)]

MayUpdate(vs, n) ==
  /\ vs[n].status # "retired"
  /\ vs[n].status = "active" => OpenIn(vs) = {} /\ Len(vs) < MaxVersions

MayApprove(vs, n, b) == vs[n].status = "draft" /\ vs[n].createdBy # b

Approved(vs, n, b, seen) ==
  [vs EXCEPT ![n].status = "approved", ![n].approvedBy = b, ![n].seen = seen]

MayActivate(vs, n) == vs[n].status = "approved"

\* activate: the active version of the group is retired.
Activated(vs, n) ==
  [m \in DOMAIN vs |->
     IF m = n THEN [vs[m] EXCEPT !.status = "active"]
     ELSE IF vs[m].status = "active" THEN [vs[m] EXCEPT !.status = "retired"]
     ELSE vs[m]]

Put(k, vs) == rules' = [rules EXCEPT ![k] = vs]

CreateRule(k, a) ==
  /\ rules[k] = <<>>
  /\ \E s \in Sheets, x \in Extras : Put(k, Created(rules[k], s, x, a))
  /\ UNCHANGED <<datasets, run, applied, vouched>>

UpdateRule(k, n, a) ==
  /\ MayUpdate(rules[k], n)
  /\ \E s \in Sheets, x \in Extras : Put(k, Updated(rules[k], n, s, x, a))
  /\ UNCHANGED <<datasets, run, applied, vouched>>

ApproveRule(k, n, b) ==
  /\ MayApprove(rules[k], n, b)
  /\ Put(k, Approved(rules[k], n, b, rules[k][n].sheet))
  /\ vouched' = [vouched EXCEPT ![k] = @ \cup {rules[k][n].extra}]
  /\ UNCHANGED <<datasets, run, applied>>

ActivateRule(k, n) ==
  /\ MayActivate(rules[k], n)
  /\ Put(k, Activated(rules[k], n))
  /\ UNCHANGED <<datasets, run, applied, vouched>>

RetireRule(k, n) ==
  /\ rules[k][n].status # "retired"
  /\ Put(k, [rules[k] EXCEPT ![n].status = "retired"])
  /\ UNCHANGED <<datasets, run, applied, vouched>>

-------------------------------------------------------------------------------
(* Datasets *)

\* upload: stored as validated, or as rejected when rows are wrong.
Upload(d, a) ==
  /\ datasets[d].status = "none"
  /\ \E f \in Files, s \in {"validated", "rejected"} :
       datasets' = [datasets EXCEPT ![d] =
         [status |-> s, author |-> a, reviewer |-> Nobody, file |-> f]]
  /\ UNCHANGED <<rules, run, applied, vouched>>

ApproveDataset(d, b) ==
  /\ datasets[d].status = "validated" /\ datasets[d].author # b
  /\ datasets' = [datasets EXCEPT ![d].status = "approved", ![d].reviewer = b]
  /\ UNCHANGED <<rules, run, applied, vouched>>

\* activate: the dataset is loaded outside of the transaction.
Load(r, d) ==
  /\ run[r].pc = "idle" /\ datasets[d].status = "approved"
  /\ run' = [run EXCEPT ![r] = [pc |-> "loaded", dataset |-> d]]
  /\ UNCHANGED <<rules, datasets, applied, vouched>>

\* The version a sheet merges into: the newest open one, else the active one.
Target(vs) == LET open == OpenIn(vs) IN IF open # {} THEN Max(open) ELSE CHOOSE n \in ActiveIn(vs) : TRUE

\* A key whose versions are all retired can be neither updated nor created.
SheetApplies(vs) == vs = <<>> \/ OpenIn(vs) # {} \/ (ActiveIn(vs) # {} /\ Len(vs) < MaxVersions)

\* The sheet's part replaces that of the target; the author of the dataset becomes its author, the
\* reviewer approves it, and it goes live.
SheetApplied(vs, sheet, d) ==
  LET fresh == vs = <<>>
      n     == Target(vs)
      a     == datasets[d].author
      next  == IF fresh THEN Created(vs, sheet, NoExtra, a)
               ELSE Updated(vs, n, sheet, vs[n].extra, a)
      m     == IF fresh THEN 1 ELSE IF vs[n].status = "active" THEN Len(next) ELSE n
  IN Activated(Approved(next, m, datasets[d].reviewer, sheet), m)

\* Mutation: the dataset is not read again in the transaction.
ApplyLoaded(r) ==
  /\ run[r].pc = "loaded"
  /\ LET d == run[r].dataset IN
     /\ \A k \in DOMAIN datasets[d].file : SheetApplies(rules[k])
     /\ rules' = [k \in Keys |-> IF k \in DOMAIN datasets[d].file
                                   THEN SheetApplied(rules[k], datasets[d].file[k], d)
                                   ELSE rules[k]]
     /\ datasets' = [datasets EXCEPT ![d].status = "active"]
     /\ applied' = [applied EXCEPT ![d] = @ + 1]
  /\ run' = [run EXCEPT ![r] = NoRun]
  /\ UNCHANGED vouched

\* The transaction: the dataset is read again, everything is applied, or nothing.
Apply(r) ==
  /\ run[r].pc = "loaded"
  /\ LET d == run[r].dataset IN
     /\ datasets[d].status = "approved"
     /\ \A k \in DOMAIN datasets[d].file : SheetApplies(rules[k])
     /\ rules' = [k \in Keys |-> IF k \in DOMAIN datasets[d].file
                                   THEN SheetApplied(rules[k], datasets[d].file[k], d)
                                   ELSE rules[k]]
     /\ datasets' = [datasets EXCEPT ![d].status = "active"]
     /\ applied' = [applied EXCEPT ![d] = @ + 1]
  /\ run' = [run EXCEPT ![r] = NoRun]
  /\ UNCHANGED vouched

\* The transaction is rolled back: activated by another request meanwhile, content that does not
\* apply, or a database error.
Abort(r) ==
  /\ run[r].pc = "loaded"
  /\ run' = [run EXCEPT ![r].pc = "failing"]
  /\ UNCHANGED <<rules, datasets, applied, vouched>>

\* The failure is recorded in a transaction of its own, if the dataset is still approved.
RecordFailure(r) ==
  /\ run[r].pc = "failing"
  /\ datasets' = [datasets EXCEPT ![run[r].dataset].status = IF @ = "approved" THEN "failed" ELSE @]
  /\ run' = [run EXCEPT ![r] = NoRun]
  /\ UNCHANGED <<rules, applied, vouched>>

\* The process dies: the request is lost, an open transaction rolls back.
Crash(r) ==
  /\ run[r].pc # "idle"
  /\ run' = [run EXCEPT ![r] = NoRun]
  /\ UNCHANGED <<rules, datasets, applied, vouched>>

Next ==
  \/ \E k \in Keys, a \in Admins : CreateRule(k, a)
  \/ \E k \in Keys : \E n \in DOMAIN rules[k] :
       \/ \E a \in Admins : UpdateRule(k, n, a) \/ ApproveRule(k, n, a)
       \/ ActivateRule(k, n) \/ RetireRule(k, n)
  \/ \E d \in Datasets, a \in Admins : Upload(d, a) \/ ApproveDataset(d, a)
  \/ \E r \in Runs : \/ \E d \in Datasets : Load(r, d)
                     \/ Apply(r) \/ Abort(r) \/ RecordFailure(r) \/ Crash(r)

Spec == Init /\ [][Next]_vars

-------------------------------------------------------------------------------
(* Properties *)

\* However edits, approvals, sheets and activations follow each other, a live rule carries the
\* approval of somebody else than its author, and trigger, class and priority are what was approved.
LiveRuleReviewed ==
  \A k \in Keys : \A n \in Active(k) :
    /\ rules[k][n].approvedBy \in Admins \ {rules[k][n].createdBy}
    /\ rules[k][n].seen = rules[k][n].sheet

\* At most one version of a rule is live and at most one is open, also when a dataset activates a
\* rule somebody is editing: the unique index on {tenantId, key, isCurrent}.
OneLiveOneOpen == \A k \in Keys : Cardinality(Active(k)) <= 1 /\ Cardinality(Open(k)) <= 1

\* Only a retirement takes the last live version of a rule away: editing, approving and failed or
\* interrupted activations leave it in effect.
GoesByRetirement ==
  \A k \in Keys : Active(k) # {} =>
    \/ Active(k)' # {}
    \/ \E n \in Active(k) : rules'[k] = [rules[k] EXCEPT ![n].status = "retired"]
LiveUntilReplaced == [][GoesByRetirement]_vars

\* Two requests activate one dataset, processes die between the rollback and its record: the
\* content was applied once if the dataset is active and not at all otherwise.
AppliedIffActive ==
  \A d \in Datasets : applied[d] = IF datasets[d].status = "active" THEN 1 ELSE 0

\* What change control is for, without versions, requests and failures: what is in effect was
\* reviewed, as it is, by somebody else than its author and is never edited in place; an edit takes
\* the review back; a dataset takes effect as reviewed, all of its rules at once, once or never.
PieceOf(v) == [content |-> v.sheet, author |-> v.createdBy, reviewer |-> v.approvedBy]
PiecesOf(vs, status) == {PieceOf(vs[n]) : n \in {n \in DOMAIN vs : vs[n].status = status}}
BatchOf(u) ==
  [status |-> IF u.status \in {"active", "failed"} THEN "closed"
              ELSE IF u.status = "approved" THEN "reviewed" ELSE "unreviewed",
   pieces |-> IF u.status = "approved"
                THEN [k \in DOMAIN u.file |->
                        [content |-> u.file[k], author |-> u.author, reviewer |-> u.reviewer]]
                ELSE <<>>]

Promise == INSTANCE FourEyes WITH
  Contents <- Sheets, Batches <- Datasets, People <- Admins,
  live     <- [k \in Keys |-> PiecesOf(rules[k], "active")],
  pending  <- [k \in Keys |-> PiecesOf(rules[k], "approved")],
  batch    <- [d \in Datasets |-> BatchOf(datasets[d])]
ImplementsFourEyes == Promise!Spec

\* The comment in datasets/model.ts: activation applies exactly what was reviewed.
ExtrasReviewed == \A k \in Keys : \A n \in Active(k) : rules[k][n].extra \in vouched[k]
===============================================================================
