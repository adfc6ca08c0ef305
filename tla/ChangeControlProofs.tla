-------------------------- MODULE ChangeControlProofs --------------------------
(***************************************************************************)
(* Proofs about ChangeControl: whatever rules, sheets, datasets,            *)
(* administrators and requests there are, a live rule was reviewed as it    *)
(* is, there is one of them, and a dataset applies once or not at all.      *)
(***************************************************************************)
EXTENDS ChangeControl, TLAPS, SequenceTheorems, FiniteSetTheorems

RuleStatuses == {"draft", "approved", "active", "retired"}
Docs == [status : RuleStatuses, sheet : Sheets, extra : Extras, createdBy : Admins,
         approvedBy : Admins \cup {Nobody}, seen : Sheets \cup {Nobody}]

\* An approved or live version was approved as it is, by somebody else than its author.
Reviewed(v) == v.approvedBy \in Admins \ {v.createdBy} /\ v.seen = v.sheet

\* The versions of a rule: each reviewed when it has to be, at most one open, at most one live.
Sane(vs) ==
  /\ vs \in Seq(Docs)
  /\ \A n \in DOMAIN vs : vs[n].status \in {"approved", "active"} => Reviewed(vs[n])
  /\ \A m, n \in DOMAIN vs : m \in OpenIn(vs) /\ n \in OpenIn(vs) => m = n
  /\ \A m, n \in DOMAIN vs : m \in ActiveIn(vs) /\ n \in ActiveIn(vs) => m = n

\* A dataset that is stored has an author; one that was approved, a reviewer who is not its author.
SaneUpload(d) ==
  /\ d.status \in {"none", "validated", "rejected", "approved", "active", "failed"}
  /\ DOMAIN d.file \subseteq Keys /\ \A k \in DOMAIN d.file : d.file[k] \in Sheets
  /\ d.status # "none" => d.author \in Admins
  /\ d.status \in {"approved", "active", "failed"} => d.reviewer \in Admins \ {d.author}

Uploads == [status : {"none", "validated", "rejected", "approved", "active", "failed"},
            author : Admins \cup {Nobody}, reviewer : Admins \cup {Nobody},
            file : Files \cup {<<>>}]

IInv ==
  /\ DOMAIN rules = Keys /\ \A k \in Keys : Sane(rules[k])
  /\ datasets \in [Datasets -> Uploads] /\ \A d \in Datasets : SaneUpload(datasets[d])
  /\ run \in [Runs -> [pc : {"idle", "loaded", "failing"}, dataset : Datasets \cup {Nobody}]]
  /\ \A r \in Runs : run[r].pc # "idle" => run[r].dataset \in Datasets
  /\ applied \in [Datasets -> Nat] /\ AppliedIffActive

-------------------------------------------------------------------------------
(* The operations on the versions of one rule *)

\* A function on 1..n is a sequence.
LEMMA FunctionIsSeq ==
  ASSUME NEW S, NEW n \in Nat, NEW f \in [1..n -> S]
  PROVE  f \in Seq(S) /\ DOMAIN f = 1..n /\ Len(f) = n
<1>1. f \in Seq(S)
  BY SeqDef
<1> QED
  BY <1>1, LenProperties

\* A new version is a document.
LEMMA VersionIsDoc ==
  ASSUME NEW s \in Sheets, NEW x \in Extras, NEW a \in Admins
  PROVE  /\ Version(s, x, a) \in Docs /\ Version(s, x, a).status = "draft"
         /\ Version(s, x, a).sheet = s /\ Version(s, x, a).createdBy = a
BY DEF Version, Docs, RuleStatuses

\* create: one draft.
LEMMA CreatedIsSane ==
  ASSUME NEW vs, NEW s \in Sheets, NEW x \in Extras, NEW a \in Admins
  PROVE  /\ Sane(Created(vs, s, x, a)) /\ DOMAIN Created(vs, s, x, a) = {1}
         /\ Created(vs, s, x, a)[1] = Version(s, x, a)
<1> DEFINE new == Version(s, x, a)
<1>1. new \in Docs /\ new.status = "draft"
  BY VersionIsDoc
<1> HIDE DEF new
<1>2. <<new>> \in Seq(Docs) /\ DOMAIN <<new>> = {1} /\ <<new>>[1] = new
  BY <1>1
<1>3. Created(vs, s, x, a) = <<new>>
  BY DEF Created, new
<1> QED
  BY <1>1, <1>2, <1>3 DEF Sane, OpenIn, ActiveIn, new

\* A version that is a draft again, or was just approved, in the place of an open one.
LEMMA ReopenedIsSane ==
  ASSUME NEW vs, Sane(vs), NEW n \in OpenIn(vs), NEW v \in Docs,
         v.status \in {"draft", "approved"}, v.status = "approved" => Reviewed(v)
  PROVE  /\ Sane([vs EXCEPT ![n] = v]) /\ DOMAIN [vs EXCEPT ![n] = v] = DOMAIN vs
         /\ ActiveIn([vs EXCEPT ![n] = v]) = ActiveIn(vs)
<1> DEFINE next == [vs EXCEPT ![n] = v]
<1>1. vs \in Seq(Docs) /\ n \in 1..Len(vs) /\ DOMAIN vs = 1..Len(vs)
  BY LenProperties DEF Sane, OpenIn
<1>2. next \in Seq(Docs) /\ DOMAIN next = DOMAIN vs /\ \A m \in DOMAIN vs : next[m] = IF m = n THEN v ELSE vs[m]
  BY <1>1, ExceptSeq
<1> HIDE DEF next
<1>3. OpenIn(next) = OpenIn(vs) /\ ActiveIn(next) = ActiveIn(vs)
  BY <1>2 DEF OpenIn, ActiveIn
<1>4. \A m \in DOMAIN next : next[m].status \in {"approved", "active"} => Reviewed(next[m])
  BY <1>2 DEF Sane
<1> QED
  BY <1>1, <1>2, <1>3, <1>4 DEF Sane, next

\* update: the open version is rewritten, or a copy of the live one is appended.
LEMMA UpdatedIsSane ==
  ASSUME NEW vs, Sane(vs), NEW n \in DOMAIN vs, NEW s \in Sheets, NEW x \in Extras, NEW a \in Admins,
         vs[n].status # "retired", vs[n].status = "active" => OpenIn(vs) = {}
  PROVE  LET next == Updated(vs, n, s, x, a)
             m    == IF vs[n].status = "active" THEN Len(next) ELSE n
         IN /\ Sane(next) /\ ActiveIn(next) = ActiveIn(vs) /\ \A i \in ActiveIn(vs) : next[i] = vs[i]
            /\ m \in DOMAIN next /\ next[m] = Version(s, x, a)
<1> DEFINE v == Version(s, x, a)
           next == Updated(vs, n, s, x, a)
<1>1. v \in Docs /\ v.status = "draft"
  BY VersionIsDoc
<1> HIDE DEF v
<1>2. vs \in Seq(Docs) /\ n \in 1..Len(vs) /\ DOMAIN vs = 1..Len(vs) /\ Len(vs) \in Nat
  BY LenProperties DEF Sane
<1>3. CASE vs[n].status = "active"
  <2>1. next = Append(vs, v)
    BY <1>3 DEF Updated, v
  <2>2. /\ next \in Seq(Docs) /\ Len(next) = Len(vs) + 1
        /\ next[Len(vs) + 1] = v /\ \A i \in 1..Len(vs) : next[i] = vs[i]
    BY <1>1, <1>2, <2>1, AppendProperties
  <2> HIDE DEF next
  <2>3. DOMAIN next = 1..(Len(vs) + 1)
    BY <2>2, LenProperties
  <2>4. OpenIn(next) = {Len(vs) + 1}
    BY <1>1, <1>2, <1>3, <2>2, <2>3 DEF OpenIn
  <2>5. ActiveIn(next) = ActiveIn(vs)
    BY <1>1, <1>2, <2>2, <2>3 DEF ActiveIn
  <2>6. \A i \in DOMAIN next : next[i].status \in {"approved", "active"} => Reviewed(next[i])
    BY <1>1, <1>2, <2>2, <2>3 DEF Sane
  <2>7. \A i, j \in ActiveIn(next) : i = j
    BY <2>5 DEF Sane, ActiveIn
  <2> QED
    BY <1>2, <1>3, <2>2, <2>3, <2>4, <2>5, <2>6, <2>7 DEF Sane, v, next, ActiveIn
<1>4. CASE vs[n].status # "active"
  <2>1. next = [vs EXCEPT ![n] = v]
    BY <1>4 DEF Updated, v
  <2>2. n \in OpenIn(vs)
    <3>1. vs[n] \in Docs
      BY <1>2, ElementOfSeq
    <3> QED
      BY <1>2, <1>4, <3>1 DEF OpenIn, Docs, RuleStatuses
  <2> HIDE DEF next
  <2>3. Sane(next) /\ DOMAIN next = DOMAIN vs /\ ActiveIn(next) = ActiveIn(vs)
    <3>1. v.status \in {"draft", "approved"} /\ (v.status = "approved" => Reviewed(v))
      BY <1>1
    <3>2. /\ Sane([vs EXCEPT ![n] = v]) /\ DOMAIN [vs EXCEPT ![n] = v] = DOMAIN vs
          /\ ActiveIn([vs EXCEPT ![n] = v]) = ActiveIn(vs)
      BY <1>1, <2>2, <3>1, ReopenedIsSane
    <3> QED
      BY <2>1, <3>2
  <2>4. \A i \in DOMAIN vs : next[i] = IF i = n THEN v ELSE vs[i]
    BY <1>1, <1>2, <2>1, ExceptSeq
  <2> QED
    BY <1>2, <1>4, <2>3, <2>4 DEF ActiveIn, v, next
<1> QED
  BY <1>3, <1>4

\* approve: by somebody else than the author, of what is there.
LEMMA ApprovedIsSane ==
  ASSUME NEW vs, Sane(vs), NEW n \in DOMAIN vs, NEW b \in Admins,
         vs[n].status = "draft", vs[n].createdBy # b
  PROVE  LET next == Approved(vs, n, b, vs[n].sheet) IN
         /\ Sane(next) /\ ActiveIn(next) = ActiveIn(vs) /\ DOMAIN next = DOMAIN vs
         /\ next[n].status = "approved"
<1> DEFINE v == [vs[n] EXCEPT !.status = "approved", !.approvedBy = b, !.seen = vs[n].sheet]
           next == Approved(vs, n, b, vs[n].sheet)
<1>1. vs \in Seq(Docs) /\ n \in 1..Len(vs) /\ DOMAIN vs = 1..Len(vs)
  BY LenProperties DEF Sane
<1>2. vs[n] \in Docs
  BY <1>1, ElementOfSeq
<1>3. v \in Docs /\ v.status = "approved" /\ Reviewed(v)
  BY <1>2 DEF Docs, RuleStatuses, Reviewed
<1>4. next = [vs EXCEPT ![n] = v]
  BY <1>1 DEF Approved
<1>5. n \in OpenIn(vs)
  BY DEF OpenIn
<1> HIDE DEF v, next
<1> QED
  <2>1. Sane(next) /\ DOMAIN next = DOMAIN vs /\ ActiveIn(next) = ActiveIn(vs)
    BY <1>3, <1>4, <1>5, ReopenedIsSane
  <2>2. next[n] = v
    BY <1>1, <1>3, <1>4, ExceptSeq
  <2> QED
    BY <1>3, <2>1, <2>2 DEF next

\* activate: the approved version is the live one from now on.
LEMMA ActivatedIsSane ==
  ASSUME NEW vs, Sane(vs), NEW n \in DOMAIN vs, vs[n].status = "approved"
  PROVE  Sane(Activated(vs, n)) /\ ActiveIn(Activated(vs, n)) = {n}
<1> DEFINE next == Activated(vs, n)
           D == 1..Len(vs)
<1>1. vs \in Seq(Docs) /\ DOMAIN vs = D /\ Len(vs) \in Nat /\ n \in D
  BY LenProperties DEF Sane
<1>2. \A m \in D : vs[m] \in Docs
  BY <1>1, ElementOfSeq
<1>3. DOMAIN next = D /\ \A m \in D : next[m] =
         IF m = n THEN [vs[m] EXCEPT !.status = "active"]
         ELSE IF vs[m].status = "active" THEN [vs[m] EXCEPT !.status = "retired"] ELSE vs[m]
  BY <1>1 DEF Activated
<1>4. \A m \in D : next[m] \in Docs
  BY <1>2, <1>3 DEF Docs, RuleStatuses
<1>5. next \in [D -> Docs]
  <2>1. next = [m \in D |-> next[m]]
    BY <1>1 DEF Activated
  <2> HIDE DEF next
  <2> QED
    BY <2>1, <1>3, <1>4
<1> HIDE DEF next
<1>6. next \in Seq(Docs)
  BY <1>1, <1>5, FunctionIsSeq
<1>7. \A m \in D : /\ m = n => next[m].status = "active"
                   /\ m # n /\ vs[m].status = "active" => next[m].status = "retired"
                   /\ m # n /\ vs[m].status # "active" => next[m] = vs[m]
  BY <1>2, <1>3 DEF Docs
<1>8. ActiveIn(next) = {n}
  BY <1>1, <1>3, <1>7 DEF ActiveIn
<1>9. OpenIn(next) \subseteq OpenIn(vs)
  BY <1>1, <1>3, <1>7 DEF OpenIn
<1>10. Reviewed(next[n])
  BY <1>1, <1>2, <1>3 DEF Sane, Reviewed, Docs
<1>11. \A m \in D : next[m].status \in {"approved", "active"} => Reviewed(next[m])
  BY <1>1, <1>7, <1>10 DEF Sane
<1> QED
  BY <1>1, <1>3, <1>6, <1>8, <1>9, <1>11 DEF Sane, OpenIn, next

\* retire: a version less that is open or live.
LEMMA RetiredIsSane ==
  ASSUME NEW vs, Sane(vs), NEW n \in DOMAIN vs
  PROVE  /\ Sane([vs EXCEPT ![n].status = "retired"])
         /\ n \notin ActiveIn(vs) => ActiveIn([vs EXCEPT ![n].status = "retired"]) = ActiveIn(vs)
<1> DEFINE v == [vs[n] EXCEPT !.status = "retired"]
           next == [vs EXCEPT ![n] = v]
<1>1. vs \in Seq(Docs) /\ n \in 1..Len(vs) /\ DOMAIN vs = 1..Len(vs)
  BY LenProperties DEF Sane
<1>2. vs[n] \in Docs
  BY <1>1, ElementOfSeq
<1>3. v \in Docs /\ v.status = "retired"
  BY <1>2 DEF Docs, RuleStatuses
<1> HIDE DEF v
<1>4. next \in Seq(Docs) /\ DOMAIN next = DOMAIN vs
      /\ \A m \in DOMAIN vs : next[m] = IF m = n THEN v ELSE vs[m]
  BY <1>1, <1>3, ExceptSeq
<1> HIDE DEF next
<1>5. OpenIn(next) \subseteq OpenIn(vs) /\ ActiveIn(next) \subseteq ActiveIn(vs)
  BY <1>3, <1>4 DEF OpenIn, ActiveIn
<1>6. \A m \in DOMAIN next : next[m].status \in {"approved", "active"} => Reviewed(next[m])
  BY <1>3, <1>4 DEF Sane
<1>7. Sane(next)
  BY <1>4, <1>5, <1>6 DEF Sane, OpenIn, ActiveIn
<1>8. n \notin ActiveIn(vs) => ActiveIn(next) = ActiveIn(vs)
  BY <1>3, <1>4 DEF ActiveIn
<1>9. next = [vs EXCEPT ![n].status = "retired"]
  BY DEF next, v
<1> QED
  BY <1>7, <1>8, <1>9

\* The version a sheet merges into is the one that is open, else the one that is live.
LEMMA TargetIsEditable ==
  ASSUME NEW vs, Sane(vs), vs # <<>>, SheetApplies(vs)
  PROVE  /\ Target(vs) \in DOMAIN vs /\ vs[Target(vs)].status # "retired"
         /\ vs[Target(vs)].status = "active" => OpenIn(vs) = {}
<1>1. CASE OpenIn(vs) # {}
  <2>1. PICK n \in DOMAIN vs : n \in OpenIn(vs) /\ OpenIn(vs) = {n}
    BY <1>1 DEF Sane, OpenIn
  <2>2. n \in Int
    BY <2>1, LenProperties DEF Sane
  <2>3. Max(OpenIn(vs)) = n
    BY <2>1, <2>2 DEF Max
  <2> QED
    BY <1>1, <2>1, <2>3 DEF Target, OpenIn
<1>2. CASE OpenIn(vs) = {}
  <2>1. ActiveIn(vs) # {}
    BY <1>2 DEF SheetApplies
  <2>2. Target(vs) = CHOOSE n \in ActiveIn(vs) : TRUE
    BY <1>2 DEF Target
  <2>3. Target(vs) \in ActiveIn(vs)
    BY <2>1, <2>2
  <2> QED
    BY <1>2, <2>3 DEF ActiveIn
<1> QED
  BY <1>1, <1>2

\* A sheet becomes a draft of the dataset's author, created or merged, and nothing else is open.
LEMMA SheetIsDrafted ==
  ASSUME NEW vs, Sane(vs), SheetApplies(vs), NEW s \in Sheets, NEW d, datasets[d].author \in Admins
  PROVE  \E next : \E m \in DOMAIN next :
           /\ Sane(next)
           /\ next[m].status = "draft" /\ next[m].sheet = s /\ next[m].createdBy = datasets[d].author
           /\ SheetApplied(vs, s, d) = Activated(Approved(next, m, datasets[d].reviewer, s), m)
<1> DEFINE a == datasets[d].author
           b == datasets[d].reviewer
<1>1. CASE vs = <<>>
  <2> DEFINE new == Created(vs, s, NoExtra, a)
  <2>1. SheetApplied(vs, s, d) = Activated(Approved(new, 1, b, s), 1)
    BY <1>1 DEF SheetApplied
  <2>2. Sane(new) /\ 1 \in DOMAIN new /\ new[1] = Version(s, NoExtra, a)
    BY CreatedIsSane, ChangeControlOK
  <2>3. new[1].status = "draft" /\ new[1].sheet = s /\ new[1].createdBy = a
    BY <2>2, VersionIsDoc, ChangeControlOK
  <2> HIDE DEF new
  <2> QED
    BY <2>1, <2>2, <2>3
<1>2. CASE vs # <<>>
  <2> DEFINE n   == Target(vs)
             x   == vs[n].extra
             new == Updated(vs, n, s, x, a)
             p   == IF vs[n].status = "active" THEN Len(new) ELSE n
  <2>1. SheetApplied(vs, s, d) = Activated(Approved(new, p, b, s), p)
    BY <1>2 DEF SheetApplied
  <2>2. n \in DOMAIN vs /\ vs[n].status # "retired" /\ (vs[n].status = "active" => OpenIn(vs) = {})
    BY <1>2, TargetIsEditable
  <2>3. x \in Extras
    <3>1. vs[n] \in Docs
      BY <2>2, ElementOfSeq, LenProperties DEF Sane
    <3> QED
      BY <3>1 DEF Docs
  <2> HIDE DEF n, x
  <2>4. Sane(new) /\ p \in DOMAIN new /\ new[p] = Version(s, x, a)
    BY <2>2, <2>3, UpdatedIsSane
  <2>5. new[p].status = "draft" /\ new[p].sheet = s /\ new[p].createdBy = a
    BY <2>3, <2>4, VersionIsDoc
  <2> HIDE DEF new, p
  <2> QED
    BY <2>1, <2>4, <2>5
<1> QED
  BY <1>1, <1>2

\* The draft is approved by the reviewer of the dataset and goes live.
LEMMA SheetAppliedIsSane ==
  ASSUME NEW vs, Sane(vs), SheetApplies(vs), NEW s \in Sheets, NEW d,
         datasets[d].author \in Admins, datasets[d].reviewer \in Admins \ {datasets[d].author}
  PROVE  Sane(SheetApplied(vs, s, d)) /\ ActiveIn(SheetApplied(vs, s, d)) # {}
<1> DEFINE b == datasets[d].reviewer
<1>1. PICK next : \E m \in DOMAIN next :
        /\ Sane(next)
        /\ next[m].status = "draft" /\ next[m].sheet = s /\ next[m].createdBy = datasets[d].author
        /\ SheetApplied(vs, s, d) = Activated(Approved(next, m, b, s), m)
  BY SheetIsDrafted
<1>2. PICK m \in DOMAIN next :
        /\ Sane(next)
        /\ next[m].status = "draft" /\ next[m].sheet = s /\ next[m].createdBy = datasets[d].author
        /\ SheetApplied(vs, s, d) = Activated(Approved(next, m, b, s), m)
  BY <1>1
<1>3. /\ Sane(Approved(next, m, b, s)) /\ m \in DOMAIN Approved(next, m, b, s)
      /\ Approved(next, m, b, s)[m].status = "approved"
  BY <1>2, ApprovedIsSane
<1>4. /\ Sane(Activated(Approved(next, m, b, s), m))
      /\ ActiveIn(Activated(Approved(next, m, b, s), m)) = {m}
  BY <1>3, ActivatedIsSane
<1> QED
  BY <1>2, <1>4

-------------------------------------------------------------------------------
(* Every step *)

\* What a step may make of the versions vs of a rule: a live version goes only by retirement.
Keeps(vs, w) ==
  ActiveIn(vs) # {} =>
    ActiveIn(w) # {} \/ \E n \in ActiveIn(vs) : w = [vs EXCEPT ![n].status = "retired"]

\* Each rule has its versions in order after the step, and kept its live one.
RulesStay == DOMAIN rules' = Keys /\ \A k \in Keys : Sane(rules'[k]) /\ Keeps(rules[k], rules'[k])

\* An operation on one rule leaves the others as they are.
LEMMA OneRule ==
  ASSUME IInv, NEW k \in Keys, NEW w, Sane(w), Keeps(rules[k], w), Put(k, w)
  PROVE  RulesStay
<1>1. DOMAIN rules' = Keys /\ \A j \in Keys : rules'[j] = IF j = k THEN w ELSE rules[j]
  BY DEF IInv, Put
<1> QED
  BY <1>1 DEF IInv, Keeps, RulesStay

\* An edit or an approval.
LEMMA RuleOperation ==
  ASSUME IInv, NEW k \in Keys, NEW n \in DOMAIN rules[k], NEW a \in Admins,
         UpdateRule(k, n, a) \/ ApproveRule(k, n, a)
  PROVE  RulesStay
<1> DEFINE vs == rules[k]
<1>1. Sane(vs)
  BY DEF IInv
<1>2. CASE UpdateRule(k, n, a)
  <2>1. PICK s \in Sheets, x \in Extras : Put(k, Updated(vs, n, s, x, a))
    BY <1>2 DEF UpdateRule
  <2>2. Sane(Updated(vs, n, s, x, a)) /\ ActiveIn(Updated(vs, n, s, x, a)) = ActiveIn(vs)
    BY <1>1, <1>2, UpdatedIsSane DEF UpdateRule, MayUpdate
  <2> QED
    BY <2>1, <2>2, OneRule DEF Keeps
<1>3. CASE ApproveRule(k, n, a)
  <2> DEFINE w == Approved(vs, n, a, vs[n].sheet)
  <2>1. Put(k, w) /\ vs[n].status = "draft" /\ vs[n].createdBy # a
    BY <1>3 DEF ApproveRule, MayApprove
  <2>2. Sane(w) /\ ActiveIn(w) = ActiveIn(vs)
    BY <1>1, <2>1, ApprovedIsSane
  <2> QED
    BY <2>1, <2>2, OneRule DEF Keeps
<1> QED
  BY <1>2, <1>3

\* An activation or a retirement.
LEMMA LiveOperation ==
  ASSUME IInv, NEW k \in Keys, NEW n \in DOMAIN rules[k],
         ActivateRule(k, n) \/ RetireRule(k, n)
  PROVE  RulesStay
<1> DEFINE vs == rules[k]
<1>1. Sane(vs)
  BY DEF IInv
<1>2. CASE ActivateRule(k, n)
  <2>1. Put(k, Activated(vs, n)) /\ vs[n].status = "approved"
    BY <1>2 DEF ActivateRule, MayActivate
  <2>2. Sane(Activated(vs, n)) /\ ActiveIn(Activated(vs, n)) # {}
    BY <1>1, <2>1, ActivatedIsSane
  <2> QED
    BY <2>1, <2>2, OneRule DEF Keeps
<1>3. CASE RetireRule(k, n)
  <2> DEFINE w == [vs EXCEPT ![n].status = "retired"]
  <2>1. Put(k, w)
    BY <1>3 DEF RetireRule, Put
  <2>2. Sane(w) /\ (n \notin ActiveIn(vs) => ActiveIn(w) = ActiveIn(vs))
    BY <1>1, RetiredIsSane
  <2>3. Keeps(vs, w)
    BY <2>2 DEF Keeps
  <2> HIDE DEF w
  <2> QED
    BY <2>1, <2>2, <2>3, OneRule
<1> QED
  BY <1>2, <1>3

\* The transaction that applies a dataset.
LEMMA ApplyRules ==
  ASSUME IInv, NEW r \in Runs, Apply(r)
  PROVE  RulesStay
<1> DEFINE d == run[r].dataset
           f == datasets[d].file
<1>1. d \in Datasets /\ datasets[d].status = "approved"
  BY DEF IInv, Apply
<1>2. /\ datasets[d].author \in Admins /\ datasets[d].reviewer \in Admins \ {datasets[d].author}
      /\ \A k \in DOMAIN f : f[k] \in Sheets
  BY <1>1 DEF IInv, SaneUpload
<1>3. /\ DOMAIN rules' = Keys /\ \A k \in DOMAIN f : SheetApplies(rules[k])
      /\ \A k \in Keys : rules'[k] = IF k \in DOMAIN f THEN SheetApplied(rules[k], f[k], d) ELSE rules[k]
  BY DEF Apply
<1> HIDE DEF d, f
<1>4. ASSUME NEW k \in Keys
      PROVE  Sane(rules'[k]) /\ Keeps(rules[k], rules'[k])
  <2>1. Sane(rules[k])
    BY DEF IInv
  <2>2. CASE k \in DOMAIN f
    <3>1. Sane(SheetApplied(rules[k], f[k], d)) /\ ActiveIn(SheetApplied(rules[k], f[k], d)) # {}
      BY <1>2, <1>3, <2>1, <2>2, SheetAppliedIsSane
    <3> QED
      BY <1>3, <2>2, <3>1 DEF Keeps
  <2> QED
    BY <1>3, <2>1, <2>2 DEF Keeps
<1> QED
  BY <1>3, <1>4 DEF RulesStay

\* Every step.
LEMMA StepRules ==
  IInv /\ [Next]_vars => RulesStay
<1> SUFFICES ASSUME IInv, [Next]_vars PROVE RulesStay
  OBVIOUS
<1>1. ASSUME UNCHANGED rules PROVE RulesStay
  BY <1>1 DEF IInv, RulesStay, Keeps
<1>2. ASSUME NEW k \in Keys, NEW a \in Admins, CreateRule(k, a) PROVE RulesStay
  <2>1. PICK s \in Sheets, x \in Extras : Put(k, Created(rules[k], s, x, a))
    BY <1>2 DEF CreateRule
  <2>2. Sane(Created(rules[k], s, x, a))
    BY CreatedIsSane
  <2>3. ActiveIn(rules[k]) = {}
    BY <1>2 DEF CreateRule, ActiveIn
  <2> QED
    BY <2>1, <2>2, <2>3, OneRule DEF Keeps
<1>3. ASSUME NEW k \in Keys, NEW n \in DOMAIN rules[k], NEW a \in Admins,
             UpdateRule(k, n, a) \/ ApproveRule(k, n, a)
      PROVE  RulesStay
  BY <1>3, RuleOperation
<1>4. ASSUME NEW k \in Keys, NEW n \in DOMAIN rules[k], ActivateRule(k, n) \/ RetireRule(k, n)
      PROVE  RulesStay
  BY <1>4, LiveOperation
<1>5. ASSUME NEW d \in Datasets, NEW a \in Admins, Upload(d, a) \/ ApproveDataset(d, a) PROVE RulesStay
  BY <1>1, <1>5 DEF Upload, ApproveDataset
<1>6. ASSUME NEW r \in Runs, Apply(r) PROVE RulesStay
  BY <1>6, ApplyRules
<1>7. ASSUME NEW r \in Runs, (\E d \in Datasets : Load(r, d)) \/ Abort(r) \/ RecordFailure(r) \/ Crash(r)
      PROVE  RulesStay
  BY <1>1, <1>7 DEF Load, Abort, RecordFailure, Crash
<1>8. ASSUME UNCHANGED vars PROVE RulesStay
  BY <1>1, <1>8 DEF vars
<1> QED
  BY <1>2, <1>3, <1>4, <1>5, <1>6, <1>7, <1>8 DEF Next

\* Uploads and requests after the step.
UploadsStay ==
  /\ datasets' \in [Datasets -> Uploads] /\ \A d \in Datasets : SaneUpload(datasets'[d])
  /\ run' \in [Runs -> [pc : {"idle", "loaded", "failing"}, dataset : Datasets \cup {Nobody}]]
  /\ \A r \in Runs : run'[r].pc # "idle" => run'[r].dataset \in Datasets
  /\ applied' \in [Datasets -> Nat] /\ AppliedIffActive'

\* One dataset after the step; the others, their counts and the requests stay sane by themselves.
LEMMA OneDataset ==
  ASSUME IInv, NEW d \in Datasets, NEW u \in Uploads, SaneUpload(u), NEW n \in Nat,
         n = IF u.status = "active" THEN 1 ELSE 0,
         datasets' = [datasets EXCEPT ![d] = u], applied' = [applied EXCEPT ![d] = n],
         run' \in [Runs -> [pc : {"idle", "loaded", "failing"}, dataset : Datasets \cup {Nobody}]],
         \A r \in Runs : run'[r].pc # "idle" => run'[r].dataset \in Datasets
  PROVE  UploadsStay
<1>1. \A e \in Datasets : /\ datasets'[e] = IF e = d THEN u ELSE datasets[e]
                          /\ applied'[e] = IF e = d THEN n ELSE applied[e]
  BY DEF IInv
<1>2. AppliedIffActive'
  BY <1>1 DEF IInv, AppliedIffActive
<1> QED
  BY <1>1, <1>2 DEF IInv, UploadsStay

\* A request moves on; datasets and counts are left alone.
LEMMA OneRequest ==
  ASSUME IInv, NEW r \in Runs, NEW q \in [pc : {"idle", "loaded", "failing"}, dataset : Datasets \cup {Nobody}],
         q.pc # "idle" => q.dataset \in Datasets,
         run' = [run EXCEPT ![r] = q]
  PROVE  /\ run' \in [Runs -> [pc : {"idle", "loaded", "failing"}, dataset : Datasets \cup {Nobody}]]
         /\ \A t \in Runs : run'[t].pc # "idle" => run'[t].dataset \in Datasets
BY DEF IInv

\* Every step.
LEMMA StepUploads ==
  IInv /\ [Next]_vars => UploadsStay
<1> SUFFICES ASSUME IInv, [Next]_vars PROVE UploadsStay
  OBVIOUS
<1>1. ASSUME UNCHANGED <<datasets, run, applied>> PROVE UploadsStay
  BY <1>1 DEF IInv, UploadsStay, AppliedIffActive
<1>2. ASSUME NEW d \in Datasets, NEW a \in Admins, Upload(d, a) PROVE UploadsStay
  <2>1. PICK f \in Files, s \in {"validated", "rejected"} :
          datasets' = [datasets EXCEPT ![d] = [status |-> s, author |-> a, reviewer |-> Nobody, file |-> f]]
    BY <1>2 DEF Upload
  <2> DEFINE u == [status |-> s, author |-> a, reviewer |-> Nobody, file |-> f]
  <2>2. u \in Uploads /\ SaneUpload(u) /\ u.status # "active"
    BY ChangeControlOK DEF Uploads, SaneUpload
  <2> HIDE DEF u
  <2>3. datasets[d].status # "active" /\ UNCHANGED <<run, applied>>
    BY <1>2 DEF Upload
  <2>4. applied' = [applied EXCEPT ![d] = 0]
    BY <2>3 DEF IInv, AppliedIffActive
  <2> QED
    BY <2>1, <2>2, <2>3, <2>4, OneDataset DEF IInv, u
<1>3. ASSUME NEW d \in Datasets, NEW b \in Admins, ApproveDataset(d, b) PROVE UploadsStay
  <2> DEFINE u == [datasets[d] EXCEPT !.status = "approved", !.reviewer = b]
  <2>1. datasets[d] \in Uploads /\ SaneUpload(datasets[d]) /\ datasets[d].status = "validated"
        /\ datasets[d].author # b
    BY <1>3 DEF IInv, ApproveDataset
  <2>2. u \in Uploads /\ SaneUpload(u) /\ u.status = "approved"
    BY <2>1 DEF Uploads, SaneUpload
  <2>3. datasets' = [datasets EXCEPT ![d] = u] /\ UNCHANGED <<run, applied>>
    BY <1>3 DEF ApproveDataset
  <2> HIDE DEF u
  <2>4. applied' = [applied EXCEPT ![d] = 0]
    BY <2>1, <2>3 DEF IInv, AppliedIffActive
  <2> QED
    BY <2>2, <2>3, <2>4, OneDataset DEF IInv
<1>4. ASSUME NEW r \in Runs, NEW d \in Datasets, Load(r, d) PROVE UploadsStay
  <2>1. run' = [run EXCEPT ![r] = [pc |-> "loaded", dataset |-> d]] /\ UNCHANGED <<datasets, applied>>
    BY <1>4 DEF Load
  <2> QED
    BY <2>1, OneRequest DEF IInv, UploadsStay, AppliedIffActive
<1>5. ASSUME NEW r \in Runs, Apply(r) PROVE UploadsStay
  <2> DEFINE d == run[r].dataset
             u == [datasets[d] EXCEPT !.status = "active"]
  <2>1. d \in Datasets /\ datasets[d].status = "approved"
    BY <1>5 DEF IInv, Apply
  <2>2. u \in Uploads /\ SaneUpload(u) /\ u.status = "active"
    <3>1. datasets[d] \in Uploads /\ SaneUpload(datasets[d])
      BY <2>1 DEF IInv
    <3> QED
      BY <2>1, <3>1 DEF Uploads, SaneUpload
  <2>3. datasets' = [datasets EXCEPT ![d] = u] /\ applied' = [applied EXCEPT ![d] = applied[d] + 1]
    BY <1>5 DEF Apply
  <2>4. applied[d] + 1 = 1
    BY <2>1 DEF IInv, AppliedIffActive
  <2>5. run' = [run EXCEPT ![r] = NoRun]
    BY <1>5 DEF Apply
  <2> HIDE DEF d, u
  <2>6. /\ run' \in [Runs -> [pc : {"idle", "loaded", "failing"}, dataset : Datasets \cup {Nobody}]]
        /\ \A t \in Runs : run'[t].pc # "idle" => run'[t].dataset \in Datasets
    BY <2>5, OneRequest DEF NoRun
  <2>7. applied' = [applied EXCEPT ![d] = 1]
    BY <2>3, <2>4
  <2> QED
    BY <2>1, <2>2, <2>3, <2>6, <2>7, OneDataset
<1>6. ASSUME NEW r \in Runs, Abort(r) \/ Crash(r) PROVE UploadsStay
  <2>1. run[r].pc # "idle" /\ UNCHANGED <<datasets, applied>>
    BY <1>6 DEF Abort, Crash
  <2>2. PICK q \in {[run[r] EXCEPT !.pc = "failing"], NoRun} : run' = [run EXCEPT ![r] = q]
    BY <1>6 DEF Abort, Crash
  <2>3. q \in [pc : {"idle", "loaded", "failing"}, dataset : Datasets \cup {Nobody}]
        /\ (q.pc # "idle" => q.dataset \in Datasets)
    BY <2>1 DEF IInv, NoRun
  <2> QED
    BY <2>1, <2>2, <2>3, OneRequest DEF IInv, UploadsStay, AppliedIffActive
<1>7. ASSUME NEW r \in Runs, RecordFailure(r) PROVE UploadsStay
  <2> DEFINE d == run[r].dataset
             u == [datasets[d] EXCEPT !.status = IF @ = "approved" THEN "failed" ELSE @]
  <2>1. d \in Datasets
    BY <1>7 DEF IInv, RecordFailure
  <2>2. u \in Uploads /\ SaneUpload(u) /\ (u.status = "active" <=> datasets[d].status = "active")
    <3>1. datasets[d] \in Uploads /\ SaneUpload(datasets[d])
      BY <2>1 DEF IInv
    <3> QED
      BY <3>1 DEF Uploads, SaneUpload
  <2>3. datasets' = [datasets EXCEPT ![d] = u] /\ UNCHANGED applied /\ run' = [run EXCEPT ![r] = NoRun]
    BY <1>7 DEF RecordFailure
  <2>4. applied[d] \in Nat /\ applied[d] = IF u.status = "active" THEN 1 ELSE 0
    BY <2>1, <2>2 DEF IInv, AppliedIffActive
  <2> HIDE DEF d, u
  <2>5. /\ run' \in [Runs -> [pc : {"idle", "loaded", "failing"}, dataset : Datasets \cup {Nobody}]]
        /\ \A t \in Runs : run'[t].pc # "idle" => run'[t].dataset \in Datasets
    BY <2>3, OneRequest DEF NoRun
  <2>6. applied' = [applied EXCEPT ![d] = applied[d]]
    BY <2>3 DEF IInv
  <2> QED
    BY <2>1, <2>2, <2>3, <2>4, <2>5, <2>6, OneDataset
<1>8. ASSUME NEW k \in Keys, (\E a \in Admins : CreateRule(k, a))
             \/ \E n \in DOMAIN rules[k] :
                  \/ \E a \in Admins : UpdateRule(k, n, a) \/ ApproveRule(k, n, a)
                  \/ ActivateRule(k, n) \/ RetireRule(k, n)
      PROVE  UploadsStay
  BY <1>1, <1>8 DEF CreateRule, UpdateRule, ApproveRule, ActivateRule, RetireRule
<1>9. ASSUME UNCHANGED vars PROVE UploadsStay
  BY <1>1, <1>9 DEF vars
<1> QED
  BY <1>2, <1>3, <1>4, <1>5, <1>6, <1>7, <1>8, <1>9 DEF Next

-------------------------------------------------------------------------------
(* The theorems *)

\* Nothing is there at first.
LEMMA InitIInv ==
  Init => IInv
<1> SUFFICES ASSUME Init PROVE IInv
  OBVIOUS
<1>1. Sane(<<>>)
  BY DEF Sane, OpenIn, ActiveIn
<1>2. NoDataset \in Uploads /\ SaneUpload(NoDataset)
  BY DEF NoDataset, Uploads, SaneUpload
<1> QED
  BY <1>1, <1>2 DEF Init, IInv, NoRun, AppliedIffActive, NoDataset

\* IInv is inductive.
LEMMA NextIInv ==
  IInv /\ [Next]_vars => IInv'
BY StepRules, StepUploads DEF IInv, RulesStay, UploadsStay, Sane, OpenIn, ActiveIn

\* In every reachable state the versions of every rule are in order: at most one open, at most one
\* live, approved ones reviewed, and the stored uploads agree with what was applied.
THEOREM AlwaysIInv ==
  Spec => []IInv
BY InitIInv, NextIInv, PTL DEF Spec

\* However edits, approvals, sheets and activations of any number of administrators, rules and
\* datasets follow each other, a live rule was approved as it is by somebody else than its author.
THEOREM AlwaysLiveRuleReviewed ==
  Spec => []LiveRuleReviewed
<1>1. IInv => LiveRuleReviewed
  BY DEF IInv, LiveRuleReviewed, Active, ActiveIn, Sane, Reviewed
<1> QED
  BY <1>1, AlwaysIInv, PTL

\* Activation requests, rollbacks, records of failure and crashes in any number and order: the
\* content of a dataset was applied once if it is active and not at all otherwise.
THEOREM AlwaysAppliedIffActive ==
  Spec => []AppliedIffActive
<1>1. IInv => AppliedIffActive
  BY DEF IInv
<1> QED
  BY <1>1, AlwaysIInv, PTL

\* A rule has at most one live and at most one open version.
THEOREM AlwaysOneLiveOneOpen ==
  Spec => []OneLiveOneOpen
<1>1. ASSUME NEW S, \A m, n \in S : m = n
      PROVE  Cardinality(S) <= 1
  <2>1. CASE S = {}
    BY <2>1, FS_EmptySet
  <2>2. CASE S # {}
    <3>1. PICK n \in S : S = {n}
      BY <1>1, <2>2
    <3>2. Cardinality({n}) = 1
      BY FS_Singleton
    <3> QED
      BY <3>1, <3>2
  <2> QED
    BY <2>1, <2>2
<1>2. IInv => OneLiveOneOpen
  <2> SUFFICES ASSUME IInv, NEW k \in Keys
               PROVE  Cardinality(Active(k)) <= 1 /\ Cardinality(Open(k)) <= 1
    BY DEF OneLiveOneOpen
  <2>1. (\A m, n \in Active(k) : m = n) /\ (\A m, n \in Open(k) : m = n)
    BY DEF IInv, Sane, Active, Open, ActiveIn, OpenIn
  <2> QED
    BY <1>1, <2>1
<1> QED
  BY <1>2, AlwaysIInv, PTL

\* No step but a retirement takes the last live version of a rule away.
THEOREM AlwaysLiveUntilReplaced ==
  Spec => LiveUntilReplaced
<1>1. IInv /\ [Next]_vars => [GoesByRetirement]_vars
  BY StepRules DEF RulesStay, Keeps, Active, GoesByRetirement
<1> QED
  BY <1>1, AlwaysIInv, PTL DEF Spec, LiveUntilReplaced

-------------------------------------------------------------------------------
(* ChangeControl implements FourEyes *)

Live     == [k \in Keys |-> PiecesOf(rules[k], "active")]
Waiting  == [k \in Keys |-> PiecesOf(rules[k], "approved")]
Reviews  == [d \in Datasets |-> BatchOf(datasets[d])]

\* What a step may be to FourEyes.
PromiseStep == Promise!Next \/ UNCHANGED <<Live, Waiting, Reviews>>

\* The pieces of a rule with at most one version of a status.
LEMMA OnePiece ==
  ASSUME NEW vs, NEW n \in DOMAIN vs, NEW status, vs[n].status = status,
         \A m \in DOMAIN vs : vs[m].status = status => m = n
  PROVE  PiecesOf(vs, status) = {PieceOf(vs[n])}
BY DEF PiecesOf

LEMMA NoPiece ==
  ASSUME NEW vs, NEW status, \A m \in DOMAIN vs : vs[m].status # status
  PROVE  PiecesOf(vs, status) = {}
BY DEF PiecesOf

LEMMA SamePieces ==
  ASSUME NEW vs, NEW w, ActiveIn(w) = ActiveIn(vs), \A n \in ActiveIn(vs) : w[n] = vs[n]
  PROVE  PiecesOf(w, "active") = PiecesOf(vs, "active")
BY DEF PiecesOf, ActiveIn

\* While a draft is open, nothing is approved.
LEMMA DraftMeansNoneWaits ==
  ASSUME NEW vs, Sane(vs), NEW n \in DOMAIN vs, vs[n].status = "draft"
  PROVE  PiecesOf(vs, "approved") = {}
BY NoPiece DEF Sane, OpenIn

\* update: what is live stays as it is, and nothing waits any more.
LEMMA UpdatedPieces ==
  ASSUME NEW vs, Sane(vs), NEW n \in DOMAIN vs, NEW s \in Sheets, NEW x \in Extras, NEW a \in Admins,
         vs[n].status # "retired", vs[n].status = "active" => OpenIn(vs) = {}
  PROVE  /\ PiecesOf(Updated(vs, n, s, x, a), "active") = PiecesOf(vs, "active")
         /\ PiecesOf(Updated(vs, n, s, x, a), "approved") = {}
<1> DEFINE next == Updated(vs, n, s, x, a)
           m    == IF vs[n].status = "active" THEN Len(next) ELSE n
<1>1. /\ Sane(next) /\ ActiveIn(next) = ActiveIn(vs) /\ \A i \in ActiveIn(vs) : next[i] = vs[i]
      /\ m \in DOMAIN next /\ next[m] = Version(s, x, a)
  BY UpdatedIsSane
<1>2. next[m].status = "draft"
  BY <1>1, VersionIsDoc
<1> HIDE DEF next, m
<1>3. PiecesOf(next, "active") = PiecesOf(vs, "active") /\ PiecesOf(next, "approved") = {}
  BY <1>1, <1>2, SamePieces, DraftMeansNoneWaits
<1> QED
  BY <1>3 DEF next

\* approve: the draft waits as the approver saw it, where nothing waited.
LEMMA ApprovedPieces ==
  ASSUME NEW vs, Sane(vs), NEW n \in DOMAIN vs, NEW b \in Admins,
         vs[n].status = "draft", vs[n].createdBy # b
  PROVE  LET next == Approved(vs, n, b, vs[n].sheet) IN
         /\ PiecesOf(vs, "approved") = {}
         /\ PiecesOf(next, "active") = PiecesOf(vs, "active")
         /\ PiecesOf(next, "approved") = {Promise!Piece(vs[n].sheet, vs[n].createdBy, b)}
<1> DEFINE v == [vs[n] EXCEPT !.status = "approved", !.approvedBy = b, !.seen = vs[n].sheet]
           next == Approved(vs, n, b, vs[n].sheet)
<1>1. vs \in Seq(Docs) /\ n \in 1..Len(vs) /\ DOMAIN vs = 1..Len(vs)
  BY LenProperties DEF Sane
<1>2. vs[n] \in Docs
  BY <1>1, ElementOfSeq
<1>3. v.status = "approved" /\ PieceOf(v) = Promise!Piece(vs[n].sheet, vs[n].createdBy, b)
  BY <1>2 DEF Docs, PieceOf, Promise!Piece
<1>4. \A m \in DOMAIN vs : next[m] = IF m = n THEN v ELSE vs[m]
  BY <1>1 DEF Approved
<1>5. Sane(next) /\ ActiveIn(next) = ActiveIn(vs) /\ DOMAIN next = DOMAIN vs
  BY ApprovedIsSane
<1> HIDE DEF next, v
<1>6. PiecesOf(next, "active") = PiecesOf(vs, "active")
  <2>1. \A m \in ActiveIn(vs) : next[m] = vs[m]
    BY <1>4 DEF ActiveIn
  <2> QED
    BY <1>5, <2>1, SamePieces
<1>7. PiecesOf(next, "approved") = {PieceOf(next[n])}
  <2>1. \A m \in DOMAIN next : next[m].status = "approved" => m = n
    BY <1>3, <1>4, <1>5 DEF Sane, OpenIn
  <2>2. n \in DOMAIN next /\ next[n].status = "approved"
    BY <1>3, <1>4, <1>5
  <2> QED
    BY <2>1, <2>2, OnePiece
<1> QED
  BY <1>3, <1>4, <1>6, <1>7, DraftMeansNoneWaits DEF next

\* activate: what waited is live, and nothing waits.
LEMMA ActivatedPieces ==
  ASSUME NEW vs, Sane(vs), NEW n \in DOMAIN vs, vs[n].status = "approved"
  PROVE  /\ PiecesOf(vs, "approved") = {PieceOf(vs[n])}
         /\ PiecesOf(Activated(vs, n), "active") = {PieceOf(vs[n])}
         /\ PiecesOf(Activated(vs, n), "approved") = {}
<1> DEFINE next == Activated(vs, n)
<1>1. vs[n] \in Docs
  BY ElementOfSeq, LenProperties DEF Sane
<1>2. DOMAIN next = DOMAIN vs /\ next[n].status = "active" /\ PieceOf(next[n]) = PieceOf(vs[n])
  BY <1>1 DEF Activated, Docs, PieceOf
<1>3. \A m \in DOMAIN vs : vs[m].status = "approved" => m = n
  BY DEF Sane, OpenIn
<1>4. \A m \in DOMAIN next : (next[m].status = "active" => m = n) /\ next[m].status # "approved"
  <2> SUFFICES ASSUME NEW m \in DOMAIN vs, m # n
               PROVE  next[m].status # "active" /\ next[m].status # "approved"
    BY <1>2
  <2>1. vs[m] \in Docs /\ vs[m].status # "approved"
    BY <1>3, ElementOfSeq, LenProperties DEF Sane
  <2> QED
    BY <2>1 DEF Activated, Docs
<1> HIDE DEF next
<1>5. PiecesOf(vs, "approved") = {PieceOf(vs[n])}
  BY <1>3, OnePiece
<1>6. PiecesOf(next, "active") = {PieceOf(vs[n])}
  <2>1. PiecesOf(next, "active") = {PieceOf(next[n])}
    BY <1>2, <1>4, OnePiece
  <2> QED
    BY <1>2, <2>1
<1>7. PiecesOf(next, "approved") = {}
  BY <1>4, NoPiece
<1> QED
  BY <1>5, <1>6, <1>7 DEF next

\* retire: a live version is gone, or the approved one, or nothing FourEyes speaks of.
LEMMA RetiredPieces ==
  ASSUME NEW vs, Sane(vs), NEW n \in DOMAIN vs
  PROVE  LET w == [vs EXCEPT ![n].status = "retired"] IN
         /\ \/ PiecesOf(w, "active") = PiecesOf(vs, "active")
            \/ /\ PiecesOf(w, "active") = {}
               /\ PiecesOf(w, "approved") = PiecesOf(vs, "approved")
         /\ PiecesOf(w, "approved") \in {{}, PiecesOf(vs, "approved")}
<1> DEFINE w == [vs EXCEPT ![n].status = "retired"]
<1>1. vs[n] \in Docs /\ vs \in Seq(Docs)
  BY ElementOfSeq, LenProperties DEF Sane
<1>2. DOMAIN w = DOMAIN vs /\ w[n].status = "retired" /\ \A m \in DOMAIN vs : m # n => w[m] = vs[m]
  BY <1>1 DEF Docs
<1> HIDE DEF w
<1>3. ASSUME NEW status, status # "retired", vs[n].status # status
      PROVE  PiecesOf(w, status) = PiecesOf(vs, status)
  BY <1>2, <1>3 DEF PiecesOf
<1>4. CASE vs[n].status = "active"
  <2>1. \A m \in DOMAIN w : w[m].status # "active"
    BY <1>2, <1>4 DEF Sane, ActiveIn
  <2> QED
    BY <1>3, <1>4, <2>1, NoPiece DEF w
<1>5. CASE vs[n].status = "approved"
  <2>1. \A m \in DOMAIN w : w[m].status # "approved"
    BY <1>2, <1>5 DEF Sane, OpenIn
  <2> QED
    BY <1>3, <1>5, <2>1, NoPiece DEF w
<1>6. CASE vs[n].status \notin {"active", "approved"}
  BY <1>3, <1>6 DEF w
<1> QED
  BY <1>4, <1>5, <1>6

\* A sheet: what it says is live, in the names of the dataset's author and reviewer.
LEMMA SheetAppliedPieces ==
  ASSUME NEW vs, Sane(vs), SheetApplies(vs), NEW s \in Sheets, NEW d,
         datasets[d].author \in Admins, datasets[d].reviewer \in Admins \ {datasets[d].author}
  PROVE  /\ PiecesOf(SheetApplied(vs, s, d), "active") =
              {[content |-> s, author |-> datasets[d].author, reviewer |-> datasets[d].reviewer]}
         /\ PiecesOf(SheetApplied(vs, s, d), "approved") = {}
<1> DEFINE b == datasets[d].reviewer
<1>1. PICK next : \E m \in DOMAIN next :
        /\ Sane(next)
        /\ next[m].status = "draft" /\ next[m].sheet = s /\ next[m].createdBy = datasets[d].author
        /\ SheetApplied(vs, s, d) = Activated(Approved(next, m, b, s), m)
  BY SheetIsDrafted
<1>2. PICK m \in DOMAIN next :
        /\ Sane(next)
        /\ next[m].status = "draft" /\ next[m].sheet = s /\ next[m].createdBy = datasets[d].author
        /\ SheetApplied(vs, s, d) = Activated(Approved(next, m, b, s), m)
  BY <1>1
<1> DEFINE w == Approved(next, m, b, s)
<1>3. Sane(w) /\ m \in DOMAIN w /\ w[m].status = "approved"
  BY <1>2, ApprovedIsSane
<1>4. PiecesOf(w, "approved") = {Promise!Piece(s, datasets[d].author, b)}
  BY <1>2, ApprovedPieces
<1> HIDE DEF w
<1>5. /\ PiecesOf(Activated(w, m), "active") = PiecesOf(w, "approved")
      /\ PiecesOf(Activated(w, m), "approved") = {}
  BY <1>3, ActivatedPieces
<1> QED
  BY <1>2, <1>4, <1>5 DEF w, Promise!Piece

\* The state FourEyes sees after an operation on one rule.
LEMMA OneRulesPieces ==
  ASSUME IInv, NEW k \in Keys, NEW w, Put(k, w), UNCHANGED datasets
  PROVE  /\ Live' = [Live EXCEPT ![k] = PiecesOf(w, "active")]
         /\ Waiting' = [Waiting EXCEPT ![k] = PiecesOf(w, "approved")]
         /\ UNCHANGED Reviews
         /\ Live[k] = PiecesOf(rules[k], "active") /\ Waiting[k] = PiecesOf(rules[k], "approved")
<1>1. \A j \in Keys : rules'[j] = IF j = k THEN w ELSE rules[j]
  BY DEF IInv, Put
<1> QED
  BY <1>1 DEF Live, Waiting, Reviews

\* ... is a step of FourEyes: nothing, a review, a withdrawal, a release or a retirement.
LEMMA OneRulesStep ==
  ASSUME IInv, NEW k \in Keys, NEW w, Put(k, w), UNCHANGED datasets,
         LET live    == PiecesOf(rules[k], "active")
             waiting == PiecesOf(rules[k], "approved")
         IN \/ /\ PiecesOf(w, "active") = live
               /\ \/ PiecesOf(w, "approved") \in {{}, waiting}
                  \/ /\ waiting = {}
                     /\ \E c \in Sheets, a, b \in Admins :
                          a # b /\ PiecesOf(w, "approved") = {Promise!Piece(c, a, b)}
            \/ /\ waiting # {}
               /\ PiecesOf(w, "active") = waiting /\ PiecesOf(w, "approved") = {}
            \/ PiecesOf(w, "active") = {} /\ PiecesOf(w, "approved") = waiting
  PROVE  PromiseStep
<1> DEFINE live    == PiecesOf(rules[k], "active")
           waiting == PiecesOf(rules[k], "approved")
           live2    == PiecesOf(w, "active")
           waiting2 == PiecesOf(w, "approved")
<1>1. /\ Live' = [Live EXCEPT ![k] = live2]
      /\ Waiting' = [Waiting EXCEPT ![k] = waiting2]
      /\ UNCHANGED Reviews
      /\ Live[k] = live /\ Waiting[k] = waiting
      /\ DOMAIN Live = Keys /\ DOMAIN Waiting = Keys
  BY OneRulesPieces DEF Live, Waiting
<1>2. /\ live2 = live => UNCHANGED Live
      /\ waiting2 = waiting => UNCHANGED Waiting
  <2>1. ASSUME NEW f, DOMAIN f = Keys, f = [j \in Keys |-> f[j]] PROVE [f EXCEPT ![k] = f[k]] = f
    BY <2>1
  <2>2. Live = [j \in Keys |-> Live[j]] /\ Waiting = [j \in Keys |-> Waiting[j]]
    BY DEF Live, Waiting
  <2> QED
    BY <1>1, <2>1, <2>2
<1> HIDE DEF live, waiting, live2, waiting2
<1>3. CASE live2 = live /\ waiting2 = waiting
  BY <1>1, <1>2, <1>3 DEF PromiseStep
<1>4. CASE live2 = live /\ waiting2 = {}
  <2>1. Promise!Withdraw(k)
    BY <1>1, <1>2, <1>4 DEF Promise!Withdraw, Live, Waiting, Reviews
  <2> QED
    BY <2>1 DEF PromiseStep, Promise!Next
<1>5. CASE /\ live2 = live /\ waiting = {}
           /\ \E c \in Sheets, a, b \in Admins : a # b /\ waiting2 = {Promise!Piece(c, a, b)}
  <2>1. PICK c \in Sheets, a, b \in Admins : a # b /\ waiting2 = {Promise!Piece(c, a, b)}
    BY <1>5
  <2>2. /\ Waiting[k] = {} /\ Waiting' = [Waiting EXCEPT ![k] = {Promise!Piece(c, a, b)}]
        /\ UNCHANGED <<Live, Reviews>>
    BY <1>1, <1>2, <1>5, <2>1
  <2>3. Promise!Review(k)
    BY <2>1, <2>2 DEF Promise!Review, Live, Waiting, Reviews
  <2> QED
    BY <2>3 DEF PromiseStep, Promise!Next
<1>6. CASE waiting # {} /\ live2 = waiting /\ waiting2 = {}
  <2>1. Promise!Release(k)
    BY <1>1, <1>6 DEF Promise!Release, Live, Waiting, Reviews
  <2> QED
    BY <2>1 DEF PromiseStep, Promise!Next
<1>7. CASE live2 = {} /\ waiting2 = waiting
  <2>1. Promise!Retire(k)
    BY <1>1, <1>2, <1>7 DEF Promise!Retire, Live, Waiting, Reviews
  <2> QED
    BY <2>1 DEF PromiseStep, Promise!Next
<1> QED
  BY <1>3, <1>4, <1>5, <1>6, <1>7 DEF live, waiting, live2, waiting2

\* Every operation on a rule is one.
LEMMA RuleOperationPromise ==
  ASSUME IInv, NEW k \in Keys, NEW n \in DOMAIN rules[k],
         \/ \E a \in Admins : UpdateRule(k, n, a) \/ ApproveRule(k, n, a)
         \/ ActivateRule(k, n) \/ RetireRule(k, n)
  PROVE  PromiseStep
<1> DEFINE vs == rules[k]
<1>1. Sane(vs)
  BY DEF IInv
<1>2. ASSUME NEW a \in Admins, UpdateRule(k, n, a) PROVE PromiseStep
  <2>1. PICK s \in Sheets, x \in Extras : Put(k, Updated(vs, n, s, x, a))
    BY <1>2 DEF UpdateRule
  <2>2. UNCHANGED datasets /\ vs[n].status # "retired" /\ (vs[n].status = "active" => OpenIn(vs) = {})
    BY <1>2 DEF UpdateRule, MayUpdate
  <2>3. /\ PiecesOf(Updated(vs, n, s, x, a), "active") = PiecesOf(vs, "active")
        /\ PiecesOf(Updated(vs, n, s, x, a), "approved") = {}
    BY <1>1, <2>2, UpdatedPieces
  <2> QED
    BY <2>1, <2>2, <2>3, OneRulesStep
<1>3. ASSUME NEW b \in Admins, ApproveRule(k, n, b) PROVE PromiseStep
  <2> DEFINE w == Approved(vs, n, b, vs[n].sheet)
  <2>1. Put(k, w) /\ UNCHANGED datasets /\ vs[n].status = "draft" /\ vs[n].createdBy # b
    BY <1>3 DEF ApproveRule, MayApprove
  <2>2. vs[n].sheet \in Sheets /\ vs[n].createdBy \in Admins
    <3>1. vs[n] \in Docs
      BY <1>1, ElementOfSeq, LenProperties DEF Sane
    <3> QED
      BY <3>1 DEF Docs
  <2>3. /\ PiecesOf(vs, "approved") = {}
        /\ PiecesOf(w, "active") = PiecesOf(vs, "active")
        /\ PiecesOf(w, "approved") = {Promise!Piece(vs[n].sheet, vs[n].createdBy, b)}
    BY <1>1, <2>1, ApprovedPieces
  <2> HIDE DEF w
  <2>4. \E c \in Sheets, a, r \in Admins : a # r /\ PiecesOf(w, "approved") = {Promise!Piece(c, a, r)}
    BY <2>1, <2>2, <2>3
  <2> QED
    BY <2>1, <2>3, <2>4, OneRulesStep
<1>4. CASE ActivateRule(k, n)
  <2>1. Put(k, Activated(vs, n)) /\ UNCHANGED datasets /\ vs[n].status = "approved"
    BY <1>4 DEF ActivateRule, MayActivate
  <2>2. /\ PiecesOf(vs, "approved") # {}
        /\ PiecesOf(Activated(vs, n), "active") = PiecesOf(vs, "approved")
        /\ PiecesOf(Activated(vs, n), "approved") = {}
    BY <1>1, <2>1, ActivatedPieces
  <2> QED
    BY <2>1, <2>2, OneRulesStep
<1>5. CASE RetireRule(k, n)
  <2> DEFINE w == [vs EXCEPT ![n].status = "retired"]
  <2>1. Put(k, w) /\ UNCHANGED datasets
    BY <1>5 DEF RetireRule, Put
  <2>2. /\ \/ PiecesOf(w, "active") = PiecesOf(vs, "active")
           \/ /\ PiecesOf(w, "active") = {}
              /\ PiecesOf(w, "approved") = PiecesOf(vs, "approved")
        /\ PiecesOf(w, "approved") \in {{}, PiecesOf(vs, "approved")}
    BY <1>1, RetiredPieces
  <2> HIDE DEF w
  <2> QED
    BY <2>1, <2>2, OneRulesStep
<1> QED
  BY <1>2, <1>3, <1>4, <1>5

\* The state FourEyes sees after an operation on one dataset that leaves the rules alone.
LEMMA OneDatasetsBatch ==
  ASSUME IInv, NEW d \in Datasets, NEW u, datasets' = [datasets EXCEPT ![d] = u], UNCHANGED rules
  PROVE  /\ Reviews' = [Reviews EXCEPT ![d] = BatchOf(u)]
         /\ UNCHANGED <<Live, Waiting>>
         /\ Reviews[d] = BatchOf(datasets[d])
         /\ BatchOf(u) = BatchOf(datasets[d]) => UNCHANGED Reviews
<1>1. \A e \in Datasets : datasets'[e] = IF e = d THEN u ELSE datasets[e]
  BY DEF IInv
<1>2. Reviews' = [e \in Datasets |-> IF e = d THEN BatchOf(u) ELSE BatchOf(datasets[e])]
  BY <1>1 DEF Reviews
<1>3. Reviews = [e \in Datasets |-> BatchOf(datasets[e])]
  BY DEF Reviews
<1>4. UNCHANGED <<Live, Waiting>>
  BY DEF Live, Waiting
<1> QED
  BY <1>2, <1>3, <1>4

\* upload, approve and the record of a failure: nothing, a review, or the end of a batch.
LEMMA DatasetPromise ==
  ASSUME IInv, NEW d \in Datasets, NEW a \in Admins, Upload(d, a) \/ ApproveDataset(d, a)
  PROVE  PromiseStep
<1>1. CASE Upload(d, a)
  <2>1. PICK f \in Files, s \in {"validated", "rejected"} :
          datasets' = [datasets EXCEPT ![d] = [status |-> s, author |-> a, reviewer |-> Nobody, file |-> f]]
    BY <1>1 DEF Upload
  <2> DEFINE u == [status |-> s, author |-> a, reviewer |-> Nobody, file |-> f]
  <2>2. BatchOf(u) = BatchOf(datasets[d])
    BY <1>1 DEF Upload, BatchOf
  <2> HIDE DEF u
  <2>3. UNCHANGED rules
    BY <1>1 DEF Upload
  <2> QED
    BY <2>1, <2>2, <2>3, OneDatasetsBatch DEF PromiseStep, u
<1>2. CASE ApproveDataset(d, a)
  <2> DEFINE u == [datasets[d] EXCEPT !.status = "approved", !.reviewer = a]
             f == datasets[d].file
             w == datasets[d].author
  <2>1. /\ datasets[d] \in Uploads /\ SaneUpload(datasets[d])
        /\ datasets[d].status = "validated" /\ w # a
    BY <1>2 DEF IInv, ApproveDataset
  <2>2. datasets' = [datasets EXCEPT ![d] = u] /\ UNCHANGED rules
    BY <1>2 DEF ApproveDataset
  <2>3. /\ BatchOf(datasets[d]).status = "unreviewed"
        /\ BatchOf(u) = [status |-> "reviewed", pieces |-> [k \in DOMAIN f |-> Promise!Piece(f[k], w, a)]]
    BY <2>1 DEF BatchOf, Uploads, Promise!Piece
  <2>4. DOMAIN f \subseteq Keys /\ (\A k \in DOMAIN f : f[k] \in Sheets) /\ w \in Admins
    BY <2>1 DEF SaneUpload
  <2> HIDE DEF u, f, w
  <2>5. /\ Reviews' = [Reviews EXCEPT ![d] = BatchOf(u)] /\ UNCHANGED <<Live, Waiting>>
        /\ Reviews[d] = BatchOf(datasets[d])
    BY <2>2, OneDatasetsBatch
  <2>6. Promise!ReviewBatch(d)
    <3> DEFINE K == DOMAIN f
               p == [k \in K |-> Promise!Piece(f[k], w, a)]
    <3>1. p \in [K -> {Promise!Piece(c, w, a) : c \in Sheets}] /\ K \in SUBSET Keys
      BY <2>4
    <3>2. Reviews' = [Reviews EXCEPT ![d] = [status |-> "reviewed", pieces |-> p]]
      BY <2>3, <2>5
    <3> HIDE DEF p, K
    <3>3. w \in Admins /\ a \in Admins /\ w # a /\ Reviews[d].status = "unreviewed"
      BY <2>1, <2>3, <2>4, <2>5
    <3>4. \E x, r \in Admins, L \in SUBSET Keys :
            \E pieces \in [L -> {Promise!Piece(c, x, r) : c \in Sheets}] :
              x # r /\ Reviews' = [Reviews EXCEPT ![d] = [status |-> "reviewed", pieces |-> pieces]]
      BY <3>1, <3>2, <3>3
    <3> QED
      BY <2>5, <3>3, <3>4 DEF Promise!ReviewBatch, Live, Waiting, Reviews
  <2> QED
    BY <2>6 DEF PromiseStep, Promise!Next
<1> QED
  BY <1>1, <1>2

LEMMA FailurePromise ==
  ASSUME IInv, NEW r \in Runs, RecordFailure(r)
  PROVE  PromiseStep
<1> DEFINE d == run[r].dataset
           u == [datasets[d] EXCEPT !.status = IF @ = "approved" THEN "failed" ELSE @]
<1>1. d \in Datasets /\ UNCHANGED rules /\ datasets' = [datasets EXCEPT ![d] = u]
  BY DEF IInv, RecordFailure
<1>2. datasets[d] \in Uploads
  BY <1>1 DEF IInv
<1>3. /\ datasets[d].status # "approved" => BatchOf(u) = BatchOf(datasets[d])
      /\ datasets[d].status = "approved" =>
           BatchOf(datasets[d]).status = "reviewed" /\ BatchOf(u) = Promise!NoBatch("closed")
  BY <1>2 DEF Uploads, BatchOf, Promise!NoBatch
<1> HIDE DEF d, u
<1>4. /\ Reviews' = [Reviews EXCEPT ![d] = BatchOf(u)] /\ UNCHANGED <<Live, Waiting>>
      /\ Reviews[d] = BatchOf(datasets[d])
      /\ BatchOf(u) = BatchOf(datasets[d]) => UNCHANGED Reviews
  BY <1>1, OneDatasetsBatch
<1>5. CASE datasets[d].status = "approved"
  <2>1. Promise!CloseBatch(d)
    BY <1>3, <1>4, <1>5 DEF Promise!CloseBatch, Live, Waiting, Reviews
  <2> QED
    BY <1>1, <2>1 DEF PromiseStep, Promise!Next
<1>6. CASE datasets[d].status # "approved"
  BY <1>3, <1>4, <1>6 DEF PromiseStep
<1> QED
  BY <1>5, <1>6

\* The transaction that applies a dataset releases its batch.
LEMMA ApplyPromise ==
  ASSUME IInv, NEW r \in Runs, Apply(r)
  PROVE  PromiseStep
<1> DEFINE d == run[r].dataset
           f == datasets[d].file
           p == [k \in DOMAIN f |-> [content |-> f[k], author |-> datasets[d].author,
                                     reviewer |-> datasets[d].reviewer]]
           u == [datasets[d] EXCEPT !.status = "active"]
<1>1. d \in Datasets /\ datasets[d].status = "approved"
  BY DEF IInv, Apply
<1>2. /\ datasets[d].author \in Admins /\ datasets[d].reviewer \in Admins \ {datasets[d].author}
      /\ \A k \in DOMAIN f : f[k] \in Sheets
  BY <1>1 DEF IInv, SaneUpload
<1>3. /\ \A k \in DOMAIN f : SheetApplies(rules[k])
      /\ \A k \in Keys : rules'[k] = IF k \in DOMAIN f THEN SheetApplied(rules[k], f[k], d) ELSE rules[k]
      /\ datasets' = [datasets EXCEPT ![d] = u]
  BY DEF Apply
<1>4. BatchOf(datasets[d]) = [status |-> "reviewed", pieces |-> p]
  BY <1>1 DEF BatchOf
<1>5. BatchOf(u) = Promise!NoBatch("closed")
  <2>1. datasets[d] \in Uploads
    BY <1>1 DEF IInv
  <2> QED
    BY <2>1 DEF BatchOf, Uploads, Promise!NoBatch
<1> HIDE DEF d, f, u
<1>6. ASSUME NEW k \in Keys
      PROVE  /\ PiecesOf(rules'[k], "active") =
                  IF k \in DOMAIN p THEN {p[k]} ELSE PiecesOf(rules[k], "active")
             /\ PiecesOf(rules'[k], "approved") =
                  IF k \in DOMAIN p THEN {} ELSE PiecesOf(rules[k], "approved")
  <2>1. Sane(rules[k])
    BY DEF IInv
  <2>2. CASE k \in DOMAIN f
    <3>1. /\ PiecesOf(SheetApplied(rules[k], f[k], d), "active") = {p[k]}
          /\ PiecesOf(SheetApplied(rules[k], f[k], d), "approved") = {}
      BY <1>2, <1>3, <2>1, <2>2, SheetAppliedPieces
    <3> QED
      BY <1>3, <2>2, <3>1
  <2>3. CASE k \notin DOMAIN f
    BY <1>3, <2>3
  <2> QED
    BY <2>2, <2>3
<1> HIDE DEF p
<1>7. /\ Live' = [k \in Keys |-> IF k \in DOMAIN p THEN {p[k]} ELSE Live[k]]
      /\ Waiting' = [k \in Keys |-> IF k \in DOMAIN p THEN {} ELSE Waiting[k]]
  BY <1>6 DEF Live, Waiting
<1>8. Reviews' = [Reviews EXCEPT ![d] = Promise!NoBatch("closed")]
      /\ Reviews[d].status = "reviewed" /\ Reviews[d].pieces = p
  <2>1. \A e \in Datasets : datasets'[e] = IF e = d THEN u ELSE datasets[e]
    BY <1>3 DEF IInv
  <2>2. Reviews' = [e \in Datasets |-> IF e = d THEN BatchOf(u) ELSE BatchOf(datasets[e])]
    BY <2>1 DEF Reviews
  <2>3. Reviews = [e \in Datasets |-> BatchOf(datasets[e])]
    BY DEF Reviews
  <2> QED
    BY <1>1, <1>4, <1>5, <2>2, <2>3
<1>9. Promise!ReleaseBatch(d)
  BY <1>7, <1>8 DEF Promise!ReleaseBatch, Live, Waiting, Reviews
<1> QED
  BY <1>1, <1>9 DEF PromiseStep, Promise!Next

\* Every step of ChangeControl is a step of FourEyes or leaves what it speaks of alone.
LEMMA EveryStepPromised ==
  IInv /\ [Next]_vars => PromiseStep
<1> SUFFICES ASSUME IInv, [Next]_vars PROVE PromiseStep
  OBVIOUS
<1>1. ASSUME UNCHANGED <<rules, datasets>> PROVE PromiseStep
  BY <1>1 DEF PromiseStep, Live, Waiting, Reviews
<1>2. ASSUME NEW k \in Keys, NEW a \in Admins, CreateRule(k, a) PROVE PromiseStep
  <2>1. PICK s \in Sheets, x \in Extras : Put(k, Created(rules[k], s, x, a))
    BY <1>2 DEF CreateRule
  <2> DEFINE w == Created(rules[k], s, x, a)
  <2>2. DOMAIN w = {1} /\ w[1].status = "draft"
    BY CreatedIsSane, VersionIsDoc
  <2> HIDE DEF w
  <2>3. rules[k] = <<>> /\ UNCHANGED datasets
    BY <1>2 DEF CreateRule
  <2>4. \A status \in {"active", "approved"} :
          PiecesOf(w, status) = {} /\ PiecesOf(rules[k], status) = {}
    BY <2>2, <2>3, NoPiece
  <2> QED
    BY <2>1, <2>3, <2>4, OneRulesStep DEF w
<1>3. ASSUME NEW k \in Keys, NEW n \in DOMAIN rules[k],
             \/ \E a \in Admins : UpdateRule(k, n, a) \/ ApproveRule(k, n, a)
             \/ ActivateRule(k, n) \/ RetireRule(k, n)
      PROVE  PromiseStep
  BY <1>3, RuleOperationPromise
<1>4. ASSUME NEW d \in Datasets, NEW a \in Admins, Upload(d, a) \/ ApproveDataset(d, a)
      PROVE  PromiseStep
  BY <1>4, DatasetPromise
<1>5. ASSUME NEW r \in Runs, (\E d \in Datasets : Load(r, d)) \/ Abort(r) \/ Crash(r) PROVE PromiseStep
  BY <1>1, <1>5 DEF Load, Abort, Crash
<1>6. ASSUME NEW r \in Runs, Apply(r) \/ RecordFailure(r) PROVE PromiseStep
  BY <1>6, ApplyPromise, FailurePromise
<1>7. ASSUME UNCHANGED vars PROVE PromiseStep
  BY <1>1, <1>7 DEF vars
<1> QED
  BY <1>2, <1>3, <1>4, <1>5, <1>6, <1>7 DEF Next

\* Hard rules and datasets, with all their versions, requests, failures and crashes, do what
\* FourEyes allows: what is in effect is a piece another person than its author reviewed, as it
\* was reviewed; a dataset takes effect as a whole and once.
THEOREM ChangeControlImplementsFourEyes ==
  Spec => ImplementsFourEyes
<1>1. Init => Promise!Init
  <2> SUFFICES ASSUME Init PROVE Promise!Init
    OBVIOUS
  <2>1. \A k \in Keys : PiecesOf(rules[k], "active") = {} /\ PiecesOf(rules[k], "approved") = {}
    BY NoPiece DEF Init
  <2>2. \A d \in Datasets : BatchOf(datasets[d]) = Promise!NoBatch("unreviewed")
    BY DEF Init, NoDataset, BatchOf, Promise!NoBatch
  <2> QED
    BY <2>1, <2>2 DEF Promise!Init
<1>2. IInv /\ [Next]_vars => [Promise!Next]_(Promise!eyesVars)
  BY EveryStepPromised DEF PromiseStep, Promise!eyesVars, Live, Waiting, Reviews
<1> QED
  BY AlwaysIInv, <1>1, <1>2, PTL DEF Spec, ImplementsFourEyes, Promise!Spec

===============================================================================
