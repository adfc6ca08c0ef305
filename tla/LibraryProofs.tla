------------------------------ MODULE LibraryProofs ------------------------------
(***************************************************************************)
(* Proofs about Library: for every library of personas, scenarios and       *)
(* questions, however large and however deep its branches, what the intake  *)
(* pins is closed, and what the gate and the report accept can be pinned.   *)
(***************************************************************************)
EXTENDS Library, FiniteSetTheorems, NaturalsInduction, TLAPS

-------------------------------------------------------------------------------
(* Walks *)

\* A non-empty set of numbers has a least one.
LEMMA Least ==
  ASSUME NEW S \in SUBSET Nat, S # {}
  PROVE  \E n \in S : \A m \in S : n <= m
<1>1. \A a, b \in Nat : a < b => <<a, b>> \in OpToRel(<, Nat)
  BY SMT DEF OpToRel
<1>2. PICK n \in S : \A m \in S : <<m, n>> \notin OpToRel(<, Nat)
  BY NatLessThanWellFounded, WFMin
<1>3. \A m \in S : ~(m < n)
  BY <1>1, <1>2
<1> QED
  BY <1>3

\* The waves of a walk.
Waves(f, N, start, next) ==
  /\ f \in [0..N -> SUBSET Questions]
  /\ f[0] = start
  /\ \A n \in 1..N : f[n] = f[n - 1] \cup UNION {next[k] : k \in f[n - 1]}

\* There are waves up to every n: else take the least n up to which there are none.
LEMMA WavesExist ==
  ASSUME NEW start \in SUBSET Questions, NEW next \in [Questions -> SUBSET Questions], NEW N \in Nat
  PROVE  \E f : Waves(f, N, start, next)
<1> DEFINE Bad == {n \in Nat : ~\E f : Waves(f, n, start, next)}
<1> SUFFICES ASSUME Bad # {} PROVE FALSE
  OBVIOUS
<1>1. PICK n \in Bad : \A m \in Bad : n <= m
  <2>1. Bad \in SUBSET Nat
    OBVIOUS
  <2> HIDE DEF Bad
  <2> QED
    BY <2>1, Least
<1>2. n # 0
  <2>1. Waves([m \in 0..0 |-> start], 0, start, next)
    BY DEF Waves
  <2> QED
    BY <1>1, <2>1
<1>3. n \in Nat /\ n - 1 \in Nat /\ n - 1 \notin Bad
  BY <1>1, <1>2
<1>4. PICK f : Waves(f, n - 1, start, next)
  BY <1>3
<1> DEFINE last == f[n - 1] \cup UNION {next[k] : k \in f[n - 1]}
           g == [m \in 0..n |-> IF m < n THEN f[m] ELSE last]
<1>5. last \in SUBSET Questions
  <2>1. f[n - 1] \in SUBSET Questions
    BY <1>3, <1>4 DEF Waves
  <2> QED
    BY <2>1
<1> HIDE DEF last
<1> HIDE DEF Bad
<1>6. g \in [0..n -> SUBSET Questions] /\ g[0] = start
  BY <1>2, <1>3, <1>4, <1>5 DEF Waves
<1>7. ASSUME NEW m \in 1..n
      PROVE  g[m] = g[m - 1] \cup UNION {next[k] : k \in g[m - 1]}
  <2>1. m \in 0..n /\ m - 1 \in 0..(n - 1) /\ m - 1 \in 0..n /\ m - 1 < n
    BY <1>3
  <2>4. g[m - 1] = f[m - 1]
    BY <2>1
  <2>2. CASE m < n
    <3>1. m \in 1..(n - 1) /\ g[m] = f[m]
      BY <2>1, <2>2, <1>3
    <3> HIDE DEF g
    <3> QED
      BY <2>4, <3>1, <1>4 DEF Waves
  <2>3. CASE m = n
    <3>1. g[m] = last
      BY <2>1, <2>3, <1>3
    <3> HIDE DEF g
    <3> QED
      BY <2>3, <2>4, <3>1 DEF last
  <2> HIDE DEF g
  <2> QED
    BY <2>2, <2>3, <1>3
<1>8. Waves(g, n, start, next)
  <2> HIDE DEF g
  <2> QED
    BY <1>6, <1>7 DEF Waves
<1> QED
  BY <1>1, <1>8 DEF Bad

\* A walk is the last of its waves.
LEMMA WalkIsWave ==
  ASSUME NEW start \in SUBSET Questions, NEW next \in [Questions -> SUBSET Questions]
  PROVE  \E f : Waves(f, Cardinality(Questions), start, next)
                /\ Walk(start, next) = f[Cardinality(Questions)]
<1> DEFINE N == Cardinality(Questions)
           Body(f, n) == IF n = 0 THEN start ELSE f[n - 1] \cup UNION {next[k] : k \in f[n - 1]}
           upTo == CHOOSE f : f = [n \in 0..N |-> Body(f, n)]
<1>1. N \in Nat
  BY LibraryOK, FS_CardinalityType
<1>2. PICK f : Waves(f, N, start, next)
  <2> HIDE DEF N
  <2> QED
    BY <1>1, WavesExist
<1>3. f = [n \in 0..N |-> Body(f, n)]
  <2> HIDE DEF N
  <2>1. \A n \in 0..N : f[n] = Body(f, n)
    BY <1>1, <1>2 DEF Waves
  <2>2. f = [n \in 0..N |-> f[n]]
    BY <1>2 DEF Waves
  <2> QED
    BY <2>1, <2>2
<1>4. upTo = [n \in 0..N |-> Body(upTo, n)]
  <2> HIDE DEF N, Body
  <2> QED
    BY <1>3
<1>5. Walk(start, next) = upTo[N]
  BY DEF Walk
<1>6. upTo[N] = f[N]
  <2> DEFINE Bad == {n \in 0..N : upTo[n] # f[n]}
  <2> HIDE DEF upTo, N
  <2> SUFFICES ASSUME Bad # {} PROVE FALSE
    BY <1>1
  <2>1. PICK n \in Bad : \A m \in Bad : n <= m
    <3>1. Bad \in SUBSET Nat
      BY <1>1
    <3> HIDE DEF Bad
    <3> QED
      BY <3>1, Least
  <2>2. upTo[n] = Body(upTo, n) /\ f[n] = Body(f, n)
    <3> HIDE DEF Body
    <3> QED
      BY <1>3, <1>4, <2>1
  <2>3. n # 0 => upTo[n - 1] = f[n - 1]
    BY <1>1, <2>1
  <2> QED
    BY <2>1, <2>2, <2>3
<1> QED
  BY <1>2, <1>5, <1>6

\* Waves only grow; and while they do, they gain a key each time.  A wave that gains none is closed,
\* and so is one that holds every question.
LEMMA WavesClose ==
  ASSUME NEW start \in SUBSET Questions, NEW next \in [Questions -> SUBSET Questions],
         NEW N \in Nat, NEW f, Waves(f, N, start, next)
  PROVE  \A n \in 0..N : /\ start \subseteq f[n]
                         /\ \/ \A k \in f[n] : next[k] \subseteq f[n]
                            \/ Cardinality(f[n]) >= n
<1> DEFINE Closed(n) == \A k \in f[n] : next[k] \subseteq f[n]
           Ok(n) == start \subseteq f[n] /\ (Closed(n) \/ Cardinality(f[n]) >= n)
           Bad == {n \in 0..N : ~Ok(n)}
<1> SUFFICES ASSUME Bad # {} PROVE FALSE
  OBVIOUS
<1>1. PICK n \in Bad : \A m \in Bad : n <= m
  <2>1. Bad \in SUBSET Nat
    OBVIOUS
  <2> HIDE DEF Bad
  <2> QED
    BY <2>1, Least
<1>2. \A m \in 0..N : f[m] \in SUBSET Questions /\ IsFiniteSet(f[m]) /\ Cardinality(f[m]) \in Nat
  <2> TAKE m \in 0..N
  <2>1. f[m] \in SUBSET Questions
    BY DEF Waves
  <2>2. IsFiniteSet(f[m])
    BY <2>1, LibraryOK, FS_Subset
  <2> QED
    BY <2>1, <2>2, FS_CardinalityType
<1>3. n \in 0..N /\ ~Ok(n)
  BY <1>1
<1>4. n # 0
  <2>1. Cardinality(f[0]) \in Nat /\ f[0] = start
    BY <1>2 DEF Waves
  <2> SUFFICES ASSUME n = 0 PROVE FALSE
    OBVIOUS
  <2> QED
    BY <1>3, <2>1
<1>5. n \in 1..N /\ n - 1 \in 0..N /\ Ok(n - 1)
  <2>1. n \in 1..N /\ n - 1 \in 0..N /\ ~(n <= n - 1)
    BY <1>3, <1>4
  <2>2. n - 1 \notin Bad
    <3> HIDE DEF Bad
    <3> QED
      BY <1>1, <2>1
  <2> QED
    BY <2>1, <2>2
<1> HIDE DEF Bad
<1>6. f[n] = f[n - 1] \cup UNION {next[k] : k \in f[n - 1]}
  BY <1>5 DEF Waves
<1>7. CASE f[n] = f[n - 1]
  <2>1. Closed(n)
    BY <1>6, <1>7
  <2> QED
    BY <2>1, <1>3, <1>5, <1>7
<1>8. CASE f[n] # f[n - 1]
  <2>1. ~Closed(n - 1)
    BY <1>6, <1>8
  <2>2. Cardinality(f[n - 1]) >= n - 1 /\ start \subseteq f[n]
    BY <2>1, <1>5, <1>6
  <2>3. /\ Cardinality(f[n - 1]) <= Cardinality(f[n])
        /\ Cardinality(f[n - 1]) # Cardinality(f[n])
    <3>1. f[n - 1] \in SUBSET f[n] /\ IsFiniteSet(f[n])
      BY <1>2, <1>3, <1>6
    <3> QED
      BY <3>1, <1>8, FS_Subset
  <2>4. Cardinality(f[n]) >= n
    BY <2>2, <2>3, <1>2, <1>3, <1>5
  <2> QED
    BY <2>2, <2>4, <1>3
<1> QED
  BY <1>7, <1>8

\* A walk holds its start and is closed.
LEMMA WalkCloses ==
  ASSUME NEW start \in SUBSET Questions, NEW next \in [Questions -> SUBSET Questions],
         NEW w, w = Walk(start, next)
  PROVE  /\ start \subseteq w /\ w \subseteq Questions
         /\ \A k \in w : next[k] \subseteq w
<1> DEFINE N == Cardinality(Questions)
<1>1. N \in Nat
  BY LibraryOK, FS_CardinalityType
<1>2. PICK f : Waves(f, N, start, next) /\ w = f[N]
  BY WalkIsWave
<1> HIDE DEF N
<1>3. w \in SUBSET Questions
  BY <1>1, <1>2 DEF Waves
<1>4. start \subseteq w /\ ((\A k \in w : next[k] \subseteq w) \/ Cardinality(w) >= N)
  <2>1. \A n \in 0..N : /\ start \subseteq f[n]
                        /\ \/ \A k \in f[n] : next[k] \subseteq f[n]
                           \/ Cardinality(f[n]) >= n
    BY <1>1, <1>2, WavesClose
  <2>2. N \in 0..N
    BY <1>1
  <2> QED
    BY <2>1, <2>2, <1>2
<1>5. CASE Cardinality(w) >= N
  <2>1. Cardinality(w) <= N /\ (Cardinality(w) = N => w = Questions)
    BY <1>3, LibraryOK, FS_Subset DEF N
  <2>2. Cardinality(w) \in Nat
    BY <1>3, LibraryOK, FS_Subset, FS_CardinalityType
  <2>3. w = Questions
    BY <2>1, <2>2, <1>1, <1>5
  <2> QED
    BY <2>3, <1>4
<1> QED
  BY <1>3, <1>4, <1>5

\* A walk reaches nothing but what every closed set around its start holds.
LEMMA WalkIsLeast ==
  ASSUME NEW start \in SUBSET Questions, NEW next \in [Questions -> SUBSET Questions],
         NEW T, start \subseteq T, \A k \in T : k \in Questions => next[k] \subseteq T
  PROVE  Walk(start, next) \subseteq T
<1> DEFINE N == Cardinality(Questions)
<1>1. N \in Nat
  BY LibraryOK, FS_CardinalityType
<1>2. PICK f : Waves(f, N, start, next) /\ Walk(start, next) = f[N]
  BY WalkIsWave
<1> HIDE DEF N
<1> DEFINE Bad == {n \in 0..N : ~(f[n] \subseteq T)}
<1> SUFFICES ASSUME Bad # {} PROVE FALSE
  BY <1>1, <1>2
<1>3. PICK n \in Bad : \A m \in Bad : n <= m
  <2>1. Bad \in SUBSET Nat
    BY <1>1
  <2> HIDE DEF Bad
  <2> QED
    BY <2>1, Least
<1>4. n # 0
  BY <1>2, <1>3 DEF Waves
<1>5. n \in 1..N /\ n - 1 \in 0..N /\ f[n - 1] \subseteq T
  BY <1>1, <1>3, <1>4
<1>6. f[n] = f[n - 1] \cup UNION {next[k] : k \in f[n - 1]} /\ f[n - 1] \subseteq Questions
  BY <1>2, <1>5 DEF Waves
<1>7. f[n] \subseteq T
  BY <1>5, <1>6
<1> QED
  BY <1>3, <1>7

-------------------------------------------------------------------------------
(* The walks of the intake, of the gate and of an upload *)

QuestionsTyped == questions \in [Questions -> QuestionDoc \cup {Nothing}]

\* Where the questions lead.
LEMMA Leads ==
  ASSUME QuestionsTyped
  PROVE  /\ Active \subseteq Questions
         /\ \A k \in Active : Follow(k) \in SUBSET Questions
         /\ \A flow \in Seq(Questions) : Range(flow) \in SUBSET Questions
<1>1. \A flow \in Seq(Questions) : Range(flow) \in SUBSET Questions
  BY DEF Range
<1>2. ASSUME NEW k \in Active PROVE Follow(k) \in SUBSET Questions
  <2>1. questions[k].body.follow \in Seq(Questions)
    BY <1>2, LibraryOK DEF Active, ActiveIn, QuestionsTyped, QuestionDoc, QuestionBody
  <2> QED
    BY <1>1, <2>1 DEF Follow
<1> QED
  BY <1>1, <1>2 DEF Active, ActiveIn

\* The questions of a flow are active ones.
LEMMA MapIsActive ==
  ASSUME QuestionsTyped, NEW flow \in Seq(Questions)
  PROVE  questionMap(flow) \subseteq Active
<1> DEFINE start == Active \cap Range(flow)
           next == [k \in Questions |-> IF k \in Active THEN Active \cap Follow(k) ELSE {}]
<1>1. start \in SUBSET Questions /\ next \in [Questions -> SUBSET Questions]
  BY Leads
<1>2. start \subseteq Active /\ \A k \in Active : k \in Questions => next[k] \subseteq Active
  OBVIOUS
<1>3. Walk(start, next) \subseteq Active
  <2> HIDE DEF start, next
  <2> QED
    BY <1>1, <1>2, WalkIsLeast
<1> QED
  BY <1>3 DEF questionMap

\* Two walks that stop at different keys, questionMap at the inactive and the gate's at the
\* missing ones, are the same walk when every key the gate finds is active: then what the intake
\* looks up is closed under the flow and the follow-ups.
LEMMA WalksAgree ==
  ASSUME QuestionsTyped, NEW flow \in Seq(Questions), Named(flow) \subseteq Active
  PROVE  /\ questionMap(flow) = Named(flow)
         /\ Range(flow) \cup UNION {Follow(k) : k \in questionMap(flow)} \subseteq questionMap(flow)
<1> DEFINE start1 == Range(flow)
           next1 == [k \in Questions |-> IF k \in Active THEN Follow(k) ELSE {}]
           start2 == Active \cap Range(flow)
           next2 == [k \in Questions |-> IF k \in Active THEN Active \cap Follow(k) ELSE {}]
           nm == Walk(start1, next1)
           qm == Walk(start2, next2)
<1>1. nm = Named(flow) /\ qm = questionMap(flow) /\ nm \subseteq Active
  BY DEF Named, NamedIn, NamedFrom, questionMap, Active, Follow
<1>2. /\ start1 \in SUBSET Questions /\ start2 \in SUBSET Questions
      /\ next1 \in [Questions -> SUBSET Questions] /\ next2 \in [Questions -> SUBSET Questions]
  BY Leads
<1>3. start1 \subseteq nm /\ nm \subseteq Questions /\ \A k \in nm : next1[k] \subseteq nm
  <2> HIDE DEF start1, next1
  <2> QED
    BY <1>2, WalkCloses
<1>4. start2 \subseteq qm /\ qm \subseteq Questions /\ \A k \in qm : next2[k] \subseteq qm
  <2> HIDE DEF start2, next2
  <2> QED
    BY <1>2, WalkCloses
<1>5. qm \subseteq nm
  <2>1. start2 \subseteq nm /\ \A k \in nm : k \in Questions => next2[k] \subseteq nm
    <3> HIDE DEF nm, qm
    <3> QED
      BY <1>3
  <2> HIDE DEF start2, next2, nm
  <2> QED
    BY <1>2, <2>1, WalkIsLeast
<1>6. start1 \subseteq qm /\ \A k \in qm : next1[k] \subseteq qm
  <2> HIDE DEF nm, qm
  <2>1. start1 = start2
    BY <1>1, <1>3
  <2>2. \A k \in qm : next1[k] = next2[k]
    BY <1>1, <1>3, <1>5
  <2> HIDE DEF start1, start2, next1, next2
  <2> QED
    BY <1>4, <2>1, <2>2
<1>7. nm \subseteq qm
  <2> HIDE DEF start1, next1, qm
  <2> QED
    BY <1>2, <1>6, WalkIsLeast
<1>8. \A k \in qm : next1[k] = Follow(k)
  <2> HIDE DEF nm, qm
  <2> QED
    BY <1>1, <1>4, <1>5
<1> HIDE DEF nm, qm, next1
<1> QED
  BY <1>1, <1>5, <1>6, <1>7, <1>8

-------------------------------------------------------------------------------
(* Versioned documents *)

Version(Bodies) ==
  [status : {"draft", "active", "deactivated"}, isCurrent : BOOLEAN, body : Bodies]

\* One group: its current version is its active one, and a draft is newer than all others.
GroupWellFormed(group) ==
  /\ \A n \in DOMAIN group : group[n].isCurrent <=> group[n].status = "active"
  /\ \A m, n \in DOMAIN group :
       (group[m].status # "deactivated" /\ m < n) =>
          group[m].status = "active" /\ group[n].status # "active"

\* The versions of all groups G.
Collection(G, Bodies) == [G -> Seq(Version(Bodies))]

\* What an edit of a group must leave alone: what was activated once.
Sealed(old, new) ==
  \A n \in DOMAIN old : old[n].status # "draft" =>
    /\ n \in DOMAIN new /\ new[n].body = old[n].body
    /\ old[n].status = "deactivated" => new[n].status = "deactivated"

Live(group) == {n \in DOMAIN group : group[n].isCurrent /\ group[n].status = "active"}

\* An edit that makes no version live, and one that makes version n live.
MakesNoneLive(old, new) ==
  \A n \in Live(new) : n \in Live(old) /\ new[n].body = old[n].body
MakesLive(old, new, n) ==
  \A m \in Live(new) : m = n \/ (m \in Live(old) /\ new[m].body = old[m].body)

\* An edit of group g: the others stay, what was well-formed is still, what was activated is sealed.
Edited(G, old, new, g) ==
  /\ \A h \in G \ {g} : new[h] = old[h]
  /\ GroupWellFormed(old[g]) => GroupWellFormed(new[g])
  /\ Sealed(old[g], new[g])

\* createDraft in an unused group.
LEMMA CreateStep ==
  ASSUME NEW Bodies, NEW G, NEW docs \in Collection(G, Bodies), NEW g \in G,
         docs[g] = <<>>, NEW b \in Bodies
  PROVE  LET new == createDraft(docs, g, b) IN
         /\ new \in Collection(G, Bodies) /\ Edited(G, docs, new, g)
         /\ MakesNoneLive(docs[g], new[g])
<1> USE DEF Collection
<1> DEFINE new == createDraft(docs, g, b)
<1>1. Draft(b) \in Version(Bodies) /\ Draft(b).status = "draft" /\ ~Draft(b).isCurrent
  BY DEF Draft, Version
<1>2. new = [docs EXCEPT ![g] = <<Draft(b)>>]
  BY DEF createDraft
<1>3. new \in [G -> Seq(Version(Bodies))] /\ new[g] = <<Draft(b)>> /\ \A h \in G \ {g} : new[h] = docs[h]
  BY <1>1, <1>2
<1> HIDE DEF new
<1>4. GroupWellFormed(new[g]) /\ MakesNoneLive(docs[g], new[g])
  BY <1>1, <1>3 DEF GroupWellFormed, MakesNoneLive, Live
<1>5. Sealed(docs[g], new[g])
  BY DEF Sealed
<1> QED
  BY <1>3, <1>4, <1>5 DEF new, Edited

WithDraft(docs, g, b) == [docs EXCEPT ![g] = Append(@, Draft(b))]

\* A new draft at the end of a group without one.
LEMMA AppendStep ==
  ASSUME NEW Bodies, NEW G, NEW docs \in Collection(G, Bodies), NEW g \in G,
         OpenDrafts(docs, g) = {}, NEW b \in Bodies
  PROVE  LET new == WithDraft(docs, g, b) IN
         /\ new \in Collection(G, Bodies) /\ Edited(G, docs, new, g)
         /\ MakesNoneLive(docs[g], new[g])
<1> USE DEF Collection
<1> DEFINE new == WithDraft(docs, g, b)
           old == docs[g]
<1>1. Draft(b) \in Version(Bodies) /\ Draft(b).status = "draft" /\ ~Draft(b).isCurrent
  BY DEF Draft, Version
<1>2. old \in Seq(Version(Bodies)) /\ Len(old) \in Nat /\ DOMAIN old = 1..Len(old)
      /\ \A m \in DOMAIN old : old[m] \in Version(Bodies)
  OBVIOUS
<1>3. /\ new \in [G -> Seq(Version(Bodies))] /\ new[g] = Append(old, Draft(b))
      /\ \A h \in G \ {g} : new[h] = docs[h]
  BY <1>1 DEF WithDraft
<1>4. /\ DOMAIN new[g] = 1..(Len(old) + 1) /\ new[g][Len(old) + 1] = Draft(b)
      /\ \A m \in DOMAIN old : new[g][m] = old[m]
  BY <1>3, <1>2
<1>5. \A m \in DOMAIN old : old[m].status # "draft"
  BY DEF OpenDrafts
<1>6. \A m \in DOMAIN old : old[m].status \in {"draft", "active", "deactivated"}
  BY <1>2 DEF Version
<1> HIDE DEF new, old
<1>7. ASSUME GroupWellFormed(old) PROVE GroupWellFormed(new[g])
  <2>1. \A m \in DOMAIN new[g] : m \in DOMAIN old \/ m = Len(old) + 1
    BY <1>4, <1>2
  <2>2. \A m \in DOMAIN new[g] : new[g][m].isCurrent <=> new[g][m].status = "active"
    BY <1>4, <1>7, <2>1, <1>1 DEF GroupWellFormed
  <2>3. ASSUME NEW m \in DOMAIN new[g], NEW k \in DOMAIN new[g],
               new[g][m].status # "deactivated", m < k
        PROVE  new[g][m].status = "active" /\ new[g][k].status # "active"
    <3>1. m \in DOMAIN old
      BY <2>1, <2>3, <1>4, <1>2
    <3>2. new[g][m].status = "active"
      BY <3>1, <1>4, <1>5, <1>6, <2>3
    <3>3. new[g][k].status # "active"
      BY <3>1, <2>1, <2>3, <1>4, <1>7, <1>1 DEF GroupWellFormed
    <3> QED
      BY <3>2, <3>3
  <2> QED
    BY <2>2, <2>3 DEF GroupWellFormed
<1>8. Sealed(old, new[g]) /\ MakesNoneLive(old, new[g])
  BY <1>4, <1>1, <1>2 DEF Sealed, MakesNoneLive, Live
<1> QED
  BY <1>3, <1>7, <1>8 DEF new, old, Edited

\* updateAsNewVersion: a draft in place, else a new draft at the end.
LEMMA UpdateStep ==
  ASSUME NEW Bodies, NEW G, NEW docs \in Collection(G, Bodies), NEW g \in G,
         NEW n \in DOMAIN docs[g], MayUpdate(docs, g, n), NEW b \in Bodies
  PROVE  LET new == updateAsNewVersion(docs, g, n, b) IN
         /\ new \in Collection(G, Bodies) /\ Edited(G, docs, new, g)
         /\ MakesNoneLive(docs[g], new[g])
<1> USE DEF Collection
<1> DEFINE new == updateAsNewVersion(docs, g, n, b)
           old == docs[g]
<1>1. Draft(b) \in Version(Bodies) /\ Draft(b).status = "draft" /\ ~Draft(b).isCurrent
  BY DEF Draft, Version
<1>2. old \in Seq(Version(Bodies)) /\ Len(old) \in Nat /\ DOMAIN old = 1..Len(old)
      /\ \A m \in DOMAIN old : old[m] \in Version(Bodies)
  OBVIOUS
<1>3. CASE old[n].status = "draft"
  <2>1. new = [docs EXCEPT ![g] = [old EXCEPT ![n] = [old[n] EXCEPT !.body = b]]]
    BY <1>3 DEF updateAsNewVersion
  <2>2. [old[n] EXCEPT !.body = b] \in Version(Bodies)
    BY <1>2 DEF Version
  <2>3. /\ [old EXCEPT ![n] = [old[n] EXCEPT !.body = b]] \in Seq(Version(Bodies))
        /\ DOMAIN [old EXCEPT ![n] = [old[n] EXCEPT !.body = b]] = DOMAIN old
    BY <1>2, <2>2
  <2>4. /\ new \in [G -> Seq(Version(Bodies))] /\ \A h \in G \ {g} : new[h] = docs[h]
        /\ new[g] = [old EXCEPT ![n] = [old[n] EXCEPT !.body = b]]
    BY <2>1, <2>3
  <2>5. /\ DOMAIN new[g] = DOMAIN old /\ \A m \in DOMAIN old \ {n} : new[g][m] = old[m]
        /\ new[g][n].status = old[n].status /\ new[g][n].isCurrent = old[n].isCurrent
    BY <2>3, <2>4, <1>2 DEF Version
  <2> HIDE DEF new, old
  <2>6. GroupWellFormed(old) => GroupWellFormed(new[g])
    BY <2>5 DEF GroupWellFormed
  <2>7. Sealed(old, new[g]) /\ MakesNoneLive(old, new[g])
    BY <2>5, <1>3 DEF Sealed, MakesNoneLive, Live
  <2> QED
    BY <2>4, <2>6, <2>7 DEF new, old, Edited
<1>4. CASE old[n].status = "active" /\ OpenDrafts(docs, g) = {}
  <2>1. new = WithDraft(docs, g, b)
    BY <1>4 DEF updateAsNewVersion, WithDraft
  <2> HIDE DEF new
  <2>2. new \in Collection(G, Bodies) /\ Edited(G, docs, new, g) /\ MakesNoneLive(docs[g], new[g])
    BY <1>4, <2>1, AppendStep
  <2> QED
    BY <2>2 DEF new
<1> QED
  BY <1>3, <1>4 DEF MayUpdate

\* deactivate.
LEMMA DeactivateStep ==
  ASSUME NEW Bodies, NEW G, NEW docs \in Collection(G, Bodies), NEW g \in G,
         NEW n \in DOMAIN docs[g]
  PROVE  LET new == deactivate(docs, g, n) IN
         /\ new \in Collection(G, Bodies) /\ Edited(G, docs, new, g)
         /\ MakesNoneLive(docs[g], new[g])
<1> USE DEF Collection
<1> DEFINE new == deactivate(docs, g, n)
           old == docs[g]
           off == [old[n] EXCEPT !.status = "deactivated", !.isCurrent = FALSE]
<1>1. old \in Seq(Version(Bodies)) /\ DOMAIN old = 1..Len(old)
      /\ \A m \in DOMAIN old : old[m] \in Version(Bodies)
  OBVIOUS
<1>2. /\ off \in Version(Bodies) /\ off.status = "deactivated" /\ ~off.isCurrent
      /\ off.body = old[n].body
  BY <1>1 DEF Version
<1>3. new = [docs EXCEPT ![g] = [old EXCEPT ![n] = off]]
  BY <1>1 DEF deactivate, Version
<1> HIDE DEF off
<1>4. [old EXCEPT ![n] = off] \in Seq(Version(Bodies))
  BY <1>1, <1>2
<1>5. /\ new \in [G -> Seq(Version(Bodies))] /\ \A h \in G \ {g} : new[h] = docs[h]
      /\ new[g] = [old EXCEPT ![n] = off]
  BY <1>3, <1>4
<1>6. DOMAIN new[g] = DOMAIN old /\ new[g][n] = off /\ \A m \in DOMAIN old \ {n} : new[g][m] = old[m]
  BY <1>5
<1> HIDE DEF new, old
<1>7. GroupWellFormed(old) => GroupWellFormed(new[g])
  BY <1>2, <1>6 DEF GroupWellFormed
<1>8. Sealed(old, new[g]) /\ MakesNoneLive(old, new[g])
  BY <1>2, <1>6 DEF Sealed, MakesNoneLive, Live
<1> QED
  BY <1>5, <1>7, <1>8 DEF new, old, Edited

\* activate: the draft goes live, the version that was current makes way.
LEMMA ActivateStep ==
  ASSUME NEW Bodies, NEW G, NEW docs \in Collection(G, Bodies), NEW g \in G,
         NEW n \in DOMAIN docs[g], docs[g][n].status = "draft"
  PROVE  LET new == activate(docs, g, n) IN
         /\ new \in Collection(G, Bodies) /\ Edited(G, docs, new, g)
         /\ MakesLive(docs[g], new[g], n)
         /\ n \in Live(new[g]) /\ new[g][n].body = docs[g][n].body
<1> USE DEF Collection
<1> DEFINE new == activate(docs, g, n)
           old == docs[g]
           current == {m \in DOMAIN old : old[m].isCurrent}
           previous == CHOOSE m \in current : TRUE
           on == [old[n] EXCEPT !.status = "active", !.isCurrent = TRUE]
           Off(m) == [old[m] EXCEPT !.status = "deactivated", !.isCurrent = FALSE]
           t == [m \in DOMAIN old |-> IF m = n THEN on
                                      ELSE IF current # {} /\ m = previous THEN Off(m)
                                      ELSE old[m]]
<1>1. old \in Seq(Version(Bodies)) /\ DOMAIN old = 1..Len(old)
      /\ \A m \in DOMAIN old : old[m] \in Version(Bodies)
  OBVIOUS
<1>2. /\ on \in Version(Bodies) /\ on.status = "active" /\ on.isCurrent /\ on.body = old[n].body
  BY <1>1 DEF Version
<1>3. \A m \in DOMAIN old : /\ Off(m) \in Version(Bodies) /\ Off(m).status = "deactivated"
                            /\ ~Off(m).isCurrent /\ Off(m).body = old[m].body
  BY <1>1 DEF Version
<1>4. new = [docs EXCEPT ![g] = t]
  BY DEF activate
<1> HIDE DEF on, Off
<1>5. t \in Seq(Version(Bodies)) /\ DOMAIN t = DOMAIN old
  BY <1>1, <1>2, <1>3
<1>6. /\ t[n] = on /\ \A m \in DOMAIN old : m # n =>
           t[m] = (IF m \in current /\ m = previous THEN Off(m) ELSE old[m])
  OBVIOUS
<1>7. current # {} => previous \in current
  OBVIOUS
<1> HIDE DEF t, previous
<1>8. /\ new \in [G -> Seq(Version(Bodies))] /\ new[g] = t
      /\ \A h \in G \ {g} : new[h] = docs[h]
  BY <1>4, <1>5
<1> HIDE DEF new
<1>9. GroupWellFormed(old) => GroupWellFormed(t)
  <2> SUFFICES ASSUME GroupWellFormed(old) PROVE GroupWellFormed(t)
    OBVIOUS
  <2>1. \A m, k \in current : m = k
    <3> SUFFICES ASSUME NEW m \in current, NEW k \in current, m < k PROVE FALSE
      BY <1>1
    <3> QED
      BY DEF GroupWellFormed
  <2>2. \A m \in DOMAIN old : old[m].status \in {"draft", "active", "deactivated"}
    BY <1>1 DEF Version
  <2>3. \A m \in DOMAIN old : m # n => t[m].status = "deactivated" /\ ~t[m].isCurrent
    <3> SUFFICES ASSUME NEW m \in DOMAIN old, m # n
                 PROVE  t[m].status = "deactivated" /\ ~t[m].isCurrent
      OBVIOUS
    <3>1. old[m].status # "draft"
      BY <1>1 DEF GroupWellFormed
    <3>2. CASE m \in current
      <4>1. m = previous
        BY <2>1, <1>7, <3>2
      <4> QED
        BY <4>1, <3>2, <1>3, <1>6
    <3>3. CASE m \notin current
      <4>1. t[m] = old[m]
        BY <1>6, <3>3
      <4>2. ~old[m].isCurrent
        BY <3>3
      <4> QED
        BY <4>1, <4>2, <3>1, <2>2 DEF GroupWellFormed
    <3> QED
      BY <3>2, <3>3
  <2> HIDE DEF old, current
  <2> QED
    BY <2>3, <1>1, <1>2, <1>5, <1>6 DEF GroupWellFormed
<1>10. Sealed(old, t)
  <2> SUFFICES ASSUME NEW m \in DOMAIN old, old[m].status # "draft"
               PROVE  /\ t[m].body = old[m].body
                      /\ old[m].status = "deactivated" => t[m].status = "deactivated"
    BY <1>5 DEF Sealed
  <2>1. m # n
    OBVIOUS
  <2> HIDE DEF old, current
  <2> QED
    BY <2>1, <1>3, <1>6
<1>11. MakesLive(old, t, n) /\ n \in Live(t)
  <2>1. ASSUME NEW m \in Live(t), m # n PROVE m \in Live(old) /\ t[m].body = old[m].body
    <3>1. m \in DOMAIN old /\ t[m].isCurrent /\ t[m].status = "active"
      BY <1>5 DEF Live
    <3> HIDE DEF old, current
    <3>2. t[m] = old[m]
      BY <2>1, <3>1, <1>3, <1>6
    <3> QED
      BY <3>1, <3>2 DEF Live
  <2>2. n \in Live(t)
    <3> HIDE DEF old, current
    <3> QED
      BY <1>2, <1>5, <1>6 DEF Live, old
  <2> HIDE DEF old
  <2> QED
    BY <2>1, <2>2 DEF MakesLive
<1> QED
  BY <1>2, <1>6, <1>8, <1>9, <1>10, <1>11 DEF new, Edited

\* Installed: a new draft that is activated at once.
LEMMA InstalledStep ==
  ASSUME NEW Bodies, NEW G, NEW docs \in Collection(G, Bodies), NEW g \in G,
         OpenDrafts(docs, g) = {}, NEW b \in Bodies
  PROVE  LET new == Installed(docs, g, b)
             n   == Len(docs[g]) + 1
         IN
         /\ new \in Collection(G, Bodies) /\ Edited(G, docs, new, g)
         /\ MakesLive(docs[g], new[g], n)
         /\ n \in Live(new[g]) /\ new[g][n].body = b
<1> DEFINE mid == WithDraft(docs, g, b)
           n == Len(docs[g]) + 1
           new == activate(mid, g, n)
<1>1. mid \in Collection(G, Bodies) /\ Edited(G, docs, mid, g) /\ MakesNoneLive(docs[g], mid[g])
  BY AppendStep
<1>2. /\ mid[g] = Append(docs[g], Draft(b)) /\ docs[g] \in Seq(Version(Bodies))
      /\ Len(docs[g]) \in Nat
  BY DEF WithDraft, Collection
<1> HIDE DEF mid
<1>3. /\ n \in DOMAIN mid[g] /\ mid[g][n] = Draft(b) /\ Len(mid[g]) = n
      /\ \A m \in DOMAIN docs[g] : mid[g][m] = docs[g][m]
  BY <1>2
<1>4. mid[g][n].status = "draft" /\ mid[g][n].body = b
  BY <1>3 DEF Draft
<1>5. Installed(docs, g, b) = new
  BY <1>3 DEF Installed, mid, WithDraft
<1> HIDE DEF n
<1>6. /\ new \in Collection(G, Bodies) /\ Edited(G, mid, new, g)
      /\ MakesLive(mid[g], new[g], n)
      /\ n \in Live(new[g]) /\ new[g][n].body = mid[g][n].body
  <2>1. n \in DOMAIN mid[g] /\ mid[g][n].status = "draft"
    BY <1>3, <1>4
  <2> QED
    BY <1>1, <2>1, ActivateStep
<1> HIDE DEF new
<1>7. Edited(G, docs, new, g)
  BY <1>1, <1>3, <1>6 DEF Edited, Sealed
<1>8. MakesLive(docs[g], new[g], n)
  BY <1>1, <1>6 DEF MakesLive, MakesNoneLive
<1> QED
  BY <1>1, <1>4, <1>5, <1>6, <1>7, <1>8 DEF n

-------------------------------------------------------------------------------
(* The invariant *)

\* What every state holds beside the types: a version that is live has a flow, and so has the
\* scenario an intake has chosen, which may no longer be live.
TypeInv ==
  /\ personas \in Collection(PersonaGroups, PersonaBodies)
  /\ scenarios \in Collection(ScenarioGroups, ScenarioBodies)
  /\ QuestionsTyped
  /\ matrices \subseteq Matrices
  /\ intake = [pc |-> intake.pc, persona |-> intake.persona, scenario |-> intake.scenario,
               content |-> intake.content]
  /\ intake.pc = "prepared" => intake.persona \in PersonaBodies /\ intake.scenario \in ScenarioBodies

GroupsOk(docs) == \A g \in DOMAIN docs : GroupWellFormed(docs[g])

LiveHasFlow == \A g \in ScenarioGroups : \A n \in Live(scenarios[g]) : scenarios[g][n].body.flow # <<>>

LibraryInv ==
  /\ TypeInv
  /\ GroupsOk(personas) /\ GroupsOk(scenarios)
  /\ LiveHasFlow
  /\ intake.pc = "prepared" => intake.scenario.flow # <<>>
  /\ PinnedIsConsistent

\* Current, group by group.
LEMMA CurrentIsLive ==
  ASSUME NEW Bodies, NEW G, NEW docs \in Collection(G, Bodies)
  PROVE  /\ \A v : v \in Current(docs) <=>
                     \E g \in G : \E n \in Live(docs[g]) : v = <<g, n>>
         /\ CurrentBodies(docs) = UNION {{docs[g][n].body : n \in Live(docs[g])} : g \in G}
         /\ CurrentBodies(docs) \subseteq Bodies
<1>1. \A v : v \in Versions(docs) <=> \E g \in G : \E n \in DOMAIN docs[g] : v = <<g, n>>
  BY DEF Versions, Collection
<1>2. \A g \in G : \A n : At(docs, <<g, n>>) = docs[g][n]
  BY DEF At
<1>3. \A v : v \in Current(docs) <=> \E g \in G : \E n \in Live(docs[g]) : v = <<g, n>>
  <2> SUFFICES ASSUME NEW v
               PROVE  v \in Current(docs) <=> \E g \in G : \E n \in Live(docs[g]) : v = <<g, n>>
    OBVIOUS
  <2> QED
    BY <1>1, <1>2 DEF Current, Live
<1>4. CurrentBodies(docs) = UNION {{docs[g][n].body : n \in Live(docs[g])} : g \in G}
  <2>1. \A x : x \in CurrentBodies(docs) <=> \E v \in Current(docs) : x = At(docs, v).body
    BY DEF CurrentBodies
  <2>2. \A x : x \in CurrentBodies(docs) =>
                 \E g \in G : \E n \in Live(docs[g]) : x = docs[g][n].body
    BY <2>1, <1>2, <1>3
  <2>3. ASSUME NEW g \in G, NEW n \in Live(docs[g]) PROVE docs[g][n].body \in CurrentBodies(docs)
    <3>1. <<g, n>> \in Current(docs) /\ At(docs, <<g, n>>) = docs[g][n]
      BY <1>2, <1>3
    <3> QED
      BY <2>1, <3>1
  <2> QED
    BY <2>2, <2>3
<1>5. \A g \in G : \A n \in Live(docs[g]) : docs[g][n].body \in Bodies
  <2> TAKE g \in G
  <2> TAKE n \in Live(docs[g])
  <2>1. docs[g][n] \in Version(Bodies)
    BY DEF Live, Collection
  <2> QED
    BY <2>1 DEF Version
<1> QED
  BY <1>3, <1>4, <1>5

\* What an edit of personas does.
LEMMA PersonaEdit ==
  ASSUME TypeInv, NEW g \in PersonaGroups, EditPersona(g)
  PROVE  /\ personas' \in Collection(PersonaGroups, PersonaBodies)
         /\ Edited(PersonaGroups, personas, personas', g)
<1> USE DEF TypeInv
<1>1. CASE \E b \in PersonaBodies : personas[g] = <<>> /\ personas' = createDraft(personas, g, b)
  BY <1>1, CreateStep
<1>2. CASE \E n \in DOMAIN personas[g], b \in PersonaBodies :
             MayUpdate(personas, g, n) /\ personas' = updateAsNewVersion(personas, g, n, b)
  BY <1>2, UpdateStep
<1>3. CASE \E n \in DOMAIN personas[g] :
             MayActivate(personas, g, n) /\ personas' = activate(personas, g, n)
  BY <1>3, ActivateStep DEF MayActivate
<1>4. CASE \E n \in DOMAIN personas[g] : personas' = deactivate(personas, g, n)
  BY <1>4, DeactivateStep
<1> QED
  BY <1>1, <1>2, <1>3, <1>4 DEF EditPersona

\* What an edit of scenarios does: a version goes live through the gate only.
LEMMA ScenarioEdit ==
  ASSUME TypeInv, NEW g \in ScenarioGroups, EditScenario(g)
  PROVE  /\ scenarios' \in Collection(ScenarioGroups, ScenarioBodies)
         /\ Edited(ScenarioGroups, scenarios, scenarios', g)
         /\ \/ MakesNoneLive(scenarios[g], scenarios'[g])
            \/ \E n \in DOMAIN scenarios[g] :
                 /\ MakesLive(scenarios[g], scenarios'[g], n)
                 /\ scenarios'[g][n].body = scenarios[g][n].body
                 /\ validateForActivation(scenarios[g][n].body)
<1> USE DEF TypeInv
<1>1. CASE \E b \in ScenarioBodies : scenarios[g] = <<>> /\ scenarios' = createDraft(scenarios, g, b)
  BY <1>1, CreateStep
<1>2. CASE \E n \in DOMAIN scenarios[g], b \in ScenarioBodies :
             MayUpdate(scenarios, g, n) /\ scenarios' = updateAsNewVersion(scenarios, g, n, b)
  BY <1>2, UpdateStep
<1>3. CASE \E n \in DOMAIN scenarios[g] :
             /\ MayActivate(scenarios, g, n) /\ validateForActivation(scenarios[g][n].body)
             /\ scenarios' = activate(scenarios, g, n)
  <2>1. PICK n \in DOMAIN scenarios[g] :
          /\ scenarios[g][n].status = "draft" /\ validateForActivation(scenarios[g][n].body)
          /\ scenarios' = activate(scenarios, g, n)
    BY <1>3 DEF MayActivate
  <2>2. scenarios \in Collection(ScenarioGroups, ScenarioBodies)
    OBVIOUS
  <2>3. /\ scenarios' \in Collection(ScenarioGroups, ScenarioBodies)
        /\ Edited(ScenarioGroups, scenarios, scenarios', g)
        /\ MakesLive(scenarios[g], scenarios'[g], n)
        /\ scenarios'[g][n].body = scenarios[g][n].body
    BY <2>1, <2>2, ActivateStep
  <2> QED
    BY <2>1, <2>3
<1>4. CASE \E n \in DOMAIN scenarios[g] : scenarios' = deactivate(scenarios, g, n)
  BY <1>4, DeactivateStep
<1> QED
  BY <1>1, <1>2, <1>3, <1>4 DEF EditScenario

\* An upload activates through the gate.
LEMMA FileApplied ==
  ASSUME NEW f \in Files, ApplyFile(f)
  PROVE  InstallFile(f) /\ validateForActivation(f.scenario)'
BY DEF ApplyFile, validateForActivation, PassesGate, NamedIn, NamedFrom, ActiveIn

\* A patch of a question gives a question.
LEMMA MergedTyped ==
  ASSUME NEW old \in QuestionBody, NEW patch \in QuestionBody
  PROVE  Merged(old, patch) \in QuestionBody
BY DEF Merged, QuestionBody

\* The questions once a file is in: those of the file are active, with its fact, and with its branch
\* unless it has none.
LEMMA UpsertedTyped ==
  ASSUME QuestionsTyped, NEW f \in Files
  PROVE  /\ Upserted(f) \in [Questions -> QuestionDoc \cup {Nothing}]
         /\ \A k \in DOMAIN f.questions :
              LET body == Upserted(f)[k].body IN
              /\ Upserted(f)[k] \in QuestionDoc /\ Upserted(f)[k].status = "active"
              /\ body.fact = f.questions[k].fact
              /\ body.follow = IF questions[k] # Nothing /\ f.questions[k].follow = <<>>
                               THEN questions[k].body.follow ELSE f.questions[k].follow
         /\ \A k \in Questions \ DOMAIN f.questions : Upserted(f)[k] = questions[k]
<1>1. \A k \in DOMAIN f.questions : k \in Questions /\ f.questions[k] \in QuestionBody
  BY LibraryOK
<1>2. ASSUME NEW k \in DOMAIN f.questions
      PROVE  LET body == Upserted(f)[k].body IN
             /\ Upserted(f)[k] \in QuestionDoc /\ Upserted(f)[k].status = "active"
             /\ body.fact = f.questions[k].fact
             /\ body.follow = IF questions[k] # Nothing /\ f.questions[k].follow = <<>>
                              THEN questions[k].body.follow ELSE f.questions[k].follow
  <2>1. k \in Questions /\ f.questions[k] \in QuestionBody
    BY <1>1
  <2>2. CASE questions[k] = Nothing
    <3>1. Upserted(f)[k] = [status |-> "active", body |-> f.questions[k]]
      BY <2>1, <2>2 DEF Upserted
    <3> QED
      BY <2>1, <2>2, <3>1 DEF QuestionDoc
  <2>3. CASE questions[k] # Nothing
    <3>1. Upserted(f)[k] = [status |-> "active", body |-> Merged(questions[k].body, f.questions[k])]
      BY <2>1, <2>3 DEF Upserted
    <3>2. questions[k].body \in QuestionBody
      BY <2>1, <2>3 DEF QuestionsTyped, QuestionDoc
    <3>3. Merged(questions[k].body, f.questions[k]) \in QuestionBody
      BY <2>1, <3>2, MergedTyped
    <3>4. Upserted(f)[k] \in QuestionDoc /\ Upserted(f)[k].status = "active"
      BY <3>1, <3>3 DEF QuestionDoc
    <3>5. Upserted(f)[k].body = Merged(questions[k].body, f.questions[k])
      BY <3>1
    <3> QED
      BY <2>3, <3>4, <3>5 DEF Merged
  <2> QED
    BY <2>2, <2>3
<1>3. \A k \in Questions \ DOMAIN f.questions : Upserted(f)[k] = questions[k]
  BY DEF Upserted
<1>4. Upserted(f) \in [Questions -> QuestionDoc \cup {Nothing}]
  <2>1. \A k \in Questions : Upserted(f)[k] \in QuestionDoc \cup {Nothing}
    BY <1>2, <1>3 DEF QuestionsTyped
  <2>2. Upserted(f) = [k \in Questions |-> Upserted(f)[k]]
    BY DEF Upserted
  <2> QED
    BY <2>1, <2>2
<1> QED
  BY <1>2, <1>3, <1>4

\* What an upload does.
LEMMA FileEdit ==
  ASSUME TypeInv, NEW f \in Files, ApplyFile(f)
  PROVE  /\ personas' \in Collection(PersonaGroups, PersonaBodies)
         /\ scenarios' \in Collection(ScenarioGroups, ScenarioBodies)
         /\ QuestionsTyped'
         /\ \E g \in PersonaGroups : Edited(PersonaGroups, personas, personas', g)
         /\ \E g \in ScenarioGroups :
              /\ Edited(ScenarioGroups, scenarios, scenarios', g)
              /\ \E n : /\ MakesLive(scenarios[g], scenarios'[g], n)
                        /\ scenarios'[g][n].body = f.scenario
         /\ validateForActivation(f.scenario)'
<1>1. \A k \in DOMAIN f.questions : f.questions[k] \in QuestionBody
  BY LibraryOK
<1>2. f.persona \in PersonaBodies /\ f.scenario \in ScenarioBodies
  BY LibraryOK
<1>3. \A G, Bodies : \A docs \in Collection(G, Bodies) : \A key : Home(docs, key) \subseteq G
  <2> SUFFICES ASSUME NEW G, NEW Bodies, NEW docs \in Collection(G, Bodies), NEW key
               PROVE  Home(docs, key) \subseteq G
    OBVIOUS
  <2>1. \A v \in Versions(docs) : v[1] \in G
    BY DEF Versions, Collection
  <2> QED
    BY <2>1 DEF Home, Collection
<1>4. PICK g \in PersonaGroups :
        OpenDrafts(personas, g) = {} /\ personas' = Installed(personas, g, f.persona)
  BY <1>3, FileApplied DEF InstallFile, TypeInv, PersonaHomes, Free
<1>5. PICK h \in ScenarioGroups :
        OpenDrafts(scenarios, h) = {} /\ scenarios' = Installed(scenarios, h, f.scenario)
  BY <1>3, FileApplied DEF InstallFile, TypeInv, ScenarioHomes, Free
<1>6. /\ personas' \in Collection(PersonaGroups, PersonaBodies)
      /\ Edited(PersonaGroups, personas, personas', g)
  <2>1. personas \in Collection(PersonaGroups, PersonaBodies) /\ f.persona \in PersonaBodies
    BY <1>2 DEF TypeInv
  <2> DEFINE b == f.persona
  <2> HIDE DEF b
  <2>2. b \in PersonaBodies /\ personas' = Installed(personas, g, b) /\ OpenDrafts(personas, g) = {}
    BY <2>1, <1>4 DEF b
  <2> QED
    BY <2>1, <2>2, InstalledStep
<1>7. /\ scenarios' \in Collection(ScenarioGroups, ScenarioBodies)
      /\ Edited(ScenarioGroups, scenarios, scenarios', h)
      /\ \E n : /\ MakesLive(scenarios[h], scenarios'[h], n)
                /\ scenarios'[h][n].body = f.scenario
  <2>1. scenarios \in Collection(ScenarioGroups, ScenarioBodies) /\ f.scenario \in ScenarioBodies
    BY <1>2 DEF TypeInv
  <2> DEFINE b == f.scenario
  <2>2. b \in ScenarioBodies /\ scenarios' = Installed(scenarios, h, b) /\ OpenDrafts(scenarios, h) = {}
    BY <2>1, <1>5
  <2> HIDE DEF b
  <2> QED
    BY <2>1, <2>2, InstalledStep DEF b
<1>8. QuestionsTyped'
  <2>1. questions' = Upserted(f)
    BY FileApplied DEF InstallFile
  <2> QED
    BY <2>1, UpsertedTyped DEF TypeInv, QuestionsTyped
<1>9. validateForActivation(f.scenario)'
  BY FileApplied
<1> QED
  BY <1>6, <1>7, <1>8, <1>9

\* SetToSeq lists a finite set.
LEMMA SetToSeqLists ==
  ASSUME NEW S, IsFiniteSet(S)
  PROVE  /\ \A i \in DOMAIN SetToSeq(S) : SetToSeq(S)[i] \in S
         /\ \A x \in S : \E i \in DOMAIN SetToSeq(S) : SetToSeq(S)[i] = x
<1> DEFINE n == Cardinality(S)
<1>1. n \in Nat /\ \E f \in [1..n -> S] : IsInjective(f)
  <2>1. n \in Nat /\ ExistsBijection(1..n, S)
    BY FS_CardinalityType
  <2> QED
    BY <2>1 DEF ExistsBijection, Bijection, Injection
<1>2. SetToSeq(S) \in [1..n -> S] /\ IsInjective(SetToSeq(S))
  <2> HIDE DEF n
  <2>1. PICK f \in [1..n -> S] : IsInjective(f)
    BY <1>1
  <2> QED
    BY <2>1 DEF SetToSeq, n
<1>3. SetToSeq(S) \in Surjection(1..n, S)
  <2>1. IsFiniteSet(1..n) /\ Cardinality(1..n) = n
    BY <1>1, FS_Interval
  <2>2. SetToSeq(S) \in Injection(1..n, S)
    BY <1>2 DEF Injection
  <2> HIDE DEF n
  <2>3. Cardinality(1..n) = Cardinality(S)
    BY <2>1 DEF n
  <2> QED
    BY <2>2, <2>3, FS_Injection
<1> HIDE DEF n
<1> QED
  BY <1>2, <1>3 DEF Surjection

\* What an intake pins is closed under the flow and the follow-ups, when it may pin.
LEMMA PinnedConsistent ==
  ASSUME QuestionsTyped, NEW p, NEW s, s.flow \in Seq(Questions), s.flow # <<>>, Pinnable(p, s)
  PROVE  B!Consistent(PinnedContent(p, s))
<1> DEFINE qm == questionMap(s.flow)
           c == PinnedContent(p, s)
<1>1. Range(s.flow) \subseteq qm /\ \A k \in qm : Follow(k) \subseteq qm
  BY DEF Pinnable
<1>2. qm \subseteq Questions
  BY MapIsActive, Leads
<1>3. IsFiniteSet(qm)
  BY <1>2, LibraryOK, FS_Subset
<1>4. /\ c.flow = s.flow /\ c.questions = qm /\ c.order = SetToSeq(qm)
      /\ c.trigger = [k \in qm |-> [on |-> Answer, follow |-> questions[k].body.follow]]
  BY DEF PinnedContent
<1> HIDE DEF qm, c
<1>5. \A i \in DOMAIN c.flow : c.flow[i] \in c.questions
  BY <1>1, <1>4 DEF Range
<1>6. c.questions # {}
  <2>1. 1 \in DOMAIN c.flow
    BY <1>4
  <2> QED
    BY <2>1, <1>5
<1>7. \A k \in c.questions : \A i \in DOMAIN c.trigger[k].follow : c.trigger[k].follow[i] \in c.questions
  <2> SUFFICES ASSUME NEW k \in qm
               PROVE  \A i \in DOMAIN c.trigger[k].follow : c.trigger[k].follow[i] \in qm
    BY <1>4
  <2>1. c.trigger[k].follow = questions[k].body.follow
    BY <1>4
  <2> QED
    BY <2>1, <1>1 DEF Follow, Range
<1>8. /\ \A i \in DOMAIN c.order : c.order[i] \in c.questions
      /\ \A k \in c.questions : \E i \in DOMAIN c.order : c.order[i] = k
  BY <1>3, <1>4, SetToSeqLists
<1> QED
  BY <1>5, <1>6, <1>7, <1>8 DEF B!Consistent, c

-------------------------------------------------------------------------------
(* The invariant is kept *)

\* Edits keep every group well-formed.
LEMMA GroupsStay ==
  ASSUME NEW Bodies, NEW G, NEW docs \in Collection(G, Bodies), NEW g \in G,
         NEW new \in Collection(G, Bodies), Edited(G, docs, new, g), GroupsOk(docs)
  PROVE  GroupsOk(new)
BY DEF Edited, GroupsOk, Collection

\* Edits keep what was active once, in every group.
LEMMA SealedEverywhere ==
  ASSUME NEW Bodies, NEW G, NEW docs \in Collection(G, Bodies), NEW g \in G,
         NEW new, Edited(G, docs, new, g)
  PROVE  \A v \in Versions(docs) : At(docs, v).status # "draft" =>
            /\ At(new, v).body = At(docs, v).body
            /\ At(docs, v).status = "deactivated" => At(new, v).status = "deactivated"
<1> SUFFICES ASSUME NEW v \in Versions(docs), At(docs, v).status # "draft"
             PROVE  /\ At(new, v).body = At(docs, v).body
                    /\ At(docs, v).status = "deactivated" => At(new, v).status = "deactivated"
  OBVIOUS
<1>0. PICK h \in G : \E n \in DOMAIN docs[h] : v = <<h, n>>
  BY DEF Versions, Collection
<1>1. PICK n \in DOMAIN docs[h] : v = <<h, n>>
  BY <1>0
<1>2. At(docs, v) = docs[h][n] /\ At(new, v) = new[h][n]
  BY <1>1 DEF At
<1> QED
  BY <1>1, <1>2 DEF Edited, Sealed

\* Every edit of the library, and what it leaves as it was.
LEMMA Steps ==
  ASSUME TypeInv, [Next]_vars
  PROVE  /\ TypeInv'
         /\ \/ personas' = personas
            \/ \E g \in PersonaGroups : Edited(PersonaGroups, personas, personas', g)
         /\ \/ scenarios' = scenarios
            \/ \E g \in ScenarioGroups : Edited(ScenarioGroups, scenarios, scenarios', g)
<1>0. CurrentBodies(scenarios) \subseteq ScenarioBodies /\ CurrentBodies(personas) \subseteq PersonaBodies
  BY CurrentIsLive DEF TypeInv
<1>1. ASSUME NEW g \in PersonaGroups, EditPersona(g) PROVE TypeInv' /\ scenarios' = scenarios
  BY <1>1, PersonaEdit DEF EditPersona, TypeInv, QuestionsTyped
<1>2. ASSUME NEW g \in ScenarioGroups, EditScenario(g) PROVE TypeInv' /\ personas' = personas
  BY <1>2, ScenarioEdit DEF EditScenario, TypeInv, QuestionsTyped
<1>3. ASSUME NEW k \in Questions, EditQuestion(k)
      PROVE  TypeInv' /\ personas' = personas /\ scenarios' = scenarios
  <2>1. UNCHANGED <<personas, scenarios, matrices, intake>>
    BY <1>3 DEF EditQuestion
  <2>2. CASE \E b \in QuestionBodies[k] :
               questions' = [questions EXCEPT ![k] = [status |-> "active", body |-> b]]
    <3>1. \A b \in QuestionBodies[k] : [status |-> "active", body |-> b] \in QuestionDoc
      BY LibraryOK DEF QuestionDoc
    <3>2. QuestionsTyped'
      BY <2>2, <3>1 DEF TypeInv, QuestionsTyped
    <3> QED
      BY <2>1, <3>2 DEF TypeInv
  <2>2a. CASE /\ k \in Active
              /\ \E b \in QuestionBodies[k], fact \in FactKeys :
                   questions' = [questions EXCEPT ![k].body =
                                  Merged(@, [fact |-> fact, follow |-> b.follow])]
    <3>1. questions[k] \in QuestionDoc
      BY <2>2a DEF Active, ActiveIn, TypeInv, QuestionsTyped
    <3>2. PICK b \in QuestionBodies[k], fact \in FactKeys :
            questions' = [questions EXCEPT ![k].body = Merged(@, [fact |-> fact, follow |-> b.follow])]
      BY <2>2a
    <3> DEFINE body == Merged(questions[k].body, [fact |-> fact, follow |-> b.follow])
    <3>3. body \in QuestionBody
      <4>1. questions[k].body \in QuestionBody /\ b \in QuestionBody
        BY <3>1, LibraryOK DEF QuestionDoc
      <4>2. [fact |-> fact, follow |-> b.follow] \in QuestionBody
        BY <4>1 DEF QuestionBody
      <4> QED
        BY <4>1, <4>2, MergedTyped
    <3>4. questions' = [questions EXCEPT ![k] = [questions[k] EXCEPT !.body = body]]
      BY <3>2
    <3> HIDE DEF body
    <3>5. [questions[k] EXCEPT !.body = body] \in QuestionDoc
      BY <3>1, <3>3 DEF QuestionDoc
    <3>6. QuestionsTyped'
      BY <3>4, <3>5 DEF TypeInv, QuestionsTyped
    <3> QED
      BY <2>1, <3>6 DEF TypeInv
  <2>3. CASE k \in Active /\ questions' = [questions EXCEPT ![k].status = "retired"]
    <3>1. questions[k] \in QuestionDoc
      BY <2>3 DEF Active, ActiveIn, TypeInv, QuestionsTyped
    <3>2. [questions[k] EXCEPT !.status = "retired"] \in QuestionDoc
      BY <3>1 DEF QuestionDoc
    <3>3. questions' = [questions EXCEPT ![k] = [questions[k] EXCEPT !.status = "retired"]]
      BY <2>3
    <3>4. QuestionsTyped'
      BY <3>2, <3>3 DEF TypeInv, QuestionsTyped
    <3> QED
      BY <2>1, <3>4 DEF TypeInv
  <2> QED
    BY <1>3, <2>1, <2>2, <2>2a, <2>3 DEF EditQuestion
<1>4. ASSUME EditMatrix PROVE TypeInv' /\ personas' = personas /\ scenarios' = scenarios
  BY <1>4 DEF EditMatrix, TypeInv, QuestionsTyped
<1>5. ASSUME NEW f \in Files, ApplyFile(f) PROVE TypeInv'
  <2>1. matrices' = matrices /\ intake' = intake
    BY <1>5, FileApplied DEF InstallFile
  <2> QED
    BY <1>5, <2>1, FileEdit DEF TypeInv
<1>6. ASSUME Prepare PROVE TypeInv' /\ personas' = personas /\ scenarios' = scenarios
  BY <1>0, <1>6 DEF Prepare, TypeInv, QuestionsTyped
<1>7. ASSUME Pin PROVE TypeInv' /\ personas' = personas /\ scenarios' = scenarios
  BY <1>7 DEF Pin, TypeInv, QuestionsTyped
<1>8. ASSUME Leave PROVE TypeInv' /\ personas' = personas /\ scenarios' = scenarios
  BY <1>8 DEF Leave, NoIntake, TypeInv, QuestionsTyped
<1>9. CASE UNCHANGED vars
  BY <1>9 DEF vars, TypeInv, QuestionsTyped
<1> QED
  BY <1>1, <1>2, <1>3, <1>4, <1>5, <1>6, <1>7, <1>8, <1>9, PersonaEdit, ScenarioEdit, FileEdit DEF Next, vars

\* A scenario goes live, or stays live in a group, with a flow.
LEMMA FlowsStay ==
  ASSUME TypeInv, LiveHasFlow, [Next]_vars
  PROVE  LiveHasFlow'
<1>1. ASSUME NEW g \in ScenarioGroups, EditScenario(g) PROVE LiveHasFlow'
  <2>1. /\ \A h \in ScenarioGroups \ {g} : scenarios'[h] = scenarios[h]
        /\ \/ MakesNoneLive(scenarios[g], scenarios'[g])
           \/ \E n \in DOMAIN scenarios[g] :
                /\ MakesLive(scenarios[g], scenarios'[g], n)
                /\ scenarios'[g][n].body = scenarios[g][n].body
                /\ scenarios[g][n].body.flow # <<>>
    BY <1>1, ScenarioEdit DEF Edited, validateForActivation, PassesGate
  <2>2. \A n \in Live(scenarios'[g]) : scenarios'[g][n].body.flow # <<>>
    BY <2>1 DEF MakesNoneLive, MakesLive, LiveHasFlow
  <2> QED
    BY <2>1, <2>2 DEF LiveHasFlow
<1>2. ASSUME NEW f \in Files, ApplyFile(f) PROVE LiveHasFlow'
  <2>1. PICK g \in ScenarioGroups :
          /\ \A h \in ScenarioGroups \ {g} : scenarios'[h] = scenarios[h]
          /\ \E n : /\ MakesLive(scenarios[g], scenarios'[g], n)
                    /\ scenarios'[g][n].body = f.scenario
    BY <1>2, FileEdit DEF Edited
  <2>2. f.scenario.flow # <<>>
    <3>1. validateForActivation(f.scenario)'
      BY <1>2, FileEdit
    <3> QED
      BY <3>1 DEF validateForActivation, PassesGate
  <2>3. \A n \in Live(scenarios'[g]) : scenarios'[g][n].body.flow # <<>>
    BY <2>1, <2>2 DEF MakesLive, LiveHasFlow
  <2> QED
    BY <2>1, <2>3 DEF LiveHasFlow
<1>3. CASE UNCHANGED scenarios
  BY <1>3 DEF LiveHasFlow
<1> QED
  BY <1>1, <1>2, <1>3
     DEF Next, vars, EditPersona, EditQuestion, EditMatrix, Prepare, Pin, Leave

\* The intake chooses a live scenario, keeps it while the library changes, and pins consistently.
LEMMA IntakeStays ==
  ASSUME LibraryInv, [Next]_vars
  PROVE  /\ (intake.pc = "prepared" => intake.scenario.flow # <<>>)'
         /\ PinnedIsConsistent'
<1> USE DEF LibraryInv
<1>1. CASE Prepare
  <2>1. \A s \in CurrentBodies(scenarios) : s.flow # <<>>
    BY CurrentIsLive DEF TypeInv, LiveHasFlow
  <2> QED
    BY <1>1, <2>1 DEF Prepare, PinnedIsConsistent
<1>2. CASE Pin
  <2>1. intake' = [intake EXCEPT !.pc = "pinned",
                     !.content = PinnedContent(intake.persona, intake.scenario)]
    BY <1>2 DEF Pin
  <2>2. intake'.pc = "pinned" /\ intake'.content = PinnedContent(intake.persona, intake.scenario)
    BY <2>1 DEF TypeInv
  <2>3. B!Consistent(PinnedContent(intake.persona, intake.scenario))
    <3>1. /\ QuestionsTyped /\ Pinnable(intake.persona, intake.scenario)
          /\ intake.scenario \in ScenarioBodies /\ intake.scenario.flow # <<>>
      BY <1>2 DEF Pin, TypeInv
    <3>2. intake.scenario.flow \in Seq(Questions)
      BY <3>1, LibraryOK
    <3> QED
      BY <3>1, <3>2, PinnedConsistent
  <2> QED
    BY <2>2, <2>3 DEF PinnedIsConsistent
<1>3. CASE Leave
  BY <1>3 DEF Leave, NoIntake, PinnedIsConsistent
<1>4. CASE UNCHANGED intake
  BY <1>4 DEF PinnedIsConsistent
<1> QED
  BY <1>1, <1>2, <1>3, <1>4, FileApplied
     DEF Next, vars, InstallFile, EditPersona, EditScenario, EditQuestion, EditMatrix

LEMMA InitInv ==
  Init => LibraryInv
<1> SUFFICES ASSUME Init PROVE LibraryInv
  OBVIOUS
<1>1. \A g \in PersonaGroups : personas[g] = <<>>
  BY DEF Init
<1>2. \A g \in ScenarioGroups : scenarios[g] = <<>>
  BY DEF Init
<1>3. TypeInv
  BY DEF Init, TypeInv, Collection, QuestionsTyped, NoIntake
<1>4. GroupsOk(personas) /\ GroupsOk(scenarios) /\ LiveHasFlow
  <2>1. GroupWellFormed(<<>>) /\ Live(<<>>) = {}
    BY DEF GroupWellFormed, Live
  <2> QED
    BY <1>1, <1>2, <2>1 DEF Init, GroupsOk, LiveHasFlow
<1>5. intake.pc = "idle"
  BY DEF Init, NoIntake
<1> QED
  BY <1>3, <1>4, <1>5 DEF LibraryInv, PinnedIsConsistent

LEMMA NextInv ==
  LibraryInv /\ [Next]_vars => LibraryInv'
<1> SUFFICES ASSUME LibraryInv, [Next]_vars PROVE LibraryInv'
  OBVIOUS
<1>1. TypeInv' /\ LiveHasFlow'
  BY Steps, FlowsStay DEF LibraryInv
<1>2. GroupsOk(personas)'
  BY <1>1, Steps, GroupsStay DEF LibraryInv, TypeInv
<1>3. GroupsOk(scenarios)'
  BY <1>1, Steps, GroupsStay DEF LibraryInv, TypeInv
<1>4. /\ (intake.pc = "prepared" => intake.scenario.flow # <<>>)'
      /\ PinnedIsConsistent'
  BY IntakeStays
<1> QED
  BY <1>1, <1>2, <1>3, <1>4 DEF LibraryInv

THEOREM AlwaysInv ==
  Spec => []LibraryInv
<1>1. Init => LibraryInv
  BY InitInv
<1>2. LibraryInv /\ [Next]_vars => LibraryInv'
  BY NextInv
<1> QED
  BY <1>1, <1>2, PTL DEF Spec

\* Personas, scenarios, questions and the intake keep their types.
THEOREM TypeCorrect ==
  Spec => []TypeInv
<1>1. LibraryInv => TypeInv
  BY DEF LibraryInv
<1> QED
  BY <1>1, AlwaysInv, PTL

-------------------------------------------------------------------------------
(* What is pinned, reported and live *)

\* Whatever is edited and retired between the selection of a scenario and its pinning, pinVersions
\* stores a content that is closed under the flow and the follow-ups.
THEOREM PinnedContentIsConsistent ==
  Spec => []PinnedIsConsistent
<1>1. LibraryInv => PinnedIsConsistent
  BY DEF LibraryInv
<1> QED
  BY <1>1, AlwaysInv, PTL

\* createDraft, updateAsNewVersion, activate and deactivate, in whatever order, leave a group with
\* at most one current version, its one active version, and one open draft, its newest.
THEOREM GroupsStayWellFormed ==
  Spec => []GroupsWellFormed
<1>1. LibraryInv => GroupsWellFormed
  BY DEF LibraryInv, GroupsOk, GroupWellFormed, GroupsWellFormed
<1> QED
  BY <1>1, AlwaysInv, PTL

\* A version that was active once keeps its body, so an id and a version number name one content.
THEOREM ActiveVersionsAreSealed ==
  Spec => ActiveNeverEdited
<1> DEFINE Kept(old, new) == \A v \in Versions(old) : At(old, v).status # "draft" =>
             /\ At(new, v).body = At(old, v).body
             /\ At(old, v).status = "deactivated" => At(new, v).status = "deactivated"
<1>1. ASSUME LibraryInv, [Next]_vars
      PROVE  \A c \in {"persona", "scenario"} :
               LET old == IF c = "persona" THEN personas ELSE scenarios
                   new == IF c = "persona" THEN personas' ELSE scenarios'
               IN Kept(old, new)
  <2>1. TypeInv
    BY <1>1 DEF LibraryInv
  <2>2. Kept(personas, personas')
    <3>1. CASE personas' = personas
      BY <3>1
    <3>2. CASE \E g \in PersonaGroups : Edited(PersonaGroups, personas, personas', g)
      BY <2>1, <3>2, SealedEverywhere DEF TypeInv
    <3> QED
      BY <1>1, <2>1, <3>1, <3>2, Steps
  <2>3. Kept(scenarios, scenarios')
    <3>1. CASE scenarios' = scenarios
      BY <3>1
    <3>2. CASE \E g \in ScenarioGroups : Edited(ScenarioGroups, scenarios, scenarios', g)
      BY <2>1, <3>2, SealedEverywhere DEF TypeInv
    <3> QED
      BY <1>1, <2>1, <3>1, <3>2, Steps
  <2> HIDE DEF Kept
  <2> QED
    BY <2>2, <2>3
<1> QED
  BY <1>1, AlwaysInv, PTL DEF ActiveNeverEdited, Spec

\* A scenario whose links the report finds in order can be pinned, and each of its required facts
\* is produced by a question of the walk.
LEMMA LinksArePinnable ==
  ASSUME QuestionsTyped, NEW s, s.flow \in Seq(Questions), LinksOk(s)
  PROVE  /\ Range(s.flow) \cup UNION {Follow(k) : k \in questionMap(s.flow)} \subseteq questionMap(s.flow)
         /\ s.required \subseteq FactsOf(questionMap(s.flow))
<1>1. Named(s.flow) \subseteq Active
  BY DEF LinksOk
<1>2. Named(s.flow) \cap Active = questionMap(s.flow)
  BY <1>1, WalksAgree
<1> QED
  BY <1>1, <1>2, WalksAgree DEF LinksOk

\* The walk of the report, over every key named, agrees with the walk of the intake, over active
\* questions: what the report finds nothing wrong with can be pinned.
THEOREM ReportIsTrustworthy ==
  Spec => []ReportMeansPinnable
<1>1. LibraryInv => ReportMeansPinnable
  <2> SUFFICES ASSUME LibraryInv, NEW p \in CurrentBodies(personas), NEW s \in CurrentBodies(scenarios),
                      s.persona = p.key, ReportOk(p)
               PROVE  Pinnable(p, s) /\ s.required \subseteq FactsOf(questionMap(s.flow))
    BY DEF ReportMeansPinnable
  <2>1. QuestionsTyped /\ s \in ScenarioBodies
    BY CurrentIsLive DEF LibraryInv, TypeInv
  <2>2. LinksOk(s)
    BY DEF ReportOk, SnapshotOf, CurrentBodies
  <2>3. s.flow \in Seq(Questions)
    BY <2>1, LibraryOK
  <2>4. {p.sector, Default} \cap matrices # {}
    BY DEF ReportOk
  <2> QED
    BY <2>1, <2>2, <2>3, <2>4, LinksArePinnable DEF Pinnable
<1> QED
  BY <1>1, AlwaysInv, PTL

\* The gate in the words of the report.
LEMMA GateReads ==
  ASSUME NEW s
  PROVE  validateForActivation(s) <=>
           /\ \E p \in CurrentBodies(personas) : p.key = s.persona
           /\ s.flow # <<>>
           /\ Named(s.flow) \subseteq Active
           /\ s.required \subseteq FactsOf(Named(s.flow))
BY DEF validateForActivation, PassesGate, Named, Active, FactsOf

\* What the gate accepts can be pinned, given a matrix, and can ask for its required facts.
LEMMA GateServes ==
  QuestionsTyped =>
    \A s \in ScenarioBodies : validateForActivation(s) =>
      \E p \in CurrentBodies(personas) :
        /\ p.key = s.persona
        /\ matrices = Matrices => Pinnable(p, s)
        /\ s.required \subseteq FactsOf(questionMap(s.flow))
<1> SUFFICES ASSUME QuestionsTyped, NEW s \in ScenarioBodies, validateForActivation(s)
             PROVE  \E p \in CurrentBodies(personas) :
                      /\ p.key = s.persona
                      /\ matrices = Matrices => Pinnable(p, s)
                      /\ s.required \subseteq FactsOf(questionMap(s.flow))
  OBVIOUS
<1>1. s.flow \in Seq(Questions)
  BY LibraryOK
<1>2. LinksOk(s)
  <2>1. Named(s.flow) \subseteq Active /\ Named(s.flow) \cap Active = Named(s.flow)
    BY GateReads
  <2> QED
    BY <2>1, GateReads DEF LinksOk
<1>3. matrices = Matrices => \A p \in CurrentBodies(personas) : Pinnable(p, s)
  BY <1>1, <1>2, LinksArePinnable DEF Pinnable, Matrices
<1> QED
  BY <1>1, <1>2, <1>3, LinksArePinnable, GateReads

\* The gate reads personas and questions only.
LEMMA GateUnchanged ==
  ASSUME UNCHANGED <<personas, questions>>, NEW s, validateForActivation(s)
  PROVE  validateForActivation(s)'
BY DEF validateForActivation, PassesGate, NamedIn, NamedFrom, ActiveIn

\* A scenario goes live by activation or by an upload, both through the gate: at that moment an
\* intake could pin it.
THEOREM LiveScenariosCanBePinned ==
  Spec => LiveMeansPinnable
<1>1. ASSUME LibraryInv, [Next]_vars
      PROVE  \A v \in UNION {{g} \X (1..MaxVersions[g]) : g \in ScenarioGroups} :
               (v \notin Current(scenarios) /\ v \in Current(scenarios)') => Serves(v)'
  <2> SUFFICES ASSUME NEW v, v \notin Current(scenarios), v \in Current(scenarios)'
               PROVE  Serves(v)'
    OBVIOUS
  <2>1. TypeInv /\ TypeInv'
    BY <1>1, Steps DEF LibraryInv
  <2>2. (QuestionsTyped =>
          \A s \in ScenarioBodies : validateForActivation(s) =>
            \E p \in CurrentBodies(personas) :
              /\ p.key = s.persona
              /\ matrices = Matrices => Pinnable(p, s)
              /\ s.required \subseteq FactsOf(questionMap(s.flow)))'
    BY GateServes, PTL
  <2>3. scenarios' # scenarios
    OBVIOUS
  <2>4. PICK g \in ScenarioGroups : \E n :
          v = <<g, n>> /\ n \in Live(scenarios'[g]) /\ n \notin Live(scenarios[g])
    <3>1. \A w : w \in Current(scenarios) <=> \E g \in ScenarioGroups : \E n \in Live(scenarios[g]) : w = <<g, n>>
      BY <2>1, CurrentIsLive DEF TypeInv
    <3>2. \A w : w \in Current(scenarios)' <=> \E g \in ScenarioGroups : \E n \in Live(scenarios'[g]) : w = <<g, n>>
      BY <2>1, CurrentIsLive DEF TypeInv
    <3> QED
      BY <3>1, <3>2
  <2>5. PICK n : v = <<g, n>> /\ n \in Live(scenarios'[g]) /\ n \notin Live(scenarios[g])
    BY <2>4
  <2>6. PICK s \in ScenarioBodies : scenarios'[g][n].body = s /\ At(scenarios, v)'.body = s
    <3>1. scenarios'[g][n] \in Version(ScenarioBodies)
      BY <2>1, <2>5 DEF TypeInv, Collection, Live
    <3>2. At(scenarios, v)' = scenarios'[g][n]
      BY <2>5 DEF At
    <3> QED
      BY <3>1, <3>2 DEF Version
  <2>7. validateForActivation(s)'
    <3>1. ASSUME NEW h \in ScenarioGroups, EditScenario(h) PROVE validateForActivation(s)'
      <4>1. /\ \A i \in ScenarioGroups \ {h} : scenarios'[i] = scenarios[i]
            /\ \/ MakesNoneLive(scenarios[h], scenarios'[h])
               \/ \E m \in DOMAIN scenarios[h] :
                    /\ MakesLive(scenarios[h], scenarios'[h], m)
                    /\ scenarios'[h][m].body = scenarios[h][m].body
                    /\ validateForActivation(scenarios[h][m].body)
        BY <2>1, <3>1, ScenarioEdit DEF Edited
      <4>2. h = g
        BY <4>1, <2>5
      <4>3. validateForActivation(s)
        BY <4>1, <4>2, <2>5, <2>6 DEF MakesNoneLive, MakesLive
      <4>4. UNCHANGED <<personas, questions>>
        BY <3>1 DEF EditScenario
      <4> QED
        BY <4>3, <4>4, GateUnchanged
    <3>2. ASSUME NEW f \in Files, ApplyFile(f) PROVE validateForActivation(s)'
      <4>1. PICK h \in ScenarioGroups :
              /\ \A i \in ScenarioGroups \ {h} : scenarios'[i] = scenarios[i]
              /\ \E m : /\ MakesLive(scenarios[h], scenarios'[h], m)
                        /\ scenarios'[h][m].body = f.scenario
        BY <2>1, <3>2, FileEdit DEF Edited
      <4>2. h = g
        BY <4>1, <2>5
      <4>3. s = f.scenario
        BY <4>1, <4>2, <2>5, <2>6 DEF MakesLive
      <4>4. validateForActivation(f.scenario)'
        BY <2>1, <3>2, FileEdit
      <4> QED
        BY <4>3, <4>4
    <3> QED
      BY <1>1, <2>3, <3>1, <3>2
         DEF Next, vars, EditPersona, EditQuestion, EditMatrix, Prepare, Pin, Leave
  <2>8. \E p \in CurrentBodies(personas') :
          /\ p.key = s.persona
          /\ (matrices = Matrices => Pinnable(p, s))'
          /\ (s.required \subseteq FactsOf(questionMap(s.flow)))'
    BY <2>1, <2>2, <2>6, <2>7 DEF TypeInv
  <2> QED
    BY <2>6, <2>8 DEF Serves
<1> QED
  BY <1>1, AlwaysInv, PTL DEF LiveMeansPinnable, Spec

\* The persona a scenario names is live after a file is stored, if it is the file's own or was live
\* before: what the file's persona displaces has the file's key.
LEMMA PersonaStaysLive ==
  ASSUME TypeInv, GroupsOk(personas), NEW b \in PersonaBodies, NEW g \in Home(personas, b.key),
         OpenDrafts(personas, g) = {}, NEW q \in {b} \cup CurrentBodies(personas)
  PROVE  \E p \in CurrentBodies(Installed(personas, g, b)) : p.key = q.key
<1> DEFINE new == Installed(personas, g, b)
<1>1. personas \in Collection(PersonaGroups, PersonaBodies)
  BY DEF TypeInv
<1>2. g \in PersonaGroups /\ \A n \in DOMAIN personas[g] : personas[g][n].isCurrent =>
                               \E m \in DOMAIN personas[g] : personas[g][m].isCurrent
                                                             /\ personas[g][m].body.key = b.key
  <2>1. \A v \in Versions(personas) : \E h \in PersonaGroups : \E m \in DOMAIN personas[h] : v = <<h, m>>
    BY <1>1 DEF Versions, Collection
  <2>2. \A h \in PersonaGroups : \A m : At(personas, <<h, m>>) = personas[h][m]
    BY DEF At
  <2>3. CASE \E v \in Versions(personas) : At(personas, v).isCurrent /\ At(personas, v).body.key = b.key
    <3>1. PICK v \in Versions(personas) :
            v[1] = g /\ At(personas, v).isCurrent /\ At(personas, v).body.key = b.key
      BY <2>3 DEF Home
    <3>2. PICK h \in PersonaGroups : \E m \in DOMAIN personas[h] : v = <<h, m>>
      BY <2>1
    <3> QED
      BY <2>2, <3>1, <3>2
  <2>4. CASE ~\E v \in Versions(personas) : At(personas, v).isCurrent /\ At(personas, v).body.key = b.key
    <3>1. g \in DOMAIN personas /\ personas[g] = <<>>
      BY <2>4 DEF Home
    <3> QED
      BY <1>1, <3>1 DEF Collection
  <2> QED
    BY <2>3, <2>4
<1>3. /\ new \in Collection(PersonaGroups, PersonaBodies)
      /\ Edited(PersonaGroups, personas, new, g)
      /\ \E n \in Live(new[g]) : new[g][n].body = b
  BY <1>1, <1>2, InstalledStep
<1> HIDE DEF new
<1>4. CASE q = b
  BY <1>2, <1>3, <1>4, CurrentIsLive DEF new
<1>5. CASE q \in CurrentBodies(personas)
  <2>1. PICK h \in PersonaGroups : \E n \in Live(personas[h]) : personas[h][n].body = q
    BY <1>1, <1>5, CurrentIsLive
  <2>2. PICK n \in Live(personas[h]) : personas[h][n].body = q
    BY <2>1
  <2>3. CASE h # g
    <3>1. n \in Live(new[h]) /\ new[h][n].body = q
      BY <1>3, <2>2, <2>3 DEF Edited
    <3> QED
      BY <1>3, <3>1, CurrentIsLive DEF new
  <2>4. CASE h = g
    <3>1. n \in DOMAIN personas[g] /\ personas[g][n].isCurrent
      BY <2>2, <2>4 DEF Live
    <3>2. PICK m \in DOMAIN personas[g] : personas[g][m].isCurrent /\ personas[g][m].body.key = b.key
      BY <1>2, <3>1
    <3>3. m = n
      <4>1. GroupWellFormed(personas[g]) /\ personas[g] \in Seq(Version(PersonaBodies))
        BY <1>1, <1>2 DEF GroupsOk, Collection
      <4>2. personas[g][m].status = "active" /\ personas[g][n].status = "active"
        BY <3>1, <3>2, <4>1 DEF GroupWellFormed
      <4>3. ~(m < n) /\ ~(n < m)
        BY <3>1, <3>2, <4>1, <4>2 DEF GroupWellFormed
      <4> QED
        BY <3>1, <3>2, <4>1, <4>3
    <3>4. q.key = b.key
      BY <2>2, <2>4, <3>2, <3>3
    <3> QED
      BY <1>2, <1>3, <3>4, CurrentIsLive DEF new
  <2> QED
    BY <2>3, <2>4
<1> QED
  BY <1>4, <1>5

\* crossValidate mirrors the gate: the gate walks over the library that holds the file, and finds
\* what the check found over the file before the library, and what kept branches lead to.
LEMMA CheckedMeansGate ==
  ASSUME LibraryInv, NEW f \in Files, crossValidate(f), NEW g \in PersonaHomes(f),
         NamedFrom(KeptFollowUps(f), Upserted(f)) \subseteq ActiveIn(Upserted(f))
  PROVE  PassesGate(f.scenario, Installed(personas, g, f.persona), Upserted(f))
<1> DEFINE s     == f.scenario
           qs    == Upserted(f)
           kept  == NamedFrom(KeptFollowUps(f), qs)
           leads == [k \in Questions |-> IF k \in ActiveIn(qs) THEN Range(qs[k].body.follow) ELSE {}]
           seen  == [k \in Questions |-> IF k \in Known(f) THEN Range(Info(f, k).follow) ELSE {}]
<1>1. /\ QuestionsTyped /\ TypeInv /\ GroupsOk(personas)
      /\ f.persona \in PersonaBodies /\ DOMAIN f.questions \subseteq Questions
      /\ \A k \in DOMAIN f.questions : f.questions[k] \in QuestionBody
      /\ s.flow \in Seq(Questions)
  BY LibraryOK DEF LibraryInv, TypeInv
<1>2. /\ qs \in [Questions -> QuestionDoc \cup {Nothing}]
      /\ \A k \in DOMAIN f.questions :
           /\ qs[k] \in QuestionDoc /\ qs[k].status = "active"
           /\ qs[k].body.fact = f.questions[k].fact
           /\ qs[k].body.follow = IF questions[k] # Nothing /\ f.questions[k].follow = <<>>
                                  THEN questions[k].body.follow ELSE f.questions[k].follow
      /\ \A k \in Questions \ DOMAIN f.questions : qs[k] = questions[k]
  BY <1>1, UpsertedTyped
<1>3. NamedIn(s.flow, qs) = Walk(Range(s.flow), leads) /\ kept = Walk(KeptFollowUps(f), leads)
      /\ Walked(f) = Walk(Range(s.flow), seen)
  BY DEF NamedIn, NamedFrom, Walked
<1>4. kept \subseteq ActiveIn(qs)
  OBVIOUS
<1> HIDE DEF qs
<1>5. ActiveIn(qs) = Known(f) /\ Known(f) \subseteq Questions
  <2>1. \A k \in DOMAIN f.questions : qs[k] # Nothing
    BY <1>2, LibraryOK
  <2> QED
    BY <2>1, <1>1, <1>2 DEF Active, ActiveIn, Known
<1>6. \A k \in Known(f) : qs[k].body \in QuestionBody /\ qs[k].body.fact = Info(f, k).fact
  <2>1. \A k \in Known(f) : qs[k] \in QuestionDoc
    BY <1>2, <1>5 DEF ActiveIn
  <2> QED
    BY <1>1, <1>2, <1>5, <2>1 DEF Info, QuestionDoc
<1>7. ASSUME NEW k \in Known(f)
      PROVE  \/ qs[k].body.follow = Info(f, k).follow
             \/ /\ k \in DOMAIN f.questions /\ f.questions[k].follow = <<>> /\ questions[k] # Nothing
                /\ Info(f, k).follow = <<>> /\ Range(qs[k].body.follow) = Follow(k)
  <2>1. CASE k \in DOMAIN f.questions
    BY <1>2, <2>1 DEF Info, Follow
  <2>2. CASE k \notin DOMAIN f.questions
    BY <1>2, <1>5, <2>2 DEF Info
  <2> QED
    BY <2>1, <2>2
<1>8. leads \in [Questions -> SUBSET Questions] /\ seen \in [Questions -> SUBSET Questions]
  <2>1. \A q \in Seq(Questions) : Range(q) \subseteq Questions
    BY DEF Range
  <2>2. ASSUME NEW k \in Known(f)
        PROVE  Range(qs[k].body.follow) \subseteq Questions /\ Range(Info(f, k).follow) \subseteq Questions
    <3>1. qs[k].body.follow \in Seq(Questions)
      BY <1>6 DEF QuestionBody
    <3>2. Range(<<>>) = {}
      BY DEF Range
    <3> QED
      BY <1>7, <2>1, <3>1, <3>2
  <2> QED
    BY <1>5, <2>2
<1>9. Range(s.flow) \in SUBSET Questions /\ KeptFollowUps(f) \in SUBSET Questions
  <2>1. Range(s.flow) \subseteq Questions
    BY <1>1 DEF Range
  <2>2. ASSUME NEW k \in DOMAIN f.questions, questions[k] # Nothing, f.questions[k].follow = <<>>
        PROVE  Follow(k) \subseteq Questions
    <3>1. k \in Known(f) /\ Follow(k) = Range(qs[k].body.follow)
      BY <1>2, <2>2 DEF Known, Follow
    <3> QED
      BY <1>5, <1>8, <3>1
  <2> QED
    BY <2>1, <2>2 DEF KeptFollowUps
<1>10. ASSUME NEW start \in SUBSET Questions, NEW h \in [Questions -> SUBSET Questions], NEW w,
              w = Walk(start, h)
       PROVE  start \subseteq w /\ w \subseteq Questions /\ \A k \in w : h[k] \subseteq w
  BY <1>10, WalkCloses
<1> DEFINE walked == Walked(f)
           named  == NamedIn(s.flow, qs)
<1> HIDE DEF leads, seen, kept, walked, named
<1>11. /\ named = Walk(Range(s.flow), leads) /\ kept = Walk(KeptFollowUps(f), leads)
       /\ walked = Walk(Range(s.flow), seen)
  BY <1>3 DEF walked, named
<1>12. /\ Range(s.flow) \subseteq walked /\ walked \subseteq Questions
       /\ \A k \in walked : seen[k] \subseteq walked
  BY <1>8, <1>9, <1>10, <1>11
<1>13. /\ KeptFollowUps(f) \subseteq kept /\ kept \subseteq Questions
       /\ \A k \in kept : leads[k] \subseteq kept
  BY <1>8, <1>9, <1>10, <1>11
<1>14. /\ Range(s.flow) \subseteq named /\ named \subseteq Questions
       /\ \A k \in named : leads[k] \subseteq named
  BY <1>8, <1>9, <1>10, <1>11
<1> USE DEF leads, seen, kept, walked, named
<1>15. /\ walked \subseteq Known(f) /\ s.flow # <<>>
       /\ s.required \subseteq {Info(f, k).fact : k \in walked}
       /\ s.persona \in {f.persona.key} \cup {p.key : p \in CurrentBodies(personas)}
  BY DEF crossValidate
<1> HIDE DEF kept, walked, named
<1>16. named \subseteq walked \cup kept
  <2>1. ASSUME NEW k \in walked \cup kept, k \in Questions PROVE leads[k] \subseteq walked \cup kept
    <3>1. CASE k \in kept
      BY <1>13, <3>1
    <3>2. CASE k \in walked
      <4>1. k \in Known(f) /\ leads[k] = Range(qs[k].body.follow) /\ seen[k] = Range(Info(f, k).follow)
        BY <1>5, <1>15, <2>1, <3>2
      <4>2. CASE qs[k].body.follow = Info(f, k).follow
        BY <1>12, <3>2, <4>1, <4>2
      <4>3. CASE /\ k \in DOMAIN f.questions /\ f.questions[k].follow = <<>> /\ questions[k] # Nothing
                 /\ Range(qs[k].body.follow) = Follow(k)
        <5>1. Follow(k) \subseteq KeptFollowUps(f)
          BY <3>2, <4>3 DEF KeptFollowUps, walked
        <5> QED
          BY <1>13, <4>1, <4>3, <5>1
      <4> QED
        BY <1>7, <4>1, <4>2, <4>3
    <3> QED
      BY <2>1, <3>1, <3>2
  <2> HIDE DEF leads
  <2>2. Walk(Range(s.flow), leads) \subseteq walked \cup kept
    BY <1>8, <1>9, <1>12, <2>1, WalkIsLeast
  <2> QED
    BY <1>3, <2>2 DEF named
<1>17. walked \subseteq named
  <2>1. ASSUME NEW k \in named, k \in Questions PROVE seen[k] \subseteq named
    <3>1. CASE k \notin Known(f)
      BY <2>1, <3>1
    <3>2. CASE k \in Known(f)
      <4>1. leads[k] = Range(qs[k].body.follow) /\ seen[k] = Range(Info(f, k).follow)
        BY <1>5, <2>1, <3>2
      <4>2. Info(f, k).follow = <<>> => seen[k] = {}
        BY <4>1 DEF Range
      <4> QED
        BY <1>7, <1>14, <3>2, <4>1, <4>2
    <3> QED
      BY <3>1, <3>2
  <2> HIDE DEF seen
  <2>2. Walk(Range(s.flow), seen) \subseteq named
    BY <1>8, <1>9, <1>14, <2>1, WalkIsLeast
  <2> QED
    BY <1>3, <2>2 DEF walked
<1>18. named \subseteq ActiveIn(qs)
  BY <1>4, <1>5, <1>15, <1>16
<1>19. s.required \subseteq {qs[k].body.fact : k \in named}
  <2>1. ASSUME NEW x \in s.required PROVE \E k \in named : x = qs[k].body.fact
    <3>1. PICK k \in walked : x = Info(f, k).fact
      BY <1>15, <2>1
    <3> QED
      BY <1>6, <1>15, <1>17, <3>1
  <2> QED
    BY <2>1
<1>20. \E p \in CurrentBodies(Installed(personas, g, f.persona)) : p.key = s.persona
  <2>1. g \in Home(personas, f.persona.key) /\ OpenDrafts(personas, g) = {}
    BY DEF PersonaHomes, Free
  <2>2. PICK q \in {f.persona} \cup CurrentBodies(personas) : s.persona = q.key
    BY <1>15
  <2> QED
    BY <1>1, <2>1, <2>2, PersonaStaysLive
<1>21. PassesGate(s, Installed(personas, g, f.persona), qs)
  BY <1>15, <1>18, <1>19, <1>20 DEF PassesGate, named
<1> QED
  BY <1>21 DEF qs

\* The upload check of crossValidate, against the library as it is when a file is activated, is the
\* gate of the services it is activated through, as long as the branches that its questions keep from
\* the library lead to active questions: a checked file that can be stored passes it.
THEOREM CheckedFilesPassTheGate ==
  Spec => []ValidFileActivates
<1>1. LibraryInv => ValidFileActivates
  BY CheckedMeansGate DEF ValidFileActivates
<1> QED
  BY <1>1, AlwaysInv, PTL

\* Storing a checked file is therefore a whole activation: no check of the services undoes it.
THEOREM CheckedFilesAreApplied ==
  ASSUME LibraryInv, NEW f \in Files, crossValidate(f), InstallFile(f),
         NamedFrom(KeptFollowUps(f), Upserted(f)) \subseteq ActiveIn(Upserted(f))
  PROVE  ApplyFile(f)
<1>1. PICK g \in PersonaHomes(f) : personas' = Installed(personas, g, f.persona)
  BY DEF InstallFile
<1>2. questions' = Upserted(f)
  BY DEF InstallFile
<1>3. PassesGate(f.scenario, personas', questions')
  BY <1>1, <1>2, CheckedMeansGate
<1>4. validateForActivation(f.scenario)'
  BY <1>3 DEF validateForActivation, PassesGate, NamedIn, NamedFrom, ActiveIn
<1> QED
  BY <1>4 DEF ApplyFile, validateForActivation, PassesGate, NamedIn, NamedFrom, ActiveIn
===============================================================================
