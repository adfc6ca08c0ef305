--------------------------- MODULE AuditChainProofs ---------------------------
(***************************************************************************)
(* What holds of AuditChain for every set of processes, requests and every  *)
(* limit on the tries.                                                      *)
(***************************************************************************)
EXTENDS AuditChain, TLAPS

-------------------------------------------------------------------------------
(* Chains *)

\* The hash the next entry of s has to carry.
LastHash(s) == IF s = <<>> THEN Genesis.hash ELSE s[Len(s)].hash

\* What audit.verify asks of a sequence of entries.
Chain(s) ==
  \A i \in 1..Len(s) :
    /\ s[i].seq = i
    /\ s[i].prev = IF i = 1 THEN Genesis.hash ELSE s[i - 1].hash
    /\ s[i].hash = HashOf(s[i].seq, s[i].by, s[i].prev)

\* The entry findOne returns for a chain is its last one.
LEMMA NewestOfChain ==
  ASSUME NEW s \in Seq(Entries), Chain(s)
  PROVE  /\ Newest(s).seq = Len(s)
         /\ Newest(s).hash = LastHash(s)
<1>1. CASE s = <<>>
  BY <1>1 DEF Newest, Genesis, LastHash
<1>2. CASE s # <<>>
  <2>1. Len(s) \in DOMAIN s /\ \A j \in DOMAIN s : s[j].seq = j
    BY <1>2 DEF Chain
  <2>2. \A i \in DOMAIN s : (\A j \in DOMAIN s : s[j].seq <= s[i].seq) => i = Len(s)
    BY <2>1
  <2>3. \A j \in DOMAIN s : s[j].seq <= s[Len(s)].seq
    BY <2>1
  <2>4. (CHOOSE i \in DOMAIN s : \A j \in DOMAIN s : s[j].seq <= s[i].seq) = Len(s)
    BY <2>1, <2>2, <2>3
  <2> QED
    BY SMTT(30), <1>2, <2>1, <2>4 DEF Newest, LastHash
<1> QED
  BY <1>1, <1>2

\* A chain followed by the successor of its last entry is a chain.
LEMMA ChainExtends ==
  ASSUME NEW s \in Seq(Entries), Chain(s), NEW e \in Entries,
         e.seq = Len(s) + 1, e.prev = LastHash(s), e.hash = HashOf(e.seq, e.by, e.prev)
  PROVE  Chain(Append(s, e))
<1> DEFINE t == Append(s, e)
<1>1. Len(t) = Len(s) + 1 /\ \A i \in 1..Len(s) : t[i] = s[i]
  OBVIOUS
<1>2. t[Len(s) + 1] = e
  OBVIOUS
<1> SUFFICES ASSUME NEW i \in 1..Len(t)
             PROVE  /\ t[i].seq = i
                    /\ t[i].prev = IF i = 1 THEN Genesis.hash ELSE t[i - 1].hash
                    /\ t[i].hash = HashOf(t[i].seq, t[i].by, t[i].prev)
  BY DEF Chain
<1>3. CASE i <= Len(s)
  <2>1. i \in 1..Len(s) /\ (i # 1 => i - 1 \in 1..Len(s))
    BY <1>3
  <2>2. t[i] = s[i] /\ (i # 1 => t[i - 1] = s[i - 1])
    BY <1>1, <2>1
  <2> QED
    BY <2>1, <2>2 DEF Chain
<1>4. CASE i = Len(s) + 1
  <2>1. t[i] = e
    BY <1>2, <1>4
  <2>2. i # 1 => t[i - 1] = s[Len(s)]
    BY <1>1, <1>4
  <2>3. (i = 1) = (s = <<>>)
    BY <1>4
  <2> QED
    BY <2>1, <2>2, <2>3, <1>4 DEF LastHash
<1> QED
  BY <1>1, <1>3, <1>4

\* Two sequences with the same entries up to n have the same prefix of that length.
LEMMA SamePrefix ==
  ASSUME NEW s \in Seq(Entries), NEW t \in Seq(Entries), NEW n \in Nat, n <= Len(s)
  PROVE  /\ SubSeq(s \o t, 1, n) = SubSeq(s, 1, n)
         /\ n = Len(s) => SubSeq(s, 1, n) = s
         /\ SubSeq(s, 1, n) \in Seq(Entries) /\ Len(SubSeq(s, 1, n)) = n
OBVIOUS

\* Appending to the second part of a sequence appends to the whole.
LEMMA AppendLast ==
  ASSUME NEW s \in Seq(Entries), NEW t \in Seq(Entries), NEW e \in Entries
  PROVE  s \o Append(t, e) = Append(s \o t, e)
<1> DEFINE left == s \o Append(t, e)
           right == Append(s \o t, e)
<1>1. left \in Seq(Entries) /\ right \in Seq(Entries) /\ Len(left) = Len(right)
  OBVIOUS
<1>2. \A i \in 1..Len(left) : left[i] = right[i]
  OBVIOUS
<1> QED
  BY <1>1, <1>2

\* Where the entries of a concatenation come from.
LEMMA Concatenated ==
  ASSUME NEW s \in Seq(Entries), NEW t \in Seq(Entries)
  PROVE  /\ Len(s \o t) = Len(s) + Len(t)
         /\ \A i \in 1..Len(s) : (s \o t)[i] = s[i]
         /\ \A i \in 1..Len(t) : (s \o t)[Len(s) + i] = t[i]
OBVIOUS

-------------------------------------------------------------------------------
(* The invariant *)

\* The write a process runs is the first one chained on it.
Running ==
  \A r \in Requests :
    pc[r] = "read" => tail[Home[r]] # <<>> /\ Head(tail[Home[r]]) = r

\* Where a request may be while its transaction is open, and what is left when it is not.
Holding ==
  \A r \in Requests :
    /\ pc[r] \in {"start", "done", "failed"} => r \notin open
    /\ pc[r] = "read" /\ r \in Transactional => r \in open
    /\ pc[r] = "work" => r \in open
    /\ r \notin open => mine[r] = <<>>

\* What an open transaction sees is a chain, and its inserts extend the present log.
Views ==
  \A r \in open :
    /\ snap[r] <= Len(log)
    /\ Chain(View(r))
    /\ mine[r] # <<>> => snap[r] = Len(log)
    /\ \A j \in DOMAIN mine[r] : mine[r][j].by = <<r, j>>

\* At most one open transaction has inserted anything: the others found the number held.
OneHolder ==
  \A r, t \in open : mine[r] # <<>> /\ mine[t] # <<>> => r = t

\* The entry about to be inserted follows what its request sees; outside a transaction
\* that may be stale, and then its number is taken.
Candidates ==
  \A r \in Requests : pc[r] = "read" =>
    IF r \in Transactional
      THEN cand[r].seq = Len(View(r)) + 1 /\ cand[r].prev = LastHash(View(r))
      ELSE /\ cand[r].seq \in 1..(Len(log) + 1)
           /\ cand[r].seq = Len(log) + 1 => cand[r].prev = LastHash(log)

Inv == TypeOK /\ Running /\ Holding /\ Chain(log) /\ Views /\ OneHolder /\ Candidates

\* A built entry has the type of an entry and the hash of its own content.
LEMMA EntryType ==
  ASSUME TypeOK, NEW r \in Requests, NEW j \in Nat
  PROVE  /\ EntryOf(r, j) \in Entries
         /\ EntryOf(r, j).seq = cand[r].seq
         /\ EntryOf(r, j).prev = cand[r].prev
         /\ EntryOf(r, j).by = <<r, j>>
         /\ EntryOf(r, j).hash = HashOf(cand[r].seq, <<r, j>>, cand[r].prev)
<1>1. cand[r].seq \in Nat /\ cand[r].prev \in Digests
  BY DEF TypeOK
<1>2. <<cand[r].seq, <<r, j>>>> \in Nat \X (Requests \X Nat)
  BY <1>1
<1>3. Append(cand[r].prev, <<cand[r].seq, <<r, j>>>>) \in Digests
  BY <1>1, <1>2 DEF Digests
<1> QED
  BY <1>1, <1>3 DEF EntryOf, HashOf, Entries

\* What a request sees is a sequence of entries: its snapshot, then its own inserts.
LEMMA ViewType ==
  ASSUME TypeOK, Views, NEW r \in Requests, r \in Transactional => r \in open
  PROVE  /\ View(r) \in Seq(Entries)
         /\ r \in Transactional => Len(View(r)) = snap[r] + Len(mine[r])
         /\ r \notin Transactional => View(r) = log
<1>1. CASE r \in Transactional
  <2>1. log \in Seq(Entries) /\ mine[r] \in Seq(Entries) /\ snap[r] \in Nat /\ snap[r] <= Len(log)
    BY <1>1 DEF TypeOK, Views
  <2>2. SubSeq(log, 1, snap[r]) \in Seq(Entries) /\ Len(SubSeq(log, 1, snap[r])) = snap[r]
    BY <2>1, SamePrefix
  <2> QED
    BY <1>1, <2>1, <2>2 DEF View
<1>2. CASE r \notin Transactional
  BY <1>2 DEF View, TypeOK
<1> QED
  BY <1>1, <1>2

\* The newest entry a request sees closes the chain it sees.
LEMMA NewestOfView ==
  ASSUME TypeOK, Chain(log), Views, NEW r \in Requests, r \in Transactional => r \in open
  PROVE  /\ Newest(View(r)).seq = Len(View(r))
         /\ Newest(View(r)).hash = LastHash(View(r))
         /\ Newest(View(r)).seq \in Nat /\ Newest(View(r)).hash \in Digests
<1>1. View(r) \in Seq(Entries) /\ Chain(View(r))
  BY ViewType DEF Views
<1>2. Newest(View(r)).seq = Len(View(r)) /\ Newest(View(r)).hash = LastHash(View(r))
  BY <1>1, NewestOfChain
<1>3. CASE View(r) = <<>>
  BY <1>2, <1>3 DEF LastHash, Genesis, Digests
<1>4. CASE View(r) # <<>>
  <2>1. Len(View(r)) \in Nat /\ View(r)[Len(View(r))] \in Entries
    BY <1>1, <1>4
  <2>2. View(r)[Len(View(r))].hash \in Digests
    BY <2>1 DEF Entries
  <2> QED
    BY <1>2, <1>4, <2>1, <2>2 DEF LastHash
<1> QED
  BY <1>1, <1>2, <1>3, <1>4

\* A number of the log is taken.
LEMMA TakenNumbers ==
  ASSUME TypeOK, Chain(log), NEW n \in Nat \ {0}, ~Taken(n)
  PROVE  n > Len(log)
<1>1. log \in Seq(Entries)
  BY DEF TypeOK
<1>2. \A i \in 1..Len(log) : i \in DOMAIN log /\ log[i].seq = i
  BY <1>1 DEF Chain
<1>3. n \notin 1..Len(log)
  BY <1>2 DEF Taken
<1> QED
  BY <1>1, <1>3

\* A transaction that has inserted anything holds the number after the log.
LEMMA HoldsNext ==
  ASSUME TypeOK, Views, NEW t \in open, mine[t] # <<>>
  PROVE  1 \in DOMAIN mine[t] /\ mine[t][1].seq = Len(log) + 1
<1>1. /\ t \in Transactional /\ t \in Requests /\ log \in Seq(Entries) /\ Len(log) \in Nat
      /\ mine[t] \in Seq(Entries) /\ snap[t] = Len(log) /\ Chain(View(t))
  BY ConstantsOK DEF TypeOK, Views
<1>2. SubSeq(log, 1, snap[t]) = log
  BY <1>1, SamePrefix
<1>3. View(t) = log \o mine[t]
  BY <1>1, <1>2 DEF View
<1>4. Len(mine[t]) > 0 /\ Len(mine[t]) \in Nat
  BY <1>1
<1>5. /\ 1 \in DOMAIN mine[t] /\ Len(log) + 1 \in 1..Len(View(t))
      /\ View(t)[Len(log) + 1] = mine[t][1]
  BY <1>1, <1>3, <1>4
<1> QED
  BY <1>1, <1>5 DEF Chain

-------------------------------------------------------------------------------
(* Every step keeps it *)

\* The initial state has it.
LEMMA InitInv == Init => Inv
<1> SUFFICES ASSUME Init PROVE Inv
  OBVIOUS
<1>1. <<>> \in Digests /\ <<>> \in Seq(Entries) /\ <<>> \in Seq(Requests)
  BY DEF Digests
<1>2. TypeOK
  BY <1>1, ConstantsOK DEF Init, TypeOK, NoCand, Active, Settled
<1>3. Running /\ Holding /\ Views /\ OneHolder /\ Candidates
  BY DEF Init, Running, Holding, Views, OneHolder, Candidates
<1>4. Chain(log)
  <2>1. log = <<>> /\ 1..Len(<<>>) = {}
    BY DEF Init
  <2> QED
    BY <2>1 DEF Chain
<1> QED
  BY <1>2, <1>3, <1>4 DEF Inv

\* A step keeps the types, and the write a process runs first in its chain.
LEMMA TypeStep ==
  ASSUME Inv, Next
  PROVE  TypeOK' /\ Running'
<1> USE DEF Inv
<1>1. ASSUME NEW r \in Requests, Begin(r) PROVE TypeOK' /\ Running'
  BY <1>1 DEF Begin, TypeOK, Running, Active, Settled
<1>2. ASSUME NEW r \in Requests, Call(r) PROVE TypeOK' /\ Running'
  <2>1. Home[r] \in Instances /\ tail[Home[r]] \in Seq(Requests)
    BY ConstantsOK DEF TypeOK
  <2>2. TypeOK'
    BY SMTT(30), <1>2, <2>1 DEF Call, TypeOK, Active, Settled
  <2>3. ASSUME NEW q \in Requests, pc'[q] = "read"
        PROVE  tail'[Home[q]] # <<>> /\ Head(tail'[Home[q]]) = q
    <3>1. pc[q] = "read" /\ Home[q] \in Instances /\ tail[Home[q]] \in Seq(Requests)
      BY <1>2, <2>3, ConstantsOK DEF Call, TypeOK
    <3>2. tail[Home[q]] # <<>> /\ Head(tail[Home[q]]) = q
      BY <3>1 DEF Running
    <3>3. tail'[Home[q]] \in {tail[Home[q]], Append(tail[Home[q]], r)}
      BY <1>2, <2>1, <3>1 DEF Call, TypeOK
    <3> QED
      BY SMTT(30), <3>1, <3>2, <3>3
  <2> QED
    BY <2>2, <2>3 DEF Running
<1>3. ASSUME NEW r \in Requests, ReadLast(r) PROVE TypeOK' /\ Running'
  <2>1. Newest(View(r)).seq \in Nat /\ Newest(View(r)).hash \in Digests
    BY <1>3, NewestOfView DEF ReadLast
  <2>2. [seq |-> Newest(View(r)).seq + 1, prev |-> Newest(View(r)).hash]
          \in [seq : Nat, prev : Digests]
    BY <2>1
  <2>3. cand' \in [Requests -> [seq : Nat, prev : Digests]]
    BY <1>3, <2>2 DEF ReadLast, TypeOK
  <2> QED
    BY <1>3, <2>3 DEF ReadLast, Runs, TypeOK, Running, Active, Settled
<1>4. ASSUME NEW r \in Requests, tail[Home[r]] # <<>>, Head(tail[Home[r]]) = r, Release(r)
      PROVE  /\ tail' \in [Instances -> Seq(Requests)]
             /\ \A q \in Requests \ {r} : pc[q] = "read" =>
                  tail'[Home[q]] # <<>> /\ Head(tail'[Home[q]]) = q
  <2>1. Home[r] \in Instances /\ tail[Home[r]] \in Seq(Requests)
    BY ConstantsOK DEF TypeOK
  <2>2. Tail(tail[Home[r]]) \in Seq(Requests)
    BY <1>4, <2>1
  <2>3. tail' = [tail EXCEPT ![Home[r]] = Tail(tail[Home[r]])]
    BY <1>4 DEF Release
  <2>4. tail' \in [Instances -> Seq(Requests)]
    BY <2>1, <2>2, <2>3 DEF TypeOK
  <2>5. ASSUME NEW q \in Requests \ {r}, pc[q] = "read"
        PROVE  tail'[Home[q]] # <<>> /\ Head(tail'[Home[q]]) = q
    <3>1. tail[Home[q]] # <<>> /\ Head(tail[Home[q]]) = q /\ Home[q] \in Instances
      BY <2>5, ConstantsOK DEF Running
    <3>2. Home[q] # Home[r]
      BY <1>4, <3>1
    <3> QED
      BY <2>3, <3>1, <3>2 DEF TypeOK
  <2> QED
    BY <2>4, <2>5
<1>5. ASSUME NEW r \in Requests, ReadFails(r) PROVE TypeOK' /\ Running'
  BY <1>4, <1>5 DEF ReadFails, Runs, TypeOK, Running, Active, Settled
<1>6. NoCand \in [seq : Nat, prev : Digests]
  BY DEF NoCand, Digests
<1>7. ASSUME NEW r \in Requests, InsertInTransaction(r) PROVE TypeOK' /\ Running'
  <2>1. mine[r] \in Seq(Entries) /\ Len(mine[r]) + 1 \in Nat
    BY DEF TypeOK
  <2>4. EntryOf(r, Len(mine[r]) + 1) \in Entries
    BY <2>1, EntryType
  <2>2. mine' \in [Requests -> Seq(Entries)]
    BY <1>7, <2>1, <2>4 DEF InsertInTransaction, TypeOK
  <2>3. tail[Home[r]] # <<>> /\ Head(tail[Home[r]]) = r
    BY <1>7 DEF InsertInTransaction, Running
  <2> QED
    BY <1>4, <1>6, <1>7, <2>2, <2>3 DEF InsertInTransaction, TypeOK, Running, Active, Settled
<1>8. ASSUME NEW r \in Requests, LoseTransient(r) \/ Collide(r) PROVE TypeOK' /\ Running'
  <2>1. tail[Home[r]] # <<>> /\ Head(tail[Home[r]]) = r /\ <<>> \in Seq(Entries)
    BY <1>8 DEF LoseTransient, Collide, Loses, Running
  <2>2. /\ open' \subseteq Transactional /\ snap' \in [Requests -> Nat]
        /\ mine' \in [Requests -> Seq(Entries)] /\ cand' \in [Requests -> [seq : Nat, prev : Digests]]
        /\ log' = log /\ attempt' = attempt
    <3>1. Abort(r)
      BY <1>8 DEF LoseTransient, Collide
    <3> QED
      BY <1>6, <2>1, <3>1 DEF Abort, TypeOK
  <2>3. replay' \in [Requests -> 0..(MaxReplays - 1)]
    <3>1. replay \in [Requests -> 0..(MaxReplays - 1)] /\ MaxReplays \in Nat \ {0}
      BY ConstantsOK DEF TypeOK
    <3>2. \/ replay' = replay
          \/ replay[r] + 1 < MaxReplays /\ replay' = [replay EXCEPT ![r] = replay[r] + 1]
      BY <1>8 DEF LoseTransient, Collide
    <3> QED
      BY <3>1, <3>2
  <2>4. /\ pc' \in [Requests -> Active \cup Settled]
        /\ \A q \in Requests : pc'[q] = "read" => q # r /\ pc[q] = "read"
    BY <1>8 DEF LoseTransient, Collide, TypeOK, Active, Settled
  <2>5. Release(r)
    BY <1>8 DEF LoseTransient, Collide, Abort
  <2> QED
    BY <1>4, <2>1, <2>2, <2>3, <2>4, <2>5 DEF TypeOK, Running
<1>9. ASSUME NEW r \in Requests, Commit(r) PROVE TypeOK' /\ Running'
  <2>1. log \o mine[r] \in Seq(Entries) /\ <<>> \in Seq(Entries)
    BY DEF TypeOK
  <2> QED
    BY <1>9, <2>1 DEF Commit, TypeOK, Running, Active, Settled
<1>10. ASSUME NEW r \in Requests, Insert(r) PROVE TypeOK' /\ Running'
  <2>1. EntryOf(r, 1) \in Entries
    BY EntryType
  <2>2. Append(log, EntryOf(r, 1)) \in Seq(Entries)
    BY <2>1 DEF TypeOK
  <2>3. tail[Home[r]] # <<>> /\ Head(tail[Home[r]]) = r
    BY <1>10 DEF Insert, Running
  <2> QED
    BY <1>4, <1>6, <1>10, <2>2, <2>3 DEF Insert, TypeOK, Running, Active, Settled
<1>11. ASSUME NEW r \in Requests, Duplicate(r) PROVE TypeOK' /\ Running'
  <2>1. tail[Home[r]] # <<>> /\ Head(tail[Home[r]]) = r
    BY <1>11 DEF Duplicate, Running
  <2>2. cand' \in [Requests -> [seq : Nat, prev : Digests]]
    BY <1>6, <1>11 DEF Duplicate, TypeOK
  <2>3. CASE attempt[r] + 1 < MaxAttempts
    <3>1. /\ attempt' = [attempt EXCEPT ![r] = attempt[r] + 1]
          /\ pc' = [pc EXCEPT ![r] = "tail"] /\ UNCHANGED tail
      BY <1>11, <2>3 DEF Duplicate
    <3>2. attempt' \in [Requests -> 0..(MaxAttempts - 1)]
      BY <2>3, <3>1, ConstantsOK DEF TypeOK
    <3> QED
      BY <1>11, <2>2, <3>1, <3>2 DEF Duplicate, TypeOK, Running, Active, Settled
  <2>4. CASE ~(attempt[r] + 1 < MaxAttempts)
    <3>1. Release(r) /\ pc' = [pc EXCEPT ![r] = "failed"] /\ UNCHANGED attempt
      BY <1>11, <2>4 DEF Duplicate
    <3> QED
      BY <1>4, <1>11, <2>1, <2>2, <3>1 DEF Duplicate, TypeOK, Running, Active, Settled
  <2> QED
    BY <2>3, <2>4
<1>12. ASSUME NEW r \in Requests, Expire(r) PROVE TypeOK' /\ Running'
  <2>1. <<>> \in Seq(Entries)
    OBVIOUS
  <2> QED
    BY <1>12, <2>1 DEF Expire, TypeOK, Running
<1>13. ASSUME NEW i \in Instances, Crash(i) PROVE TypeOK' /\ Running'
  <2>1. <<>> \in Seq(Requests)
    OBVIOUS
  <2>2. TypeOK'
    BY <1>6, <1>13, <2>1 DEF Crash, TypeOK, Active, Settled
  <2>3. \A q \in Requests : pc'[q] = "read" => pc[q] = "read" /\ Home[q] # i
    BY <1>13 DEF Crash, TypeOK, Active
  <2> QED
    BY <1>13, <2>2, <2>3, ConstantsOK DEF Crash, TypeOK, Running
<1> QED
  BY <1>1, <1>2, <1>3, <1>5, <1>7, <1>8, <1>9, <1>10, <1>11, <1>12, <1>13 DEF Next, Progress

\* A step keeps pc and the open transactions together.
LEMMA HoldingStep ==
  ASSUME Inv, Next
  PROVE  Holding'
<1> USE DEF Inv
<1>1. ASSUME NEW r \in Requests, Begin(r) PROVE Holding'
  BY <1>1 DEF Begin, TypeOK, Holding
<1>2. ASSUME NEW r \in Requests, Call(r) PROVE Holding'
  BY <1>2 DEF Call, TypeOK, Holding
<1>3. ASSUME NEW r \in Requests, ReadLast(r) PROVE Holding'
  BY <1>3 DEF ReadLast, Runs, TypeOK, Holding
<1>4. ASSUME NEW r \in Requests, ReadFails(r) PROVE Holding'
  BY <1>4 DEF ReadFails, Runs, TypeOK, Holding
<1>5. ASSUME NEW r \in Requests, InsertInTransaction(r) PROVE Holding'
  BY <1>5 DEF InsertInTransaction, TypeOK, Holding
<1>6. ASSUME NEW r \in Requests, LoseTransient(r) \/ Collide(r) PROVE Holding'
  <2>1. /\ open' = open \ {r} /\ mine' = [mine EXCEPT ![r] = <<>>]
        /\ \/ pc' = [pc EXCEPT ![r] = "start"]
           \/ pc' = [pc EXCEPT ![r] = "failed"]
    BY <1>6 DEF LoseTransient, Collide, Abort
  <2> QED
    BY <2>1 DEF TypeOK, Holding
<1>7. ASSUME NEW r \in Requests, Insert(r) \/ Duplicate(r) PROVE Holding'
  <2>1. /\ r \notin Transactional /\ UNCHANGED <<open, mine>>
        /\ \E x \in {"done", "tail", "failed"} : pc' = [pc EXCEPT ![r] = x]
    BY <1>7 DEF Insert, Duplicate
  <2> QED
    BY <2>1 DEF TypeOK, Holding
<1>8. ASSUME NEW r \in Requests, Commit(r) PROVE Holding'
  BY <1>8 DEF Commit, TypeOK, Holding
<1>9. ASSUME NEW r \in Requests, Expire(r) PROVE Holding'
  BY <1>9 DEF Expire, Stalled, TypeOK, Holding
<1>10. ASSUME NEW i \in Instances, Crash(i) PROVE Holding'
  BY <1>10 DEF Crash, TypeOK, Holding
<1> QED
  BY <1>1, <1>2, <1>3, <1>4, <1>5, <1>6, <1>7, <1>8, <1>9, <1>10 DEF Next, Progress

Chained == Chain(log) /\ Views /\ OneHolder /\ Candidates

\* A step that touches no transaction and no entry.
LEMMA QuietStep ==
  ASSUME Inv, UNCHANGED <<log, open, snap, mine>>,
         NEW r \in Requests,
         \A q \in Requests : pc'[q] = "read" =>
           (q # r /\ pc[q] = "read" /\ cand'[q] = cand[q]) \/ (q = r /\ ReadLast(r))
  PROVE  Chained'
<1> USE DEF Inv
<1>1. Chain(log)' /\ Views' /\ OneHolder'
  <2>1. Chain(log)' /\ OneHolder'
    BY DEF Chain, HashOf, Genesis, OneHolder
  <2>2. \A q \in open : View(q)' = View(q)
    BY DEF View
  <2>3. ASSUME NEW q \in open'
        PROVE  /\ snap'[q] <= Len(log')
               /\ Chain(View(q)')
               /\ mine'[q] # <<>> => snap'[q] = Len(log')
               /\ \A j \in DOMAIN mine'[q] : mine'[q][j].by = <<q, j>>
    BY <2>2, <2>3 DEF Views
  <2>4. Views'
    BY <2>3 DEF Views, Chain, HashOf, Genesis
  <2> QED
    BY <2>1, <2>4
<1>2. ASSUME NEW q \in Requests, pc'[q] = "read", q # r
      PROVE  IF q \in Transactional
               THEN cand'[q].seq = Len(View(q)') + 1 /\ cand'[q].prev = LastHash(View(q)')
               ELSE /\ cand'[q].seq \in 1..(Len(log') + 1)
                    /\ cand'[q].seq = Len(log') + 1 => cand'[q].prev = LastHash(log')
  <2>1. View(q)' = View(q)
    BY DEF View
  <2>2. pc[q] = "read" /\ cand'[q] = cand[q]
    BY <1>2
  <2> QED
    BY <2>1, <2>2 DEF Candidates
<1>3. ASSUME pc'[r] = "read", ReadLast(r)
      PROVE  IF r \in Transactional
               THEN cand'[r].seq = Len(View(r)') + 1 /\ cand'[r].prev = LastHash(View(r)')
               ELSE /\ cand'[r].seq \in 1..(Len(log') + 1)
                    /\ cand'[r].seq = Len(log') + 1 => cand'[r].prev = LastHash(log')
  <2>1. View(r)' = View(r)
    BY DEF View
  <2>2. r \in Transactional => r \in open
    BY <1>3 DEF ReadLast
  <2>3. cand'[r] = [seq |-> Newest(View(r)).seq + 1, prev |-> Newest(View(r)).hash]
    BY <1>3 DEF ReadLast, TypeOK
  <2>4. cand'[r].seq = Len(View(r)) + 1 /\ cand'[r].prev = LastHash(View(r))
    BY <2>2, <2>3, NewestOfView
  <2>5. r \notin Transactional => View(r) = log
    BY DEF View
  <2>6. Len(log) \in Nat
    BY DEF TypeOK
  <2> QED
    BY <2>1, <2>4, <2>5, <2>6
<1>4. Candidates'
  BY <1>2, <1>3 DEF Candidates, LastHash
<1> QED
  BY <1>1, <1>4 DEF Chained

\* A step that ends the transaction of r and keeps the log.
LEMMA EndStep ==
  ASSUME Inv, NEW r \in open,
         log' = log, open' = open \ {r},
         snap' = [snap EXCEPT ![r] = 0], mine' = [mine EXCEPT ![r] = <<>>],
         \A q \in Requests : pc'[q] = "read" => q # r /\ pc[q] = "read" /\ cand'[q] = cand[q]
  PROVE  Chained'
<1> USE DEF Inv
<1>1. \A q \in Requests \ {r} : View(q)' = View(q) /\ mine'[q] = mine[q] /\ snap'[q] = snap[q]
  BY DEF View, TypeOK
<1>2. open \subseteq Requests
  BY ConstantsOK DEF TypeOK
<1>3. Chain(log)'
  BY DEF Chain, HashOf, Genesis
<1>4. Views'
  <2> SUFFICES ASSUME NEW q \in open'
               PROVE  /\ snap'[q] <= Len(log')
                      /\ Chain(View(q)')
                      /\ mine'[q] # <<>> => snap'[q] = Len(log')
                      /\ \A j \in DOMAIN mine'[q] : mine'[q][j].by = <<q, j>>
    BY DEF Views, Chain, HashOf, Genesis
  <2> QED
    BY <1>1, <1>2 DEF Views
<1>5. OneHolder'
  BY <1>1, <1>2 DEF OneHolder
<1>6. Candidates'
  <2> SUFFICES ASSUME NEW q \in Requests, pc'[q] = "read"
               PROVE  IF q \in Transactional
                        THEN cand'[q].seq = Len(View(q)') + 1 /\ cand'[q].prev = LastHash(View(q)')
                        ELSE /\ cand'[q].seq \in 1..(Len(log') + 1)
                             /\ cand'[q].seq = Len(log') + 1 => cand'[q].prev = LastHash(log')
    BY DEF Candidates, LastHash
  <2> QED
    BY <1>1 DEF Candidates
<1> QED
  BY <1>3, <1>4, <1>5, <1>6 DEF Chained

\* Beginning a transaction: it sees the log as it is.
LEMMA BeginStep ==
  ASSUME Inv, NEW r \in Requests, Begin(r)
  PROVE  Chained'
<1> USE DEF Inv
<1>1. log' = log /\ mine' = mine /\ r \notin open /\ open' = open \cup {r}
  BY DEF Begin, Holding
<1>2. snap' = [snap EXCEPT ![r] = Len(log)] /\ mine[r] = <<>> /\ r \in Transactional
  BY DEF Begin, Holding
<1>3. \A q \in Requests \ {r} : View(q)' = View(q) /\ snap'[q] = snap[q]
  BY <1>1, <1>2 DEF View, TypeOK
<1>4. View(r)' = log /\ snap'[r] = Len(log)
  <2>1. snap'[r] = Len(log) /\ Len(log) \in Nat /\ log \in Seq(Entries)
    BY <1>2 DEF TypeOK
  <2>2. View(r)' = SubSeq(log, 1, Len(log)) \o <<>>
    BY <1>1, <1>2, <2>1 DEF View
  <2>3. SubSeq(log, 1, Len(log)) = log /\ log \o <<>> = log
    BY <2>1
  <2> QED
    BY <2>1, <2>2, <2>3
<1>5. open \subseteq Requests
  BY ConstantsOK DEF TypeOK
<1>6. Chain(log)' /\ OneHolder'
  BY <1>1, <1>2 DEF Chain, HashOf, Genesis, OneHolder
<1>7. Views'
  <2> SUFFICES ASSUME NEW q \in open'
               PROVE  /\ snap'[q] <= Len(log')
                      /\ Chain(View(q)')
                      /\ mine'[q] # <<>> => snap'[q] = Len(log')
                      /\ \A j \in DOMAIN mine'[q] : mine'[q][j].by = <<q, j>>
    BY DEF Views, Chain, HashOf, Genesis
  <2>1. CASE q = r
    <3>1. Len(log) \in Nat /\ DOMAIN <<>> = {}
      BY DEF TypeOK
    <3> QED
      BY <1>1, <1>2, <1>4, <2>1, <3>1
  <2>2. CASE q # r
    BY <1>1, <1>3, <1>5, <2>2 DEF Views
  <2> QED
    BY <2>1, <2>2
<1>8. Candidates'
  <2> SUFFICES ASSUME NEW q \in Requests, pc'[q] = "read"
               PROVE  IF q \in Transactional
                        THEN cand'[q].seq = Len(View(q)') + 1 /\ cand'[q].prev = LastHash(View(q)')
                        ELSE /\ cand'[q].seq \in 1..(Len(log') + 1)
                             /\ cand'[q].seq = Len(log') + 1 => cand'[q].prev = LastHash(log')
    BY DEF Candidates, LastHash
  <2>1. q # r /\ pc[q] = "read" /\ cand' = cand
    BY DEF Begin, TypeOK
  <2> QED
    BY <1>1, <1>3, <2>1 DEF Candidates
<1> QED
  BY <1>6, <1>7, <1>8 DEF Chained

\* An insert in a transaction extends what it sees by a chained entry, and finds no other
\* transaction with inserts.
LEMMA InsertStep ==
  ASSUME Inv, NEW r \in Requests, InsertInTransaction(r)
  PROVE  Chained'
<1> USE DEF Inv
<1> DEFINE e == EntryOf(r, Len(mine[r]) + 1)
<1>1. /\ r \in Transactional /\ r \in open /\ pc[r] = "read"
      /\ log' = log /\ open' = open /\ snap' = snap
      /\ mine' = [mine EXCEPT ![r] = Append(mine[r], e)]
  BY DEF InsertInTransaction, Holding
<1>2. /\ mine[r] \in Seq(Entries) /\ log \in Seq(Entries) /\ snap[r] \in Nat
      /\ snap[r] <= Len(log) /\ Len(mine[r]) \in Nat /\ Len(log) \in Nat
  BY <1>1 DEF TypeOK, Views
<1>3. /\ e \in Entries /\ e.seq = cand[r].seq /\ e.prev = cand[r].prev
      /\ e.by = <<r, Len(mine[r]) + 1>>
      /\ e.hash = HashOf(e.seq, e.by, e.prev)
  <2>1. Len(mine[r]) + 1 \in Nat
    BY <1>2
  <2>2. /\ e \in Entries /\ e.seq = cand[r].seq /\ e.prev = cand[r].prev
        /\ e.by = <<r, Len(mine[r]) + 1>>
        /\ e.hash = HashOf(cand[r].seq, <<r, Len(mine[r]) + 1>>, cand[r].prev)
    BY <2>1, EntryType
  <2> QED
    BY <2>2
<1>4. /\ View(r) \in Seq(Entries) /\ Len(View(r)) = snap[r] + Len(mine[r])
      /\ cand[r].seq = Len(View(r)) + 1 /\ cand[r].prev = LastHash(View(r))
  BY <1>1, ViewType DEF Candidates
<1>5. cand[r].seq > Len(log)
  <2>1. cand[r].seq \in Nat \ {0} /\ ~Taken(cand[r].seq)
    BY <1>2, <1>4 DEF InsertInTransaction
  <2> QED
    BY <2>1, TakenNumbers
<1>6. snap[r] = Len(log)
  BY <1>1, <1>2, <1>4, <1>5 DEF Views
<1>7. mine'[r] = Append(mine[r], e) /\ \A q \in Requests \ {r} : mine'[q] = mine[q]
  BY <1>1 DEF TypeOK
<1>8. View(r)' = Append(View(r), e)
  <2>1. SubSeq(log, 1, snap[r]) \in Seq(Entries)
    BY <1>2, SamePrefix
  <2>2. View(r)' = SubSeq(log, 1, snap[r]) \o Append(mine[r], e)
    BY <1>1, <1>7 DEF View
  <2>3. View(r) = SubSeq(log, 1, snap[r]) \o mine[r]
    BY <1>1 DEF View
  <2> QED
    BY <1>2, <1>3, <2>1, <2>2, <2>3, AppendLast
<1>9. \A q \in Requests \ {r} : View(q)' = View(q)
  BY <1>1, <1>7 DEF View
<1>10. Chain(View(r)')
  <2>1. Chain(View(r)) /\ Chain(Append(View(r), e))
    BY <1>1, <1>3, <1>4, ChainExtends DEF Views
  <2> QED
    BY <1>8, <2>1
<1>11. open \subseteq Requests
  BY ConstantsOK DEF TypeOK
<1>12. ASSUME NEW t \in open \ {r} PROVE mine[t] = <<>>
  <2>1. SUFFICES ASSUME mine[t] # <<>> PROVE FALSE
    OBVIOUS
  <2>2. mine[r] = <<>>
    BY <1>1, <1>12, <2>1 DEF OneHolder
  <2>3. cand[r].seq = Len(log) + 1
    BY <1>2, <1>4, <1>6, <2>2
  <2>4. 1 \in DOMAIN mine[t] /\ mine[t][1].seq = Len(log) + 1
    BY <2>1, HoldsNext
  <2>5. ~Held(cand[r].seq, r)
    BY DEF InsertInTransaction
  <2> QED
    BY <2>3, <2>4, <2>5 DEF Held
<1>13. Chain(log)' /\ OneHolder'
  BY <1>1, <1>7, <1>11, <1>12 DEF Chain, HashOf, Genesis, OneHolder
<1>14. Views'
  <2> SUFFICES ASSUME NEW q \in open'
               PROVE  /\ snap'[q] <= Len(log')
                      /\ Chain(View(q)')
                      /\ mine'[q] # <<>> => snap'[q] = Len(log')
                      /\ \A j \in DOMAIN mine'[q] : mine'[q][j].by = <<q, j>>
    BY DEF Views, Chain, HashOf, Genesis
  <2>1. CASE q = r
    <3>1. \A j \in DOMAIN mine[r] : mine[r][j].by = <<r, j>>
      BY <1>1 DEF Views
    <3>2. \A j \in DOMAIN mine'[r] : mine'[r][j].by = <<r, j>>
      BY <1>2, <1>3, <1>7, <3>1
    <3> QED
      BY <1>1, <1>2, <1>6, <1>10, <2>1, <3>2
  <2>2. CASE q # r
    BY <1>1, <1>7, <1>9, <1>11, <2>2 DEF Views
  <2> QED
    BY <2>1, <2>2
<1>15. Candidates'
  <2> SUFFICES ASSUME NEW q \in Requests, pc'[q] = "read"
               PROVE  IF q \in Transactional
                        THEN cand'[q].seq = Len(View(q)') + 1 /\ cand'[q].prev = LastHash(View(q)')
                        ELSE /\ cand'[q].seq \in 1..(Len(log') + 1)
                             /\ cand'[q].seq = Len(log') + 1 => cand'[q].prev = LastHash(log')
    BY DEF Candidates, LastHash
  <2>1. q # r /\ pc[q] = "read" /\ cand'[q] = cand[q]
    BY DEF InsertInTransaction, TypeOK
  <2> QED
    BY <1>1, <1>9, <2>1 DEF Candidates
<1> QED
  BY <1>13, <1>14, <1>15 DEF Chained

\* A step that makes the log a longer chain while no transaction left open has inserts.
LEMMA GrowthStep ==
  ASSUME Inv, NEW s \in Seq(Entries), s # <<>>, log' = log \o s, Chain(log'),
         open' \subseteq open,
         \A q \in open' : mine[q] = <<>> /\ mine'[q] = <<>> /\ snap'[q] = snap[q],
         \A q \in Requests : pc'[q] = "read" =>
           /\ pc[q] = "read" /\ cand'[q] = cand[q]
           /\ q \in Transactional => q \in open'
  PROVE  Chained'
<1> USE DEF Inv
<1>1. log \in Seq(Entries) /\ Len(log) \in Nat /\ Len(log') \in Nat /\ Len(log') > Len(log)
  <2>1. log \in Seq(Entries) /\ Len(s) \in Nat /\ Len(s) > 0
    BY DEF TypeOK
  <2> QED
    BY <2>1
<1>2. ASSUME NEW q \in open'
      PROVE  View(q)' = View(q) /\ snap[q] \in Nat /\ snap[q] <= Len(log)
  <2>1. q \in Transactional /\ snap[q] \in Nat /\ snap[q] <= Len(log)
    BY ConstantsOK DEF TypeOK, Views
  <2>2. SubSeq(log', 1, snap[q]) = SubSeq(log, 1, snap[q])
    BY <1>1, <2>1, SamePrefix
  <2> QED
    BY <2>1, <2>2 DEF View
<1>3. Chain(log)' /\ OneHolder'
  BY DEF Chain, HashOf, Genesis, OneHolder
<1>4. Views'
  <2> SUFFICES ASSUME NEW q \in open'
               PROVE  /\ snap'[q] <= Len(log')
                      /\ Chain(View(q)')
                      /\ mine'[q] # <<>> => snap'[q] = Len(log')
                      /\ \A j \in DOMAIN mine'[q] : mine'[q][j].by = <<q, j>>
    BY DEF Views, Chain, HashOf, Genesis
  <2> QED
    BY <1>1, <1>2 DEF Views
<1>5. Candidates'
  <2> SUFFICES ASSUME NEW q \in Requests, pc'[q] = "read"
               PROVE  IF q \in Transactional
                        THEN cand'[q].seq = Len(View(q)') + 1 /\ cand'[q].prev = LastHash(View(q)')
                        ELSE /\ cand'[q].seq \in 1..(Len(log') + 1)
                             /\ cand'[q].seq = Len(log') + 1 => cand'[q].prev = LastHash(log')
    BY DEF Candidates, LastHash
  <2> QED
    BY <1>1, <1>2 DEF Candidates
<1> QED
  BY <1>3, <1>4, <1>5 DEF Chained

\* A commit publishes a chain: nothing was committed since its snapshot.
LEMMA CommitStep ==
  ASSUME Inv, NEW r \in Requests, Commit(r)
  PROVE  Chained' /\ snap[r] = Len(log) /\ mine[r] # <<>>
<1> USE DEF Inv
<1>1. /\ r \in open /\ r \in Transactional /\ Len(mine[r]) = Writes[r]
      /\ log' = log \o mine[r] /\ open' = open \ {r}
      /\ snap' = [snap EXCEPT ![r] = 0] /\ mine' = [mine EXCEPT ![r] = <<>>]
      /\ pc' = [pc EXCEPT ![r] = "done"] /\ cand' = cand
  BY DEF Commit, TypeOK
<1>2. mine[r] \in Seq(Entries) /\ log \in Seq(Entries) /\ Len(log) \in Nat
  BY DEF TypeOK
<1>3. mine[r] # <<>>
  BY <1>1, <1>2, ConstantsOK
<1>4. snap[r] = Len(log) /\ Chain(View(r))
  BY <1>1, <1>3 DEF Views
<1>5. View(r) = log'
  <2>1. SubSeq(log, 1, snap[r]) = log
    BY <1>2, <1>4, SamePrefix
  <2> QED
    BY <1>1, <2>1 DEF View
<1>6. open \subseteq Requests
  BY ConstantsOK DEF TypeOK
<1>7. \A q \in open' : mine[q] = <<>> /\ mine'[q] = <<>> /\ snap'[q] = snap[q]
  BY <1>1, <1>3, <1>6 DEF OneHolder, TypeOK
<1>8. \A q \in Requests : pc'[q] = "read" =>
        /\ pc[q] = "read" /\ cand'[q] = cand[q]
        /\ q \in Transactional => q \in open'
  BY <1>1 DEF TypeOK, Holding
<1>9. Chained'
  BY <1>1, <1>2, <1>3, <1>4, <1>5, <1>7, <1>8, GrowthStep
<1> QED
  BY <1>3, <1>4, <1>9

\* An insert outside a transaction finds its number free only if it follows the log.
LEMMA LoneInsertStep ==
  ASSUME Inv, NEW r \in Requests, Insert(r)
  PROVE  Chained'
<1> USE DEF Inv
<1> DEFINE e == EntryOf(r, 1)
<1>1. /\ r \notin Transactional /\ pc[r] = "read"
      /\ ~Taken(cand[r].seq) /\ ~Held(cand[r].seq, r)
      /\ log' = Append(log, e) /\ open' = open /\ snap' = snap /\ mine' = mine
  BY DEF Insert
<1>2. log \in Seq(Entries) /\ Len(log) \in Nat
  BY DEF TypeOK
<1>3. /\ e \in Entries /\ e.seq = cand[r].seq /\ e.prev = cand[r].prev /\ e.by = <<r, 1>>
      /\ e.hash = HashOf(e.seq, e.by, e.prev)
  <2>1. /\ e \in Entries /\ e.seq = cand[r].seq /\ e.prev = cand[r].prev /\ e.by = <<r, 1>>
        /\ e.hash = HashOf(cand[r].seq, <<r, 1>>, cand[r].prev)
    BY EntryType
  <2> QED
    BY <2>1
<1>4. cand[r].seq = Len(log) + 1 /\ cand[r].prev = LastHash(log)
  <2>1. cand[r].seq \in 1..(Len(log) + 1)
    BY <1>1 DEF Candidates
  <2>2. cand[r].seq > Len(log)
    BY <1>1, <1>2, <2>1, TakenNumbers
  <2> QED
    BY <1>1, <1>2, <2>1, <2>2 DEF Candidates
<1>5. Chain(log')
  BY <1>1, <1>2, <1>3, <1>4, ChainExtends
<1>6. ASSUME NEW t \in open PROVE mine[t] = <<>>
  <2>1. SUFFICES ASSUME mine[t] # <<>> PROVE FALSE
    OBVIOUS
  <2>2. 1 \in DOMAIN mine[t] /\ mine[t][1].seq = Len(log) + 1
    BY <2>1, HoldsNext
  <2>3. t # r
    BY <1>1 DEF TypeOK
  <2> QED
    BY <1>1, <1>4, <2>2, <2>3 DEF Held
<1>7. <<e>> \in Seq(Entries) /\ <<e>> # <<>> /\ log' = log \o <<e>>
  <2>1. <<e>> \in Seq(Entries) /\ <<e>> # <<>>
    BY <1>3
  <2>2. Append(log, e) = log \o <<e>>
    BY <1>2, <1>3
  <2> QED
    BY <1>1, <2>1, <2>2
<1>8. \A q \in Requests : pc'[q] = "read" =>
        /\ pc[q] = "read" /\ cand'[q] = cand[q]
        /\ q \in Transactional => q \in open'
  BY <1>1 DEF Insert, TypeOK, Holding
<1> QED
  BY <1>1, <1>5, <1>6, <1>7, <1>8, GrowthStep

\* Every step keeps the chain, what the transactions see and what they are about to insert.
LEMMA ChainedStep ==
  ASSUME Inv, Next
  PROVE  Chained'
<1> USE DEF Inv
<1>1. ASSUME NEW r \in Requests, Begin(r) PROVE Chained'
  BY <1>1, BeginStep
<1>2. ASSUME NEW r \in Requests, Call(r) \/ ReadLast(r) \/ ReadFails(r) \/ Duplicate(r)
      PROVE  Chained'
  <2>1. UNCHANGED <<log, open, snap, mine>>
    BY <1>2 DEF Call, ReadLast, ReadFails, Duplicate
  <2>2. \A q \in Requests : pc'[q] = "read" =>
          (q # r /\ pc[q] = "read" /\ cand'[q] = cand[q]) \/ (q = r /\ ReadLast(r))
    BY <1>2 DEF Call, ReadLast, ReadFails, Duplicate, TypeOK
  <2> QED
    BY <2>1, <2>2, QuietStep
<1>3. ASSUME NEW r \in Requests, InsertInTransaction(r) PROVE Chained'
  BY <1>3, InsertStep
<1>4. ASSUME NEW r \in Requests, LoseTransient(r) \/ Collide(r) PROVE Chained'
  <2>1. /\ r \in Transactional /\ pc[r] = "read" /\ Abort(r)
        /\ \/ pc' = [pc EXCEPT ![r] = "start"]
           \/ pc' = [pc EXCEPT ![r] = "failed"]
    BY <1>4 DEF LoseTransient, Collide, Loses
  <2>2. r \in open
    BY <2>1 DEF Holding
  <2>3. \A q \in Requests : pc'[q] = "read" => q # r /\ pc[q] = "read" /\ cand'[q] = cand[q]
    BY <2>1 DEF Abort, TypeOK
  <2> QED
    BY <2>1, <2>2, <2>3, EndStep DEF Abort
<1>5. ASSUME NEW r \in Requests, Commit(r) PROVE Chained'
  BY <1>5, CommitStep
<1>6. ASSUME NEW r \in Requests, Insert(r) PROVE Chained'
  BY <1>6, LoneInsertStep
<1>7. ASSUME NEW r \in Requests, Expire(r) PROVE Chained'
  <2>1. /\ r \in open /\ pc[r] # "read" /\ log' = log /\ open' = open \ {r}
        /\ snap' = [snap EXCEPT ![r] = 0] /\ mine' = [mine EXCEPT ![r] = <<>>]
        /\ pc' = pc /\ cand' = cand
    BY <1>7 DEF Expire, Stalled
  <2> QED
    BY <2>1, EndStep
<1>8. ASSUME NEW i \in Instances, Crash(i) PROVE Chained'
  <2>1. UNCHANGED <<log, open, snap, mine>>
    BY <1>8 DEF Crash
  <2>2. PICK r \in Requests : Home[r] = i /\ pc[r] \in Active
    BY <1>8 DEF Crash
  <2>3. \A q \in Requests : pc'[q] = "read" => q # r /\ pc[q] = "read" /\ cand'[q] = cand[q]
    BY <1>8, <2>2 DEF Crash, TypeOK, Active
  <2> QED
    BY <2>1, <2>3, QuietStep
<1> QED
  BY <1>1, <1>2, <1>3, <1>4, <1>5, <1>6, <1>7, <1>8 DEF Next, Progress

-------------------------------------------------------------------------------
(* Theorems *)

\* The invariant holds in every reachable state.
THEOREM SpecInv == Spec => []Inv
<1>1. Inv /\ [Next]_vars => Inv'
  <2> SUFFICES ASSUME Inv, [Next]_vars PROVE Inv'
    OBVIOUS
  <2>1. CASE Next
    <3>1. Chain(log)' /\ Views' /\ OneHolder' /\ Candidates'
      BY <2>1, ChainedStep DEF Chained
    <3> QED
      BY <2>1, <3>1, TypeStep, HoldingStep DEF Inv
  <2>2. CASE UNCHANGED vars
    <3>1. TypeOK' /\ Running' /\ Holding' /\ OneHolder'
      BY <2>2 DEF vars, Inv, TypeOK, Running, Holding, OneHolder
    <3>2. \A q \in Requests : View(q)' = View(q)
      BY <2>2 DEF vars, View
    <3>3. open \subseteq Requests
      BY ConstantsOK DEF Inv, TypeOK
    <3>4. ASSUME NEW q \in open
          PROVE  /\ snap'[q] <= Len(log')
                 /\ Chain(View(q)')
                 /\ mine'[q] # <<>> => snap'[q] = Len(log')
                 /\ \A j \in DOMAIN mine'[q] : mine'[q][j].by = <<q, j>>
      BY <2>2, <3>2, <3>3 DEF vars, Inv, Views
    <3>5. Chain(log)' /\ Views'
      BY <2>2, <3>4 DEF vars, Inv, Views, Chain, HashOf, Genesis
    <3>6. ASSUME NEW q \in Requests, pc'[q] = "read"
          PROVE  IF q \in Transactional
                   THEN cand'[q].seq = Len(View(q)') + 1 /\ cand'[q].prev = LastHash(View(q)')
                   ELSE /\ cand'[q].seq \in 1..(Len(log') + 1)
                        /\ cand'[q].seq = Len(log') + 1 => cand'[q].prev = LastHash(log')
      BY <2>2, <3>2, <3>6 DEF vars, Inv, Candidates
    <3>7. Candidates'
      BY <3>6 DEF Candidates, LastHash
    <3> QED
      BY <3>1, <3>5, <3>7 DEF Inv
  <2> QED
    BY <2>1, <2>2
<1> QED
  BY InitInv, <1>1, PTL DEF Spec

\* The variables keep their types, and the two retry counters stay below their limits,
\* for every number of processes and requests.
THEOREM TypeCorrect == Spec => []TypeOK
<1>1. Inv => TypeOK
  BY DEF Inv
<1> QED
  BY SpecInv, <1>1, PTL

\* audit.verify finds nothing broken in any reachable log: racing writers, aborted and
\* replayed transactions, expiry and crashes leave a gapless chain.
THEOREM ChainAlwaysVerifies == Spec => []ChainVerifies
<1>1. Inv => ChainVerifies
  BY DEF Inv, Chain, ChainVerifies, verify
<1> QED
  BY SpecInv, <1>1, PTL

\* The audited transactions of a tenant are serial: each commits on the log it started from.
THEOREM TransactionsAreSerial == Spec => CommitsOnCurrentSnapshot
<1>1. Inv /\ [Next]_vars =>
        [\A r \in Transactional : pc[r] = "work" /\ pc'[r] = "done" => snap[r] = Len(log)]_vars
  <2> SUFFICES ASSUME Inv, Next, NEW r \in Transactional, pc[r] = "work", pc'[r] = "done"
               PROVE  snap[r] = Len(log)
    BY DEF vars
  <2>1. r \in Requests /\ TypeOK
    BY ConstantsOK DEF Inv
  <2>2. Commit(r)
    <3>1. ASSUME NEW q \in Requests, Progress(q), ~Commit(r) PROVE FALSE
      BY <2>1, <3>1 DEF Progress, Begin, Call, ReadLast, Runs, ReadFails, InsertInTransaction,
                        LoseTransient, Loses, Collide, Commit, Insert, Duplicate, TypeOK
    <3>2. ASSUME NEW q \in Requests, Expire(q) PROVE FALSE
      BY <3>2 DEF Expire
    <3>3. ASSUME NEW i \in Instances, Crash(i) PROVE FALSE
      BY <2>1, <3>3 DEF Crash, TypeOK
    <3> QED
      BY <3>1, <3>2, <3>3 DEF Next
  <2> QED
    BY <2>1, <2>2, CommitStep
<1> QED
  BY SpecInv, <1>1, PTL DEF Spec, CommitsOnCurrentSnapshot

-------------------------------------------------------------------------------
(* Evidence, and the refinement of AuditLog *)

\* Only Commit and Insert add entries, and only they report success.
LEMMA OtherSteps ==
  ASSUME Inv, Next, \A r \in Requests : ~Commit(r) /\ ~Insert(r)
  PROVE  log' = log /\ \A q \in Requests : (pc'[q] = "done") = (pc[q] = "done")
<1>1. pc \in [Requests -> Active \cup Settled]
  BY DEF Inv, TypeOK
<1>2. ASSUME NEW r \in Requests, Progress(r)
      PROVE  log' = log /\ \A q \in Requests : (pc'[q] = "done") = (pc[q] = "done")
  <2>1. ~Commit(r) /\ ~Insert(r)
    OBVIOUS
  <2>2. log' = log
    BY <1>2, <2>1 DEF Progress, Begin, Call, ReadLast, ReadFails, InsertInTransaction,
                      LoseTransient, Collide, Abort, Duplicate
  <2>3. pc[r] # "done" /\ \E x \in {"start", "work", "tail", "read", "failed"} :
                             pc' = [pc EXCEPT ![r] = x]
    BY <1>2, <2>1 DEF Progress, Begin, Call, ReadLast, Runs, ReadFails, InsertInTransaction,
                      LoseTransient, Loses, Collide, Duplicate
  <2> QED
    BY <1>1, <2>2, <2>3
<1>3. ASSUME NEW r \in Requests, Expire(r)
      PROVE  log' = log /\ \A q \in Requests : (pc'[q] = "done") = (pc[q] = "done")
  BY <1>3 DEF Expire
<1>4. ASSUME NEW i \in Instances, Crash(i)
      PROVE  log' = log /\ \A q \in Requests : (pc'[q] = "done") = (pc[q] = "done")
  BY <1>1, <1>4 DEF Crash, Active
<1> QED
  BY <1>2, <1>3, <1>4 DEF Next

\* What a successful request adds: its entries, in their order.
LEMMA AddedEntries ==
  ASSUME Inv, NEW r \in Requests, Commit(r) \/ Insert(r)
  PROVE  \E s \in Seq(Entries) :
           /\ log' = log \o s /\ Len(s) = Writes[r]
           /\ \A j \in 1..Writes[r] : s[j].by = <<r, j>>
           /\ pc[r] # "done" /\ pc' = [pc EXCEPT ![r] = "done"]
<1> USE DEF Inv
<1>1. log \in Seq(Entries)
  BY DEF TypeOK
<1>2. CASE Commit(r)
  <2>1. mine[r] \in Seq(Entries) /\ r \in open
    BY <1>2 DEF Commit, TypeOK
  <2>2. \A j \in 1..Len(mine[r]) : mine[r][j].by = <<r, j>>
    BY <2>1 DEF Views
  <2>3. /\ log' = log \o mine[r] /\ Len(mine[r]) = Writes[r]
        /\ pc[r] # "done" /\ pc' = [pc EXCEPT ![r] = "done"]
    BY <1>2 DEF Commit
  <2> QED
    BY <2>1, <2>2, <2>3
<1>3. CASE Insert(r)
  <2> DEFINE e == EntryOf(r, 1)
  <2>1. e \in Entries /\ e.by = <<r, 1>>
    BY EntryType
  <2>2. /\ log' = Append(log, e) /\ Writes[r] = 1
        /\ pc[r] # "done" /\ pc' = [pc EXCEPT ![r] = "done"]
    BY <1>3, ConstantsOK DEF Insert
  <2>3. <<e>> \in Seq(Entries) /\ Len(<<e>>) = 1 /\ <<e>>[1] = e
    BY <2>1
  <2>4. log' = log \o <<e>>
    BY <1>1, <2>1, <2>2
  <2>5. \A j \in 1..Writes[r] : <<e>>[j].by = <<r, j>>
    BY <2>1, <2>2, <2>3
  <2>6. Len(<<e>>) = Writes[r]
    BY <2>2, <2>3
  <2> HIDE DEF e
  <2> QED
    BY <2>2, <2>3, <2>4, <2>5, <2>6
<1> QED
  BY <1>2, <1>3

\* Success and evidence go together: a step adds the entries of a request if and only if
\* it makes that request report success.
LEMMA EvidenceStep ==
  ASSUME Inv, Inv', EvidenceMatchesOutcome, Next
  PROVE  EvidenceMatchesOutcome'
<1>1. log \in Seq(Entries) /\ pc \in [Requests -> Active \cup Settled]
  BY DEF Inv, TypeOK
<1>2. ASSUME NEW r \in Requests, Commit(r) \/ Insert(r) PROVE EvidenceMatchesOutcome'
  <2>1. PICK s \in Seq(Entries) :
           /\ log' = log \o s /\ Len(s) = Writes[r]
           /\ \A j \in 1..Writes[r] : s[j].by = <<r, j>>
           /\ pc[r] # "done" /\ pc' = [pc EXCEPT ![r] = "done"]
    BY <1>2, AddedEntries
  <2>2. Writes[r] \in Nat \ {0} /\ Len(log) \in Nat
    BY <1>1, ConstantsOK
  <2>3. /\ DOMAIN log' = 1..(Len(log) + Writes[r])
        /\ \A i \in 1..Len(log) : log'[i] = log[i]
        /\ \A i \in 1..Writes[r] : log'[Len(log) + i] = s[i]
    BY <1>1, <2>1, <2>2
  <2> SUFFICES ASSUME NEW q \in Requests
               PROVE  (pc'[q] = "done") <=> (\E i \in DOMAIN log' : log'[i].by[1] = q)
    BY DEF EvidenceMatchesOutcome
  <2>4. CASE q = r
    <3>1. Len(log) + 1 \in DOMAIN log' /\ log'[Len(log) + 1].by = <<r, 1>>
      BY <2>1, <2>2, <2>3
    <3> QED
      BY <1>1, <2>1, <2>4, <3>1
  <2>5. CASE q # r
    <3>1. \A i \in DOMAIN log' : log'[i].by[1] = q => i \in 1..Len(log)
      <4> SUFFICES ASSUME NEW i \in DOMAIN log', i \notin 1..Len(log)
                   PROVE  log'[i].by[1] = r
        BY <2>5
      <4>1. i - Len(log) \in 1..Writes[r] /\ i = Len(log) + (i - Len(log))
        BY <2>2, <2>3
      <4> QED
        BY <2>1, <2>3, <4>1
    <3>2. 1..Len(log) \subseteq DOMAIN log' /\ DOMAIN log = 1..Len(log)
      BY <1>1, <2>2, <2>3
    <3>3. (\E i \in DOMAIN log' : log'[i].by[1] = q) <=> (\E i \in DOMAIN log : log[i].by[1] = q)
      BY <2>3, <3>1, <3>2
    <3> QED
      BY <1>1, <2>1, <2>5, <3>3 DEF EvidenceMatchesOutcome
  <2> QED
    BY <2>4, <2>5
<1>3. CASE \A r \in Requests : ~Commit(r) /\ ~Insert(r)
  BY <1>3, OtherSteps DEF EvidenceMatchesOutcome
<1> QED
  BY <1>2, <1>3

\* No audited mutation without its entry and no entry without its mutation, for every
\* number of processes and requests.
THEOREM EvidenceAlwaysMatches == Spec => []EvidenceMatchesOutcome
<1>1. Init => EvidenceMatchesOutcome
  BY DEF Init, EvidenceMatchesOutcome
<1>2. Inv /\ Inv' /\ EvidenceMatchesOutcome /\ [Next]_vars => EvidenceMatchesOutcome'
  <2>1. ASSUME UNCHANGED vars, EvidenceMatchesOutcome PROVE EvidenceMatchesOutcome'
    BY <2>1 DEF vars, EvidenceMatchesOutcome
  <2> QED
    BY <2>1, EvidenceStep
<1> QED
  BY SpecInv, <1>1, <1>2, PTL DEF Spec

\* The log implements AuditLog: every step adds the whole batch of one request that had
\* none, or adds nothing.
THEOREM ChainImplementsLog == Spec => ImplementsAuditLog
<1> DEFINE by == [i \in 1..Len(log) |-> log[i].by]
<1>1. Init => Promise!Init
  BY DEF Init, Promise!Init
<1>2. Inv /\ EvidenceMatchesOutcome /\ [Next]_vars => [Promise!Next]_by
  <2> SUFFICES ASSUME Inv, EvidenceMatchesOutcome, [Next]_vars
               PROVE  Promise!Next \/ by' = by
    OBVIOUS
  <2>1. log \in Seq(Entries) /\ Len(log) \in Nat /\ DOMAIN log = 1..Len(log)
    BY DEF Inv, TypeOK
  <2>2. ASSUME NEW r \in Requests, Commit(r) \/ Insert(r) PROVE Promise!Record(r)
    <3>1. PICK s \in Seq(Entries) :
             /\ log' = log \o s /\ Len(s) = Writes[r]
             /\ \A j \in 1..Writes[r] : s[j].by = <<r, j>>
             /\ pc[r] # "done" /\ pc' = [pc EXCEPT ![r] = "done"]
      BY <2>2, AddedEntries
    <3>2. Writes[r] \in Nat /\ Len(by) = Len(log)
      BY <2>1, ConstantsOK
    <3>3. ~Promise!Recorded(r)
      BY <2>1, <3>1, <3>2 DEF Promise!Recorded, EvidenceMatchesOutcome
    <3>4. by' = by \o Promise!Batch(r)
      <4> DEFINE left == by'
                 right == by \o Promise!Batch(r)
      <4>1. /\ Len(log') = Len(log) + Writes[r]
            /\ \A i \in 1..Len(log) : log'[i] = log[i]
            /\ \A i \in 1..Writes[r] : log'[Len(log) + i] = s[i]
        BY ZenonT(30), <2>1, <3>1, Concatenated
      <4>2. by \in Seq(Requests \X Nat) /\ Promise!Batch(r) \in Seq(Requests \X Nat)
        <5>1. \A i \in 1..Len(log) : log[i].by \in Requests \X Nat
          <6>1. \A x \in Entries : x.by \in Requests \X Nat
            BY DEF Entries
          <6> QED
            BY <2>1, <6>1
        <5> QED
          BY SMTT(30), <2>1, <3>2, <5>1 DEF Promise!Batch
      <4>3. /\ right = [i \in 1..(Len(log) + Writes[r]) |->
                          IF i <= Len(log) THEN log[i].by ELSE <<r, i - Len(log)>>]
        <5>1. Len(Promise!Batch(r)) = Writes[r]
          BY <3>2 DEF Promise!Batch
        <5> QED
          BY <2>1, <3>2, <4>2, <5>1 DEF Promise!Batch
      <4>4. left = [i \in 1..(Len(log) + Writes[r]) |-> log'[i].by]
        BY <4>1
      <4>5. ASSUME NEW i \in 1..(Len(log) + Writes[r])
            PROVE  log'[i].by = IF i <= Len(log) THEN log[i].by ELSE <<r, i - Len(log)>>
        <5>1. CASE i <= Len(log)
          <6>1. i \in 1..Len(log)
            BY <2>1, <3>2, <5>1
          <6> QED
            BY <4>1, <5>1, <6>1
        <5>2. CASE i > Len(log)
          <6>1. i - Len(log) \in 1..Writes[r] /\ i = Len(log) + (i - Len(log))
            BY <2>1, <3>2, <5>2
          <6>2. log'[i] = s[i - Len(log)]
            BY <4>1, <6>1
          <6>3. s[i - Len(log)].by = <<r, i - Len(log)>>
            BY <3>1, <6>1
          <6>4. ~(i <= Len(log))
            BY <2>1, <3>2, <5>2
          <6> QED
            BY <6>2, <6>3, <6>4
        <5>3. i \in Nat
          BY <2>1, <3>2
        <5> QED
          BY <2>1, <5>1, <5>2, <5>3
      <4> QED
        BY <4>3, <4>4, <4>5
    <3> QED
      BY <3>3, <3>4 DEF Promise!Record
  <2>3. CASE Next /\ \A r \in Requests : ~Commit(r) /\ ~Insert(r)
    BY <2>3, OtherSteps
  <2>4. CASE UNCHANGED vars
    BY <2>4 DEF vars
  <2> QED
    BY <2>2, <2>3, <2>4 DEF Promise!Next
<1> QED
  BY SpecInv, EvidenceAlwaysMatches, <1>1, <1>2, PTL DEF Spec, ImplementsAuditLog, Promise!Spec
===============================================================================
