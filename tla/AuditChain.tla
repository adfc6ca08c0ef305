------------------------------ MODULE AuditChain ------------------------------
(***************************************************************************)
(* The hash-chained audit log of one tenant (modules/audit/service.ts) and  *)
(* the transaction wrapper every audited mutation runs in (lib/db.ts).      *)
(*                                                                         *)
(* A request either writes one entry outside a transaction (an access       *)
(* denial, an unmask) or runs withMongoTransaction around a unit of work    *)
(* that calls audit.write one or more times.  Requests run on several       *)
(* server processes; each process chains its audit.write calls on a promise *)
(* ("tails"), MongoDB keeps {tenantId, seq} unique and gives a transaction  *)
(* a snapshot.  Chains of different tenants share nothing, so one tenant is *)
(* modelled.                                                               *)
(***************************************************************************)
EXTENDS Integers, Sequences

CONSTANTS
  Instances,      \* the server processes
  Requests,       \* the requests that write audit entries
  Transactional,  \* those that run inside withMongoTransaction
  Home,           \* Home[r]: the process that serves r
  Writes,         \* Writes[r]: the audit.write calls of r (one outside a transaction)
  MaxAttempts,    \* tries of one audit.write outside a transaction (3 in the code)
  MaxReplays      \* TRANSACTION_COLLISION_ATTEMPTS (4 in the code)

ASSUME ConstantsOK ==
  /\ Transactional \subseteq Requests
  /\ Home \in [Requests -> Instances]
  /\ Writes \in [Requests -> Nat \ {0}]
  /\ \A r \in Requests \ Transactional : Writes[r] = 1
  /\ MaxAttempts \in Nat \ {0}
  /\ MaxReplays \in Nat \ {0}

VARIABLES
  log,      \* the committed entries, in the order they were committed
  open,     \* the transactions the server holds open
  snap,     \* snap[r]: how much of the log the snapshot of r's transaction holds
  mine,     \* mine[r]: the entries r's open transaction inserted, not yet committed
  tail,     \* tail[i]: the audit.write calls chained on process i, the running one first
  cand,     \* cand[r]: seq and prevHash of the entry r is about to insert
  attempt,  \* attempt[r]: failed tries of r's current audit.write
  replay,   \* replay[r]: replays of r's transaction caused by a sequence collision
  pc        \* pc[r]: where request r is

vars == <<log, open, snap, mine, tail, cand, attempt, replay, pc>>

-------------------------------------------------------------------------------
(* Entries and the chain *)

\* An ideal SHA-256: the digest of an entry is the history it commits to.
HashOf(seq, by, prev) == Append(prev, <<seq, by>>)
Digests == Seq(Nat \X (Requests \X Nat))
Genesis == [seq |-> 0, hash |-> <<>>]
NoCand  == [seq |-> 0, prev |-> <<>>]
Entries == [seq : Nat, by : Requests \X Nat, prev : Digests, hash : Digests]

EntryOf(r, j) ==
  [seq  |-> cand[r].seq, by |-> <<r, j>>, prev |-> cand[r].prev,
   hash |-> HashOf(cand[r].seq, <<r, j>>, cand[r].prev)]

\* findOne({tenantId}).sort({seq: -1})
Newest(entries) ==
  IF entries = <<>> THEN Genesis
  ELSE entries[CHOOSE i \in DOMAIN entries :
                 \A j \in DOMAIN entries : entries[j].seq <= entries[i].seq]

\* Mutation: reads inside a transaction see the latest commits, not the snapshot.
ViewLocal(r) == log \o mine[r]

\* What a read of request r sees: the snapshot and its own inserts, or the latest commits.
View(r) ==
  IF r \in Transactional THEN SubSeq(log, 1, snap[r]) \o mine[r] ELSE log

\* Mutation: no unique {tenantId, seq} index.
TakenUnindexed(n) == FALSE

\* The unique index: seq n is committed, or inserted by another open transaction.
Taken(n)   == \E i \in DOMAIN log : log[i].seq = n
Held(n, r) == \E t \in open \ {r} : \E j \in DOMAIN mine[t] : mine[t][j].seq = n

-------------------------------------------------------------------------------
(* Steps of a request *)

Active  == {"start", "work", "tail", "read"}
Settled == {"done", "failed", "crashed"}

Init ==
  /\ log     = <<>>
  /\ open    = {}
  /\ snap    = [r \in Requests |-> 0]
  /\ mine    = [r \in Requests |-> <<>>]
  /\ tail    = [i \in Instances |-> <<>>]
  /\ cand    = [r \in Requests |-> NoCand]
  /\ attempt = [r \in Requests |-> 0]
  /\ replay  = [r \in Requests |-> 0]
  /\ pc      = [r \in Requests |-> "start"]

\* Mutation: no finally, so a failed write leaves the next one waiting on it.
NeverRelease(r) == tail' = tail

\* audit.write settles and the next write chained on the process runs.
Release(r) == tail' = [tail EXCEPT ![Home[r]] = Tail(@)]

\* connection.transaction starts a transaction and runs the callback.
Begin(r) ==
  /\ r \in Transactional
  /\ pc[r] = "start"
  /\ open' = open \cup {r}
  /\ snap' = [snap EXCEPT ![r] = Len(log)]
  /\ pc'   = [pc EXCEPT ![r] = "work"]
  /\ UNCHANGED <<log, mine, tail, cand, attempt, replay>>

\* A call of audit.write: chained behind the calls its process already has.
Call(r) ==
  /\ IF r \in Transactional
       THEN pc[r] = "work" /\ Len(mine[r]) < Writes[r]
       ELSE pc[r] = "start"
  /\ tail' = [tail EXCEPT ![Home[r]] = Append(@, r)]
  /\ pc'   = [pc EXCEPT ![r] = "tail"]
  /\ UNCHANGED <<log, open, snap, mine, cand, attempt, replay>>

Runs(r) == pc[r] = "tail" /\ tail[Home[r]] # <<>> /\ Head(tail[Home[r]]) = r

\* run(): read the newest entry and prepare its successor.
ReadLast(r) ==
  /\ Runs(r)
  /\ r \in Transactional => r \in open
  /\ LET last == Newest(View(r))
     IN  cand' = [cand EXCEPT ![r] = [seq |-> last.seq + 1, prev |-> last.hash]]
  /\ pc' = [pc EXCEPT ![r] = "read"]
  /\ UNCHANGED <<log, open, snap, mine, tail, attempt, replay>>

\* The server has ended the transaction: the read fails as a transient error and
\* the driver runs the callback again from a fresh transaction.
ReadFails(r) ==
  /\ Runs(r)
  /\ r \in Transactional \ open
  /\ Release(r)
  /\ pc' = [pc EXCEPT ![r] = "start"]
  /\ UNCHANGED <<log, open, snap, mine, cand, attempt, replay>>

\* Mutation: the insert does not join the transaction of its caller.
InsertDetached(r) ==
  /\ r \in Transactional
  /\ pc[r] = "read"
  /\ ~Taken(cand[r].seq) /\ ~Held(cand[r].seq, r)
  /\ log'  = Append(log, EntryOf(r, Len(mine[r]) + 1))
  /\ mine' = [mine EXCEPT ![r] = Append(@, EntryOf(r, Len(@) + 1))]
  /\ cand' = [cand EXCEPT ![r] = NoCand]
  /\ Release(r)
  /\ pc' = [pc EXCEPT ![r] = "work"]
  /\ UNCHANGED <<open, snap, attempt, replay>>

\* AuditLogModel.create inside a transaction.
InsertInTransaction(r) ==
  /\ r \in Transactional
  /\ pc[r] = "read"
  /\ ~Taken(cand[r].seq) /\ ~Held(cand[r].seq, r)
  /\ mine' = [mine EXCEPT ![r] = Append(@, EntryOf(r, Len(@) + 1))]
  /\ cand' = [cand EXCEPT ![r] = NoCand]
  /\ Release(r)
  /\ pc' = [pc EXCEPT ![r] = "work"]
  /\ UNCHANGED <<log, open, snap, attempt, replay>>

\* A transaction that lost the sequence number is aborted with all it wrote.
Abort(r) ==
  /\ open' = open \ {r}
  /\ snap' = [snap EXCEPT ![r] = 0]
  /\ mine' = [mine EXCEPT ![r] = <<>>]
  /\ cand' = [cand EXCEPT ![r] = NoCand]
  /\ Release(r)
  /\ UNCHANGED <<log, attempt>>

Loses(r) ==
  /\ r \in Transactional
  /\ pc[r] = "read"
  /\ Taken(cand[r].seq) \/ Held(cand[r].seq, r)

\* MongoDB reports a write conflict: the driver replays the callback by itself.
LoseTransient(r) ==
  /\ Loses(r)
  /\ Abort(r)
  /\ pc' = [pc EXCEPT ![r] = "start"]
  /\ UNCHANGED replay

\* MongoDB reports the duplicate key: RetryableTransactionCollisionError, replayed
\* by withMongoTransaction a bounded number of times.
Collide(r) ==
  /\ Loses(r)
  /\ Taken(cand[r].seq)
  /\ Abort(r)
  /\ IF replay[r] + 1 < MaxReplays
       THEN /\ replay' = [replay EXCEPT ![r] = @ + 1]
            /\ pc' = [pc EXCEPT ![r] = "start"]
       ELSE /\ pc' = [pc EXCEPT ![r] = "failed"]
            /\ UNCHANGED replay

\* AuditLogModel.create outside a transaction.  While another transaction holds the
\* number the insert waits in the server: neither this action nor Duplicate is enabled.
Insert(r) ==
  /\ r \notin Transactional
  /\ pc[r] = "read"
  /\ ~Taken(cand[r].seq) /\ ~Held(cand[r].seq, r)
  /\ log'  = Append(log, EntryOf(r, 1))
  /\ cand' = [cand EXCEPT ![r] = NoCand]
  /\ Release(r)
  /\ pc' = [pc EXCEPT ![r] = "done"]
  /\ UNCHANGED <<open, snap, mine, attempt, replay>>

\* Mutation: the last failed try is reported as a success.
DuplicateSwallowed(r) ==
  /\ r \notin Transactional
  /\ pc[r] = "read"
  /\ Taken(cand[r].seq)
  /\ cand' = [cand EXCEPT ![r] = NoCand]
  /\ attempt' = [attempt EXCEPT ![r] = IF @ + 1 < MaxAttempts THEN @ + 1 ELSE @]
  /\ pc' = [pc EXCEPT ![r] = IF attempt[r] + 1 < MaxAttempts THEN "tail" ELSE "done"]
  /\ IF attempt[r] + 1 < MaxAttempts THEN UNCHANGED tail ELSE Release(r)
  /\ UNCHANGED <<log, open, snap, mine, replay>>

\* The duplicate key of a write outside a transaction: read again, a bounded number of times.
Duplicate(r) ==
  /\ r \notin Transactional
  /\ pc[r] = "read"
  /\ Taken(cand[r].seq)
  /\ cand' = [cand EXCEPT ![r] = NoCand]
  /\ IF attempt[r] + 1 < MaxAttempts
       THEN /\ attempt' = [attempt EXCEPT ![r] = @ + 1]
            /\ pc' = [pc EXCEPT ![r] = "tail"]
            /\ UNCHANGED tail
       ELSE /\ pc' = [pc EXCEPT ![r] = "failed"]
            /\ Release(r)
            /\ UNCHANGED attempt
  /\ UNCHANGED <<log, open, snap, mine, replay>>

\* The callback has returned: everything it wrote becomes visible at once.
Commit(r) ==
  /\ r \in open
  /\ pc[r] = "work"
  /\ Len(mine[r]) = Writes[r]
  /\ log'  = log \o mine[r]
  /\ open' = open \ {r}
  /\ snap' = [snap EXCEPT ![r] = 0]
  /\ mine' = [mine EXCEPT ![r] = <<>>]
  /\ pc'   = [pc EXCEPT ![r] = "done"]
  /\ UNCHANGED <<tail, cand, attempt, replay>>

-------------------------------------------------------------------------------
(* The environment *)

\* r has called audit.write again, and the write its process runs before it waits in
\* the server for the number r's own transaction holds.
Stalled(r) ==
  /\ pc[r] = "tail"
  /\ LET w == Head(tail[Home[r]])
     IN  /\ w \notin Transactional
         /\ pc[w] = "read"
         /\ \E j \in DOMAIN mine[r] : mine[r][j].seq = cand[w].seq

\* transactionLifetimeLimitSeconds: the server ends a transaction that no longer moves.
Expire(r) ==
  /\ r \in open
  /\ pc[r] = "crashed" \/ Stalled(r)
  /\ open' = open \ {r}
  /\ snap' = [snap EXCEPT ![r] = 0]
  /\ mine' = [mine EXCEPT ![r] = <<>>]
  /\ UNCHANGED <<log, tail, cand, attempt, replay, pc>>

\* A process dies with the requests it serves; the server still holds their transactions.
Crash(i) ==
  /\ \E r \in Requests : Home[r] = i /\ pc[r] \in Active
  /\ pc'   = [r \in Requests |-> IF Home[r] = i /\ pc[r] \in Active THEN "crashed" ELSE pc[r]]
  /\ cand' = [r \in Requests |-> IF Home[r] = i THEN NoCand ELSE cand[r]]
  /\ tail' = [tail EXCEPT ![i] = <<>>]
  /\ UNCHANGED <<log, open, snap, mine, attempt, replay>>

Progress(r) ==
  \/ Begin(r) \/ Call(r) \/ ReadLast(r) \/ ReadFails(r)
  \/ InsertInTransaction(r) \/ LoseTransient(r) \/ Collide(r) \/ Commit(r)
  \/ Insert(r) \/ Duplicate(r)

Next ==
  \/ \E r \in Requests : Progress(r) \/ Expire(r)
  \/ \E i \in Instances : Crash(i)

\* A process keeps running its event loop, the server answers, and a transaction past
\* its lifetime is ended.  Crashes are not fair.
Spec ==
  /\ Init /\ [][Next]_vars
  /\ \A r \in Requests : WF_vars(Progress(r)) /\ WF_vars(Expire(r))

-------------------------------------------------------------------------------
(* The check of the chain *)

\* verify: the entries in the order of seq, each against its place, its predecessor and its content.
verify ==
  \A i \in 1..Len(log) :
    /\ log[i].seq = i
    /\ log[i].prev = IF i = 1 THEN Genesis.hash ELSE log[i - 1].hash
    /\ log[i].hash = HashOf(log[i].seq, log[i].by, log[i].prev)

-------------------------------------------------------------------------------
(* Properties *)

\* The types of the variables; the two retry counters stay below the limits of
\* audit.write's loop and of withMongoTransaction's.
TypeOK ==
  /\ log \in Seq(Entries)
  /\ open \subseteq Transactional
  /\ snap \in [Requests -> Nat]
  /\ mine \in [Requests -> Seq(Entries)]
  /\ tail \in [Instances -> Seq(Requests)]
  /\ cand \in [Requests -> [seq : Nat, prev : Digests]]
  /\ attempt \in [Requests -> 0..(MaxAttempts - 1)]
  /\ replay \in [Requests -> 0..(MaxReplays - 1)]
  /\ pc \in [Requests -> Active \cup Settled]

\* audit.verify never finds a broken entry, whatever races, aborts and crashes the
\* writers went through: seq counts from 1 without a gap, each entry carries the hash
\* of the one before it and the hash of its own content.
ChainVerifies == verify

\* An audited transaction commits only if no entry of its tenant was committed since its
\* snapshot: the unique seq makes the audited mutations of a tenant run one after the
\* other, which snapshot isolation alone does not.  The other modules of this project
\* rely on it when they take such a transaction as one step.
CommitsOnCurrentSnapshot ==
  [][\A r \in Transactional : pc[r] = "work" /\ pc'[r] = "done" => snap[r] = Len(log)]_vars

\* A request that reports success left its evidence, and one that reports failure or
\* died left none: no entry without its mutation and no mutation without its entry.
EvidenceMatchesOutcome ==
  \A r \in Requests : (pc[r] = "done") <=> (\E i \in DOMAIN log : log[i].by[1] = r)

\* The log refines AuditLog: it only grows, by one whole request at a time.
Promise == INSTANCE AuditLog WITH entries <- [i \in 1..Len(log) |-> log[i].by]
ImplementsAuditLog == Promise!Spec

\* Every request settles: the promise chain of a process never stops for good, even
\* when a write outside a transaction waits for a number whose transaction waits for it.
EverySettles == \A r \in Requests : <>(pc[r] \in Settled)

\* The comment on "tails": "so seq/prevHash never race on a single instance".  The
\* running write of a process never finds its number taken or held by that process.
NoRaceOnOneInstance ==
  \A r \in Requests :
    pc[r] = "read" =>
      ~ \E t \in open \ {r} :
          Home[t] = Home[r] /\ \E j \in DOMAIN mine[t] : mine[t][j].seq = cand[r].seq
===============================================================================
