------------------------------- MODULE AuditLog -------------------------------
(***************************************************************************)
(* What the audit trail of one tenant promises its callers: a log that only *)
(* grows, in which the entries of one request stand together, in the order  *)
(* the request wrote them, once, or not at all.  AuditChain shows how       *)
(* audit.write and withMongoTransaction keep the promise on MongoDB.        *)
(***************************************************************************)
EXTENDS Naturals, Sequences

CONSTANTS
  Requests,     \* the requests that write audit entries for the tenant
  Writes        \* Writes[r]: how many entries request r writes

VARIABLE entries   \* the log: a sequence of <<request, index of the entry in it>>

Recorded(r) == \E i \in 1..Len(entries) : entries[i][1] = r

Batch(r) == [j \in 1..Writes[r] |-> <<r, j>>]

Init == entries = <<>>

Record(r) ==
  /\ ~Recorded(r)
  /\ entries' = entries \o Batch(r)

Next == \E r \in Requests : Record(r)

Spec == Init /\ [][Next]_entries
===============================================================================
