------------------------------- MODULE FourEyes -------------------------------
(***************************************************************************)
(* What change control promises about the content that decides assessments: *)
(* only what one person wrote and another one reviewed takes effect, as it   *)
(* was when it was reviewed; a batch takes effect as a whole and once.       *)
(* ChangeControl shows how hard rules and datasets keep the promise.        *)
(***************************************************************************)
CONSTANTS
  Keys,       \* what there can be content for
  Contents,   \* what it can say
  Batches,    \* content that is reviewed and takes effect together
  People

VARIABLES
  live,      \* live[k]: the piece in effect for k, as a set of one piece or none
  pending,   \* pending[k]: the piece that was reviewed and waits
  batch      \* batch[b]: whether it was reviewed, and its pieces

eyesVars == <<live, pending, batch>>

Piece(content, author, reviewer) == [content |-> content, author |-> author, reviewer |-> reviewer]
NoBatch(status) == [status |-> status, pieces |-> <<>>]

Init ==
  /\ live = [k \in Keys |-> {}]
  /\ pending = [k \in Keys |-> {}]
  /\ batch = [b \in Batches |-> NoBatch("unreviewed")]

\* Another person than the author reviews a piece, which from then on waits as it is.
Review(k) ==
  /\ pending[k] = {}
  /\ \E c \in Contents, a, b \in People :
       a # b /\ pending' = [pending EXCEPT ![k] = {Piece(c, a, b)}]
  /\ UNCHANGED <<live, batch>>

Release(k) ==
  /\ pending[k] # {}
  /\ live' = [live EXCEPT ![k] = pending[k]]
  /\ pending' = [pending EXCEPT ![k] = {}]
  /\ UNCHANGED batch

\* A change to what waits takes the review back.
Withdraw(k) ==
  /\ pending' = [pending EXCEPT ![k] = {}]
  /\ UNCHANGED <<live, batch>>

Retire(k) ==
  /\ live' = [live EXCEPT ![k] = {}]
  /\ UNCHANGED <<pending, batch>>

ReviewBatch(b) ==
  /\ batch[b].status = "unreviewed"
  /\ \E a, r \in People, K \in SUBSET Keys : \E pieces \in [K -> {Piece(c, a, r) : c \in Contents}] :
       a # r /\ batch' = [batch EXCEPT ![b] = [status |-> "reviewed", pieces |-> pieces]]
  /\ UNCHANGED <<live, pending>>

\* Every piece of the batch takes effect, whatever waits for the same keys.
ReleaseBatch(b) ==
  /\ batch[b].status = "reviewed"
  /\ LET pieces == batch[b].pieces IN
     /\ live'    = [k \in Keys |-> IF k \in DOMAIN pieces THEN {pieces[k]} ELSE live[k]]
     /\ pending' = [k \in Keys |-> IF k \in DOMAIN pieces THEN {} ELSE pending[k]]
  /\ batch' = [batch EXCEPT ![b] = NoBatch("closed")]

\* The batch is given up, and none of it takes effect.
CloseBatch(b) ==
  /\ batch[b].status = "reviewed"
  /\ batch' = [batch EXCEPT ![b] = NoBatch("closed")]
  /\ UNCHANGED <<live, pending>>

Next ==
  \/ \E k \in Keys : Review(k) \/ Release(k) \/ Withdraw(k) \/ Retire(k)
  \/ \E b \in Batches : ReviewBatch(b) \/ ReleaseBatch(b) \/ CloseBatch(b)

Spec == Init /\ [][Next]_eyesVars
===============================================================================
