-------------------------- MODULE ServerPushProofs --------------------------
(***************************************************************************)
(* Proofs about ServerPush, for any revisions, lineages, batches, number   *)
(* of concurrent requests, pool size and sequence bound.                   *)
(***************************************************************************)
EXTENDS ServerPush, TLAPS

(* What the constants give for one revision.                               *)
LEMMA RevisionTypes ==
  ASSUME NEW r \in RevisionId
  PROVE  /\ object_id[r] \in ObjectId
         /\ created_by[r] \in ClientId
         /\ lineage[r] \in Seq(RevisionId)
         /\ Parents(r) \subseteq RevisionId
         /\ HeadRow(r) \in Row
BY RevisionAssumption DEF Parents, HeadRow, Row

LEMMA NoClientType == NoClient \in ClientId
BY RevisionAssumption DEF NoClient

(* The revision under the loop index is a revision.                        *)
LEMMA RevType ==
  ASSUME TypeOK, NEW q \in Request, ~AtEnd(q)
  PROVE  rev(q) \in RevisionId
BY DEF TypeOK, AtEnd, rev

(* The type invariant alone is not inductive: that "parents" and "heads"   *)
(* are only reached inside the loop is part of it.                         *)
InLoop == \A q \in Request : pc[q] \in {"parents", "heads"} => ~AtEnd(q)

LEMMA RejectType ==
  ASSUME TypeOK, InLoop, NEW q \in Request, ~AtEnd(q),
         NEW reason \in RejectionReason, Reject(q, reason)
  PROVE  TypeOK' /\ InLoop'
<1>1. [revision_id |-> rev(q), reason |-> reason] \in RejectedRevision
  BY RevType DEF RejectedRevision
<1>2. TypeOK'
  BY <1>1 DEF TypeOK, Reject, Goto, NextRevision, PC, storeVars, request, writes
<1> QED BY <1>2 DEF TypeOK, InLoop, Reject, Goto, AtEnd, NextRevision, request

LEMMA RollbackType ==
  ASSUME TypeOK, InLoop, NEW q \in Request, Rollback(q)
  PROVE  TypeOK' /\ InLoop'
BY DEF TypeOK, InLoop, Rollback, ForgetWrites, Goto, PC, AtEnd, storeVars, request

LEMMA TypeStep == TypeOK /\ InLoop /\ [Next]_vars => TypeOK' /\ InLoop'
<1> SUFFICES ASSUME TypeOK, InLoop, [Next]_vars PROVE TypeOK' /\ InLoop'
  OBVIOUS
<1> USE DEF TypeOK, InLoop, Goto, NextRevision, PC, AtEnd, storeVars, request, writes
<1>1. ASSUME NEW q \in Request, NEW c \in ClientId, NEW b \in Batch, Receive(q, c, b)
      PROVE TypeOK' /\ InLoop'
  BY <1>1, ServerPushAssumption DEF Receive
<1>2. ASSUME NEW q \in Request, RejectForeign(q) PROVE TypeOK' /\ InLoop'
  BY <1>2, RejectType DEF RejectForeign, RejectionReason
<1>3. ASSUME NEW q \in Request, RejectExisting(q) PROVE TypeOK' /\ InLoop'
  BY <1>3, RejectType DEF RejectExisting, RejectionReason
<1>4. ASSUME NEW q \in Request, PassExists(q) PROVE TypeOK' /\ InLoop'
  BY <1>4 DEF PassExists
<1>5. ASSUME NEW q \in Request, RejectRepeatedParent(q) PROVE TypeOK' /\ InLoop'
  BY <1>5, RejectType DEF RejectRepeatedParent, RejectionReason
<1>6. ASSUME NEW q \in Request, RejectParent(q) PROVE TypeOK' /\ InLoop'
  BY <1>6, RejectType DEF RejectParent, RejectionReason
<1>7. ASSUME NEW q \in Request, Accept(q) PROVE TypeOK' /\ InLoop'
  BY <1>7, RevType DEF Accept
<1>8. ASSUME NEW q \in Request, RespondNothingAccepted(q) PROVE TypeOK' /\ InLoop'
  BY <1>8 DEF RespondNothingAccepted
<1>9. ASSUME NEW q \in Request, BeginTransaction(q) PROVE TypeOK' /\ InLoop'
  BY <1>9 DEF BeginTransaction
<1>10. ASSUME NEW q \in Request, SkipRejected(q) PROVE TypeOK' /\ InLoop'
  BY <1>10 DEF SkipRejected
<1>11. ASSUME NEW q \in Request, InsertRevision(q) PROVE TypeOK' /\ InLoop'
  BY <1>11, RevType DEF InsertRevision, Inserting
<1>12. ASSUME NEW q \in Request, InsertViolation(q) PROVE TypeOK' /\ InLoop'
  BY <1>12, RollbackType DEF InsertViolation
<1>13. ASSUME NEW q \in Request, NEW row \in Row, DeleteHead(q, row) PROVE TypeOK' /\ InLoop'
  BY <1>13 DEF DeleteHead
<1>14. ASSUME NEW q \in Request, InsertHead(q) PROVE TypeOK' /\ InLoop'
  BY <1>14, RevType, RevisionTypes DEF InsertHead
<1>15. ASSUME NEW q \in Request, CreateTransaction(q) PROVE TypeOK' /\ InLoop'
  BY <1>15, ServerPushAssumption DEF CreateTransaction
<1>16. ASSUME NEW q \in Request, SequenceExhausted(q) PROVE TypeOK' /\ InLoop'
  BY <1>16, RollbackType DEF SequenceExhausted
<1>17. ASSUME NEW q \in Request, NEW end \in {"answered", "failed"}, Commit(q, end)
       PROVE TypeOK' /\ InLoop'
  <2>1. LogEntry(q) \in Transaction
    BY DEF LogEntry, Transaction
  <2> QED BY <1>17, <2>1 DEF Commit, ForgetWrites
<1>18. ASSUME NEW q \in Request, Fail(q) PROVE TypeOK' /\ InLoop'
  BY <1>18, RollbackType DEF Fail
<1>19. ASSUME NEW q \in Request, DeadlockVictim(q) PROVE TypeOK' /\ InLoop'
  BY <1>19, RollbackType DEF DeadlockVictim
<1>20. ASSUME NEW q \in Request, Finish(q) PROVE TypeOK' /\ InLoop'
  BY <1>20, NoClientType DEF Finish
<1>21. CASE UNCHANGED vars
  BY <1>21 DEF vars
<1> QED
  BY <1>1, <1>2, <1>3, <1>4, <1>5, <1>6, <1>7, <1>8, <1>9, <1>10, <1>11, <1>12, <1>13,
     <1>14, <1>15, <1>16, <1>17, <1>18, <1>19, <1>20, <1>21 DEF Next, Step

(* Every variable of the push handlers keeps its type.                     *)
THEOREM TypeCorrect == Spec => []TypeOK
<1>1. Init => TypeOK /\ InLoop
  BY NoClientType, ServerPushAssumption DEF Init, TypeOK, InLoop, PC
<1> QED BY <1>1, TypeStep, PTL DEF Spec
-----------------------------------------------------------------------------
(***************************************************************************)
(* The inductive invariant.  The committed tables say too little: that a   *)
(* commit keeps them consistent rests on what every open transaction has   *)
(* written so far and on what the locks keep others from writing.          *)
(***************************************************************************)
Validating(q) == pc[q] \in {"exists", "parents"}

(* Revisions of the open transaction whose head rows are in place.         *)
Headed(q) == IF pc[q] = "heads" THEN ins[q] \ {rev(q)} ELSE ins[q]

(* Handler locals: what is accepted has been seen in the batch, is the     *)
(* client's own and well formed.                                           *)
LocalsOK(q) ==
  /\ pc[q] = "idle" => pos[q] = 1 /\ accepted[q] = {} /\ rejected[q] = {}
  /\ pc[q] = "parents" => created_by[rev(q)] = client[q]
  /\ \A r \in accepted[q] :
       /\ created_by[r] = client[q]
       /\ SameObject(r)
       /\ r \notin Parents(r)
  /\ Validating(q) =>
       \A r \in accepted[q] : \E i \in DOMAIN batch[q] : batch[q][i] = r

(* The open transaction: its inserts are new and come after their parents; *)
(* at commit they are all of what was accepted.                            *)
InsertsOK(q) ==
  /\ ~InTransaction(q) => ins[q] = {} /\ del[q] = {} /\ add[q] = {}
  /\ ins[q] \subseteq accepted[q]
  /\ ins[q] \cap revisions = {}
  /\ \A r \in ins[q] : Parents(r) \subseteq revisions \cup ins[q]
  /\ InTransaction(q) =>
       /\ accepted[q] # {}
       /\ \A r \in accepted[q] \ ins[q] :
            \E i \in DOMAIN batch[q] : i >= pos[q] /\ batch[q][i] = r
  /\ pc[q] = "heads" => rev(q) \in ins[q] /\ \A s \in ins[q] : rev(q) \notin Parents(s)
  /\ pc[q] = "commit" => accepted[q] \subseteq ins[q]

(* Its head rows: the new ones are the frontier of its inserts, and the    *)
(* deleted ones are exactly the committed heads its inserts supersede.     *)
HeadWritesOK(q) ==
  /\ add[q] = Frontier(Headed(q))
  /\ del[q] \subseteq object_heads
  /\ \A row \in del[q] : \E s \in ins[q] : row[2] \in Parents(s)
  /\ \A s \in Headed(q) : \A p \in Parents(s) :
       HeadRow(p) \in object_heads => HeadRow(p) \in del[q]

(* The unique index and the row locks keep open transactions apart.        *)
Apart(p, q) ==
  p # q => /\ ins[p] \cap ins[q] = {}
           /\ del[p] \cap del[q] = {}
           /\ pc[p] = "commit" /\ pc[q] = "commit" => txid[p] # txid[q]

(* An id drawn and not yet committed is unused, and larger than the ids    *)
(* under which the parents were committed.                                 *)
DrawnOK(q) ==
  pc[q] = "commit" =>
    /\ txid[q] \in 1 .. txn_seq
    /\ \A u \in transactions :
         /\ u.id # txid[q]
         /\ \A r \in ins[q] : Parents(r) \cap u.revision_ids # {} => u.id < txid[q]

GraphOK ==
  /\ \A r \in revisions : Parents(r) \subseteq revisions /\ SameObject(r) /\ r \notin Parents(r)
  /\ HeadsAreFrontier

LogOK ==
  /\ \A t \in transactions : t.id \in 1 .. txn_seq
  /\ EveryRevisionLogged
  /\ CausalTransactions

IInv ==
  /\ TypeOK /\ InLoop
  /\ GraphOK /\ LogOK
  /\ \A q \in Request : LocalsOK(q) /\ InsertsOK(q) /\ HeadWritesOK(q) /\ DrawnOK(q)
  /\ \A p, q \in Request : Apart(p, q)
-----------------------------------------------------------------------------
(* Facts about frontiers and head rows.                                    *)
LEMMA FrontierEmpty == Frontier({}) = {}
BY DEF Frontier

LEMMA InFrontier ==
  ASSUME NEW S, NEW r
  PROVE  HeadRow(r) \in Frontier(S) <=> r \in S /\ \A s \in S : r \notin Parents(s)
BY DEF Frontier, HeadRow

(* The rows update_heads deletes are the parents' head rows.               *)
LEMMA ParentRowsOfSameObject ==
  ASSUME NEW r, SameObject(r)
  PROVE  ParentRows(r) = {HeadRow(p) : p \in Parents(r)}
BY DEF SameObject, ParentRows, HeadRow

(* One insert followed by update_heads moves the frontier by one revision. *)
LEMMA FrontierInsert ==
  ASSUME NEW S, NEW r, r \notin S, SameObject(r),
         \A s \in S \cup {r} : r \notin Parents(s)
  PROVE  Frontier(S \cup {r}) = (Frontier(S) \ ParentRows(r)) \cup {HeadRow(r)}
<1>1. ParentRows(r) = {HeadRow(p) : p \in Parents(r)}
  BY ParentRowsOfSameObject
<1>2. \A x : HeadRow(x) \in ParentRows(r) <=> x \in Parents(r)
  BY <1>1 DEF HeadRow
<1> QED BY <1>2 DEF Frontier, HeadRow

(* A commit merges two frontiers, less the committed heads that the new    *)
(* revisions supersede.                                                    *)
LEMMA FrontierUnion ==
  ASSUME NEW R, NEW I, NEW D, R \cap I = {},
         \A r \in R : Parents(r) \subseteq R,
         D \subseteq Frontier(R),
         \A row \in D : \E s \in I : row[2] \in Parents(s),
         \A s \in I : \A p \in Parents(s) : HeadRow(p) \in Frontier(R) => HeadRow(p) \in D
  PROVE  Frontier(R \cup I) = (Frontier(R) \ D) \cup Frontier(I)
<1>1. \A x : HeadRow(x)[2] = x
  BY DEF HeadRow
<1>2. ASSUME NEW x \in R
      PROVE HeadRow(x) \in Frontier(R \cup I) <=> HeadRow(x) \in Frontier(R) \ D
  BY <1>1, <1>2, InFrontier
<1>3. ASSUME NEW x \in I
      PROVE HeadRow(x) \in Frontier(R \cup I) <=> HeadRow(x) \in Frontier(I)
  BY <1>3, InFrontier
<1>4. ASSUME NEW S, NEW row \in Frontier(S) PROVE \E x \in S : row = HeadRow(x)
  BY <1>4 DEF Frontier
<1>5. ASSUME NEW row \in Frontier(R \cup I) PROVE row \in (Frontier(R) \ D) \cup Frontier(I)
  <2>1. PICK x \in R \cup I : row = HeadRow(x)
    BY <1>4
  <2> QED BY <1>2, <1>3, <2>1
<1>6. ASSUME NEW row \in Frontier(R) \ D PROVE row \in Frontier(R \cup I)
  <2>1. PICK x \in R : row = HeadRow(x)
    BY <1>4
  <2> QED BY <1>2, <2>1
<1>7. ASSUME NEW row \in Frontier(I) PROVE row \in Frontier(R \cup I)
  <2>1. PICK x \in I : row = HeadRow(x)
    BY <1>4
  <2> QED BY <1>3, <2>1
<1> QED BY <1>5, <1>6, <1>7
-----------------------------------------------------------------------------
(* Nothing of slot p changes.                                              *)
SameSlot(p) ==
  /\ pc'[p] = pc[p] /\ client'[p] = client[p] /\ batch'[p] = batch[p] /\ pos'[p] = pos[p]
  /\ accepted'[p] = accepted[p] /\ rejected'[p] = rejected[p] /\ txid'[p] = txid[p]
  /\ ins'[p] = ins[p] /\ del'[p] = del[p] /\ add'[p] = add[p]

SlotOK(q) == LocalsOK(q) /\ InsertsOK(q) /\ HeadWritesOK(q) /\ DrawnOK(q)

(* A step that commits nothing leaves the facts about other slots alone.   *)
LEMMA Frame ==
  ASSUME TypeOK, UNCHANGED storeVars, txn_seq' \in {txn_seq, txn_seq + 1},
         NEW p \in Request, SameSlot(p), SlotOK(p)
  PROVE  SlotOK(p)'
<1> USE DEF SameSlot, SlotOK, storeVars, rev, InTransaction, Validating, Headed
<1>1. LocalsOK(p)'
  BY DEF LocalsOK
<1>2. InsertsOK(p)'
  BY DEF InsertsOK
<1>3. HeadWritesOK(p)'
  BY DEF HeadWritesOK
<1>4. DrawnOK(p)'
  BY DEF DrawnOK, TypeOK
<1> QED BY <1>1, <1>2, <1>3, <1>4

(* So a step of q that commits nothing only has to care for q.             *)
LEMMA LocalStep ==
  ASSUME IInv, TypeOK', InLoop', UNCHANGED storeVars, txn_seq' \in {txn_seq, txn_seq + 1},
         NEW q \in Request, \A p \in Request \ {q} : SameSlot(p),
         SlotOK(q)', \A p \in Request \ {q} : Apart(p, q)'
  PROVE  IInv'
<1>1. GraphOK' /\ LogOK'
  <2>1. GraphOK' /\ EveryRevisionLogged' /\ CausalTransactions'
    BY DEF IInv, GraphOK, LogOK, HeadsAreFrontier, EveryRevisionLogged, CausalTransactions,
           storeVars
  <2>2. \A t \in transactions : t.id \in 1 .. txn_seq /\ t.id \in 1 .. txn_seq'
    BY DEF IInv, TypeOK, LogOK
  <2> QED BY <2>1, <2>2 DEF LogOK, storeVars
<1>2. \A p \in Request : SlotOK(p)'
  BY Frame DEF IInv, SlotOK
<1>3. ASSUME NEW p \in Request, NEW s \in Request PROVE Apart(p, s)'
  <2>1. CASE p # q /\ s # q
    BY <2>1 DEF IInv, Apart, SameSlot
  <2>2. CASE s = q
    BY <2>2 DEF Apart
  <2>3. CASE p = q
    BY <2>3 DEF Apart
  <2> QED BY <2>1, <2>2, <2>3
<1> QED BY <1>1, <1>2, <1>3 DEF IInv, SlotOK
(* Steps of q outside a transaction, and the loop index inside one: the    *)
(* writes stay as they are and no id is drawn.                             *)
LEMMA QuietStep ==
  ASSUME IInv, TypeOK', InLoop', UNCHANGED <<storeVars, txn_seq, txid, writes>>,
         NEW q \in Request, \A p \in Request \ {q} : SameSlot(p),
         pc[q] \notin {"heads", "commit"}, pc'[q] \notin {"heads", "commit"},
         LocalsOK(q)', InsertsOK(q)'
  PROVE  IInv'
<1> USE DEF storeVars, writes
<1>1. HeadWritesOK(q)' /\ DrawnOK(q)'
  BY DEF IInv, HeadWritesOK, DrawnOK, Headed
<1>2. ASSUME NEW p \in Request \ {q} PROVE Apart(p, q)'
  BY <1>2 DEF IInv, Apart
<1> QED BY <1>1, <1>2, LocalStep DEF SlotOK

LEMMA RejectStep ==
  ASSUME IInv, TypeOK', InLoop', NEW q \in Request, Validating(q), NEW reason, Reject(q, reason)
  PROVE  IInv'
<1> USE DEF Reject, Goto, NextRevision, Validating, storeVars, request, writes
<1>1. \A p \in Request \ {q} : SameSlot(p)
  BY DEF SameSlot, IInv, TypeOK
<1>2. pc'[q] = "exists" /\ accepted'[q] = accepted[q] /\ batch'[q] = batch[q] /\ client'[q] = client[q]
  BY DEF IInv, TypeOK
<1>3. LocalsOK(q)'
  BY <1>2 DEF IInv, LocalsOK
<1>4. InsertsOK(q)'
  BY <1>2 DEF IInv, InsertsOK, InTransaction
<1> QED BY <1>1, <1>2, <1>3, <1>4, QuietStep

LEMMA RollbackStep ==
  ASSUME IInv, TypeOK', InLoop', NEW q \in Request, pc[q] # "idle", Rollback(q)
  PROVE  IInv'
<1> USE DEF Rollback, Goto, ForgetWrites, storeVars, request
<1>1. \A p \in Request \ {q} : SameSlot(p)
  BY DEF SameSlot, IInv, TypeOK
<1>2. /\ pc'[q] = "failed" /\ ins'[q] = {} /\ del'[q] = {} /\ add'[q] = {}
      /\ accepted'[q] = accepted[q] /\ client'[q] = client[q]
  BY DEF IInv, TypeOK
<1>3. LocalsOK(q)'
  BY <1>2 DEF IInv, LocalsOK, Validating
<1>4. InsertsOK(q)' /\ DrawnOK(q)'
  BY <1>2 DEF InsertsOK, DrawnOK, InTransaction
<1>5. HeadWritesOK(q)'
  BY <1>2, FrontierEmpty DEF HeadWritesOK, Headed
<1>6. ASSUME NEW p \in Request \ {q} PROVE Apart(p, q)'
  BY <1>2 DEF Apart
<1> QED BY <1>1, <1>3, <1>4, <1>5, <1>6, LocalStep DEF SlotOK

(* Accept: the parents just looked up are known, so they are of the same   *)
(* object and the revision is not its own parent.                          *)
LEMMA AcceptStep ==
  ASSUME IInv, TypeOK', InLoop', NEW q \in Request, Accept(q)
  PROVE  IInv'
<1> USE DEF Accept, Goto, NextRevision, storeVars, request, writes
<1>1. \A p \in Request \ {q} : SameSlot(p)
  BY DEF SameSlot, IInv, TypeOK
<1>2. /\ pc'[q] = "exists" /\ accepted'[q] = accepted[q] \cup {rev(q)}
      /\ batch'[q] = batch[q] /\ client'[q] = client[q]
  BY DEF IInv, TypeOK
<1>3. \A p \in Parents(rev(q)) : p \in Known(q) /\ object_id[p] = object_id[rev(q)]
  BY DEF Parents, BadParent
<1>4. rev(q) \notin Parents(rev(q))
  <2>1. \A r \in Known(q) : r \notin Parents(r)
    BY DEF Known, IInv, GraphOK, LocalsOK
  <2> QED BY <1>3, <2>1
<1>5. \E i \in DOMAIN batch[q] : batch[q][i] = rev(q)
  BY DEF IInv, InLoop, TypeOK, AtEnd, rev
<1>6. LocalsOK(q)'
  <2>1. created_by[rev(q)] = client[q]
    BY DEF IInv, LocalsOK
  <2> QED BY <1>2, <1>3, <1>4, <1>5, <2>1 DEF IInv, LocalsOK, Validating, SameObject
<1>7. InsertsOK(q)'
  BY <1>2 DEF IInv, InsertsOK, InTransaction
<1> QED BY <1>1, <1>2, <1>6, <1>7, QuietStep

(* InsertRevision: the unique index has kept the revision out of every     *)
(* other open transaction, and no revision before it names it as a parent. *)
LEMMA InsertRevisionStep ==
  ASSUME IInv, TypeOK', InLoop', NEW q \in Request, InsertRevision(q)
  PROVE  IInv'
<1> USE DEF InsertRevision, Inserting, Goto, storeVars, request
<1>1. \A p \in Request \ {q} : SameSlot(p)
  BY DEF SameSlot, IInv, TypeOK
<1>2. /\ pc'[q] = "heads" /\ ins'[q] = ins[q] \cup {rev(q)} /\ del'[q] = del[q]
      /\ add'[q] = add[q] /\ accepted'[q] = accepted[q] /\ batch'[q] = batch[q]
      /\ client'[q] = client[q] /\ pos'[q] = pos[q] /\ rev(q)' = rev(q)
  BY DEF IInv, TypeOK, rev
<1>3. /\ rev(q) \notin revisions \cup ins[q]
      /\ Parents(rev(q)) \subseteq revisions \cup ins[q] \cup {rev(q)}
      /\ \A p \in Request \ {q} : rev(q) \notin ins[p]
  BY DEF Violates, InsertWaitsFor
<1>4. rev(q) \notin Parents(rev(q))
  BY DEF IInv, LocalsOK
<1>5. LocalsOK(q)'
  BY <1>2 DEF IInv, LocalsOK, Validating
<1>6. InsertsOK(q)'
  BY <1>2, <1>3, <1>4 DEF IInv, InsertsOK, InTransaction
<1>7. HeadWritesOK(q)'
  <2>1. Headed(q)' = Headed(q)
    BY <1>2, <1>3 DEF Headed
  <2> QED BY <1>2, <2>1 DEF IInv, HeadWritesOK
<1>8. DrawnOK(q)'
  BY <1>2 DEF DrawnOK
<1>9. ASSUME NEW p \in Request \ {q} PROVE Apart(p, q)'
  BY <1>1, <1>2, <1>3 DEF IInv, Apart, SameSlot
<1> QED BY <1>1, <1>5, <1>6, <1>7, <1>8, <1>9, LocalStep DEF SlotOK

(* DeleteHead: the row lock has kept the row out of every other open       *)
(* transaction.                                                            *)
LEMMA DeleteHeadStep ==
  ASSUME IInv, TypeOK', InLoop', NEW q \in Request, NEW row \in Row, DeleteHead(q, row)
  PROVE  IInv'
<1> USE DEF DeleteHead, storeVars, request
<1>1. \A p \in Request \ {q} : SameSlot(p)
  BY DEF SameSlot, IInv, TypeOK
<1>2. /\ pc'[q] = pc[q] /\ ins'[q] = ins[q] /\ del'[q] = del[q] \cup {row}
      /\ add'[q] = add[q] /\ accepted'[q] = accepted[q] /\ batch'[q] = batch[q]
      /\ client'[q] = client[q] /\ pos'[q] = pos[q] /\ rev(q)' = rev(q)
  BY DEF IInv, TypeOK, rev
<1>3. row \in object_heads /\ row[2] \in Parents(rev(q))
  BY DEF RowsToDelete, ParentRows
<1>4. LocalsOK(q)'
  BY <1>2 DEF IInv, LocalsOK, Validating
<1>5. InsertsOK(q)'
  BY <1>2 DEF IInv, InsertsOK, InTransaction
<1>6. HeadWritesOK(q)'
  <2>1. Headed(q)' = Headed(q) /\ rev(q) \in ins[q]
    BY <1>2 DEF Headed, IInv, InsertsOK
  <2> QED BY <1>2, <1>3, <2>1 DEF IInv, HeadWritesOK
<1>7. DrawnOK(q)'
  BY <1>2 DEF DrawnOK
<1>8. ASSUME NEW p \in Request \ {q} PROVE Apart(p, q)'
  BY <1>1, <1>2 DEF IInv, Apart, SameSlot
<1> QED BY <1>1, <1>4, <1>5, <1>6, <1>7, <1>8, LocalStep DEF SlotOK

(* InsertHead: the DELETE has left no committed head row of a parent.      *)
LEMMA InsertHeadStep ==
  ASSUME IInv, TypeOK', InLoop', NEW q \in Request, InsertHead(q)
  PROVE  IInv'
<1> USE DEF InsertHead, Goto, NextRevision, storeVars, request
<1>1. \A p \in Request \ {q} : SameSlot(p)
  BY DEF SameSlot, IInv, TypeOK
<1>2. /\ pc'[q] = "insert" /\ ins'[q] = ins[q] /\ del'[q] = del[q]
      /\ add'[q] = (add[q] \ ParentRows(rev(q))) \cup {HeadRow(rev(q))}
      /\ accepted'[q] = accepted[q] /\ batch'[q] = batch[q]
      /\ client'[q] = client[q] /\ pos'[q] = pos[q] + 1
  BY DEF IInv, TypeOK
<1>3. /\ rev(q) \in ins[q] /\ \A s \in ins[q] : rev(q) \notin Parents(s)
      /\ SameObject(rev(q))
  BY DEF IInv, InsertsOK, LocalsOK
<1>4. LocalsOK(q)'
  BY <1>2 DEF IInv, LocalsOK, Validating
<1>5. InsertsOK(q)'
  <2>1. ASSUME NEW r \in accepted[q] \ ins[q]
        PROVE \E i \in DOMAIN batch[q] : i >= pos[q] + 1 /\ batch[q][i] = r
    <3>1. PICK i \in DOMAIN batch[q] : i >= pos[q] /\ batch[q][i] = r
      BY <2>1 DEF IInv, InsertsOK, InTransaction
    <3>2. i # pos[q]
      BY <1>3, <2>1, <3>1 DEF rev
    <3> QED BY <3>1, <3>2 DEF IInv, TypeOK
  <2> QED BY <1>2, <2>1 DEF IInv, InsertsOK, InTransaction
<1>6. HeadWritesOK(q)'
  <2> DEFINE S == ins[q] \ {rev(q)}
  <2>1. Headed(q)' = S \cup {rev(q)} /\ Headed(q) = S
    BY <1>2, <1>3 DEF Headed
  <2>2. Frontier(S \cup {rev(q)}) = (Frontier(S) \ ParentRows(rev(q))) \cup {HeadRow(rev(q))}
    BY <1>3, FrontierInsert
  <2>3. add'[q] = Frontier(Headed(q)')
    BY <1>2, <2>1, <2>2 DEF IInv, HeadWritesOK
  <2>4. \A p \in Parents(rev(q)) : HeadRow(p) \in object_heads => HeadRow(p) \in del[q]
    BY <1>3, ParentRowsOfSameObject DEF RowsToDelete
  <2> HIDE DEF S
  <2> QED BY <1>2, <2>1, <2>3, <2>4 DEF IInv, HeadWritesOK
<1>7. DrawnOK(q)'
  BY <1>2 DEF DrawnOK
<1>8. ASSUME NEW p \in Request \ {q} PROVE Apart(p, q)'
  BY <1>1, <1>2 DEF IInv, Apart, SameSlot
<1> QED BY <1>1, <1>4, <1>5, <1>6, <1>7, <1>8, LocalStep DEF SlotOK

(* CreateTransaction: the sequence has not handed the id out before, and   *)
(* every committed transaction has an earlier one.                         *)
LEMMA CreateTransactionStep ==
  ASSUME IInv, TypeOK', InLoop', NEW q \in Request, CreateTransaction(q)
  PROVE  IInv'
<1> USE DEF CreateTransaction, Goto, storeVars, request, writes
<1>1. \A p \in Request \ {q} : SameSlot(p)
  BY DEF SameSlot, IInv, TypeOK
<1>2. /\ pc'[q] = "commit" /\ ins'[q] = ins[q] /\ del'[q] = del[q] /\ add'[q] = add[q]
      /\ accepted'[q] = accepted[q] /\ batch'[q] = batch[q] /\ client'[q] = client[q]
      /\ pos'[q] = pos[q] /\ txid'[q] = txn_seq + 1 /\ txn_seq' = txn_seq + 1
  BY DEF IInv, TypeOK
<1>3. LocalsOK(q)'
  BY <1>2 DEF IInv, LocalsOK, Validating
<1>4. InsertsOK(q)'
  <2>1. accepted[q] \subseteq ins[q]
    BY DEF IInv, InsertsOK, InTransaction, AtEnd, TypeOK
  <2> QED BY <1>2, <2>1 DEF IInv, InsertsOK, InTransaction
<1>5. HeadWritesOK(q)'
  BY <1>2 DEF IInv, HeadWritesOK, Headed
<1>6. DrawnOK(q)'
  <2>1. \A u \in transactions : u.id \in Nat /\ u.id < txn_seq + 1
    BY DEF IInv, LogOK, TypeOK
  <2> QED BY <1>2, <2>1 DEF DrawnOK, IInv, TypeOK
<1>7. ASSUME NEW p \in Request \ {q} PROVE Apart(p, q)'
  <2>1. pc[p] = "commit" => txid[p] # txn_seq + 1
    BY DEF IInv, DrawnOK, TypeOK
  <2> QED BY <1>1, <1>2, <2>1 DEF IInv, Apart, SameSlot
<1> QED BY <1>1, <1>2, <1>3, <1>4, <1>5, <1>6, <1>7, LocalStep DEF SlotOK

(* Commit: the tables stay consistent, and the other open transactions,    *)
(* which could not see this one, have written nothing that contradicts it. *)
LEMMA CommitStep ==
  ASSUME IInv, TypeOK', InLoop', NEW q \in Request, NEW end \in {"answered", "failed"},
         Commit(q, end)
  PROVE  IInv'
<1> USE DEF Commit, Goto, ForgetWrites, request
<1>1. \A p \in Request \ {q} : SameSlot(p)
  BY DEF SameSlot, IInv, TypeOK
<1>2. /\ pc'[q] = end /\ ins'[q] = {} /\ del'[q] = {} /\ add'[q] = {}
      /\ accepted'[q] = accepted[q] /\ client'[q] = client[q]
  BY DEF IInv, TypeOK
<1>3. /\ accepted[q] = ins[q]
      /\ ins[q] \cap revisions = {}
      /\ Headed(q) = ins[q]
      /\ add[q] = Frontier(ins[q])
  <2>1. accepted[q] = ins[q] /\ ins[q] \cap revisions = {}
    <3>1. pc[q] = "commit" /\ InsertsOK(q)
      BY DEF IInv
    <3> HIDE DEF Commit
    <3> QED BY <3>1 DEF InsertsOK
  <2>2. Headed(q) = ins[q]
    BY DEF Headed
  <2>3. add[q] = Frontier(Headed(q))
    BY DEF IInv, HeadWritesOK
  <2> QED BY <2>1, <2>2, <2>3
<1>4. LogEntry(q).id = txid[q] /\ LogEntry(q).revision_ids = ins[q]
  BY <1>3 DEF LogEntry
<1>5. GraphOK'
  <2>1. HeadsAreFrontier'
    <3>1. Frontier(revisions \cup ins[q]) = (Frontier(revisions) \ del[q]) \cup Frontier(ins[q])
      <4>1. object_heads = Frontier(revisions)
        BY DEF IInv, GraphOK, HeadsAreFrontier
      <4>2. \A r \in revisions : Parents(r) \subseteq revisions
        BY DEF IInv, GraphOK
      <4>3. /\ del[q] \subseteq Frontier(revisions)
            /\ \A row \in del[q] : \E s \in ins[q] : row[2] \in Parents(s)
            /\ \A s \in ins[q] : \A p \in Parents(s) :
                 HeadRow(p) \in Frontier(revisions) => HeadRow(p) \in del[q]
        BY <1>3, <4>1 DEF IInv, HeadWritesOK
      <4>4. revisions \cap ins[q] = {}
        BY <1>3
      <4> HIDE DEF Commit
      <4> QED BY <4>2, <4>3, <4>4, FrontierUnion
    <3> QED BY <1>3, <3>1 DEF IInv, GraphOK, HeadsAreFrontier
  <2> QED BY <1>3, <2>1 DEF IInv, GraphOK, InsertsOK, LocalsOK
<1>6. LogOK'
  <2>1. \A t \in transactions : t.revision_ids \subseteq revisions
    BY DEF IInv, LogOK, EveryRevisionLogged
  <2>2. \A t \in transactions' : t.id \in 1 .. txn_seq'
    BY <1>4 DEF IInv, LogOK, DrawnOK
  <2>3. EveryRevisionLogged'
    <3>1. revisions' = UNION {t.revision_ids : t \in transactions'}
      BY <1>4 DEF IInv, LogOK, EveryRevisionLogged
    <3>2. ASSUME NEW t \in transactions', NEW u \in transactions', t # u
          PROVE t.id # u.id /\ t.revision_ids \cap u.revision_ids = {}
      BY <1>3, <1>4, <2>1, <3>2 DEF IInv, LogOK, EveryRevisionLogged, DrawnOK
    <3> QED BY <3>1, <3>2 DEF EveryRevisionLogged
  <2>4. CausalTransactions'
    <3> SUFFICES ASSUME NEW t \in transactions', NEW u \in transactions',
                        NEW r \in t.revision_ids, Parents(r) \cap u.revision_ids # {}
                 PROVE u.id <= t.id
      BY DEF CausalTransactions
    <3>1. CASE t \in transactions /\ u \in transactions
      BY <3>1 DEF IInv, LogOK, CausalTransactions
    <3>2. CASE t \in transactions /\ u = LogEntry(q)
      <4>1. Parents(r) \subseteq revisions
        BY <2>1, <3>2 DEF IInv, GraphOK
      <4> QED BY <1>3, <1>4, <3>2, <4>1
    <3>3. CASE t = LogEntry(q) /\ u \in transactions
      <4>1. u.id < txid[q] /\ u.id \in Nat
        BY <1>4, <3>3 DEF IInv, DrawnOK, LogOK
      <4> QED BY <1>4, <3>3, <4>1 DEF IInv, TypeOK
    <3>4. CASE t = LogEntry(q) /\ u = LogEntry(q)
      BY <1>4, <3>4 DEF IInv, TypeOK
    <3> QED BY <3>1, <3>2, <3>3, <3>4
  <2> QED BY <2>2, <2>3, <2>4 DEF LogOK
<1>7. SlotOK(q)'
  <2>1. LocalsOK(q)'
    BY <1>2 DEF IInv, LocalsOK, Validating
  <2>2. InsertsOK(q)' /\ DrawnOK(q)'
    BY <1>2 DEF InsertsOK, DrawnOK, InTransaction
  <2>3. HeadWritesOK(q)'
    BY <1>2, FrontierEmpty DEF HeadWritesOK, Headed
  <2> QED BY <2>1, <2>2, <2>3 DEF SlotOK
<1>8. ASSUME NEW p \in Request \ {q} PROVE SlotOK(p)'
  <2>1. /\ ins[p] \cap ins[q] = {} /\ del[p] \cap del[q] = {}
        /\ pc[p] = "commit" => txid[p] # txid[q]
    BY DEF IInv, Apart
  <2>2. \A r \in ins[p] : Parents(r) \cap ins[q] = {}
    BY <1>3, <2>1 DEF IInv, InsertsOK
  <2>3. Headed(p)' = Headed(p) /\ Headed(p) \subseteq ins[p] /\ rev(p)' = rev(p)
    BY <1>1 DEF SameSlot, Headed, rev
  <2>4. LocalsOK(p)'
    BY <1>1, <2>3 DEF IInv, LocalsOK, Validating, SameSlot
  <2>5. InsertsOK(p)'
    BY <1>1, <2>1, <2>3 DEF IInv, InsertsOK, InTransaction, SameSlot
  <2>6. HeadWritesOK(p)'
    <3>1. \A s \in Headed(p) : \A x \in Parents(s) : HeadRow(x) \notin add[q]
      BY <1>3, <2>2, <2>3, InFrontier
    <3>2. /\ add[p] = Frontier(Headed(p))
          /\ del[p] \subseteq object_heads'
          /\ \A row \in del[p] : \E s \in ins[p] : row[2] \in Parents(s)
          /\ \A s \in Headed(p) : \A x \in Parents(s) :
               HeadRow(x) \in object_heads' => HeadRow(x) \in del[p]
      BY <2>1, <3>1 DEF IInv, HeadWritesOK
    <3> QED BY <1>1, <2>3, <3>2 DEF HeadWritesOK, SameSlot
  <2>7. DrawnOK(p)'
    BY <1>1, <1>4, <2>1, <2>2 DEF IInv, DrawnOK, SameSlot
  <2> QED BY <2>4, <2>5, <2>6, <2>7 DEF SlotOK
<1>9. ASSUME NEW p \in Request, NEW s \in Request PROVE Apart(p, s)'
  BY <1>1, <1>2 DEF IInv, Apart, SameSlot
<1> QED BY <1>5, <1>6, <1>7, <1>8, <1>9 DEF IInv, SlotOK
-----------------------------------------------------------------------------
LEMMA InvInit == Init => IInv
<1> SUFFICES ASSUME Init PROVE IInv
  OBVIOUS
<1> USE DEF Init
<1>1. TypeOK /\ InLoop
  BY NoClientType, ServerPushAssumption DEF TypeOK, InLoop, PC
<1>2. GraphOK /\ LogOK
  BY FrontierEmpty
  DEF GraphOK, LogOK, HeadsAreFrontier, EveryRevisionLogged, CausalTransactions
<1>3. \A q \in Request : LocalsOK(q) /\ InsertsOK(q) /\ DrawnOK(q)
  BY DEF LocalsOK, InsertsOK, DrawnOK, InTransaction, Validating
<1>4. \A q \in Request : HeadWritesOK(q)
  BY FrontierEmpty DEF HeadWritesOK, Headed
<1>5. \A p, q \in Request : Apart(p, q)
  BY DEF Apart
<1> QED BY <1>1, <1>2, <1>3, <1>4, <1>5 DEF IInv

LEMMA InvStep == IInv /\ [Next]_vars => IInv'
<1> SUFFICES ASSUME IInv, [Next]_vars PROVE IInv'
  OBVIOUS
<1> USE DEF storeVars, request, writes, Goto, NextRevision
<1>0. TypeOK' /\ InLoop'
  BY TypeStep DEF IInv
<1>1. ASSUME NEW q \in Request, NEW c \in ClientId, NEW b \in Batch, Receive(q, c, b)
      PROVE IInv'
  <2> USE <1>1 DEF Receive
  <2>1. \A p \in Request \ {q} : SameSlot(p)
    BY DEF SameSlot, IInv, TypeOK
  <2>2. pc'[q] = "exists" /\ accepted'[q] = {} /\ ins'[q] = ins[q]
    BY DEF IInv, TypeOK, LocalsOK
  <2>3. LocalsOK(q)'
    BY <2>2 DEF LocalsOK
  <2>4. InsertsOK(q)'
    BY <2>2 DEF IInv, InsertsOK, InTransaction
  <2> QED BY <1>0, <2>1, <2>2, <2>3, <2>4, QuietStep
<1>2. ASSUME NEW q \in Request, RejectForeign(q) PROVE IInv'
  BY <1>0, <1>2, RejectStep DEF RejectForeign, Validating
<1>3. ASSUME NEW q \in Request, RejectExisting(q) PROVE IInv'
  BY <1>0, <1>3, RejectStep DEF RejectExisting, Validating
<1>4. ASSUME NEW q \in Request, PassExists(q) PROVE IInv'
  <2> USE <1>4 DEF PassExists
  <2>1. \A p \in Request \ {q} : SameSlot(p)
    BY DEF SameSlot, IInv, TypeOK
  <2>2. pc'[q] = "parents"
    BY DEF IInv, TypeOK
  <2>3. LocalsOK(q)'
    BY <2>2 DEF IInv, LocalsOK, rev, Validating
  <2>4. InsertsOK(q)'
    BY <2>2 DEF IInv, InsertsOK, InTransaction
  <2> QED BY <1>0, <2>1, <2>2, <2>3, <2>4, QuietStep
<1>5. ASSUME NEW q \in Request, RejectRepeatedParent(q) PROVE IInv'
  BY <1>0, <1>5, RejectStep DEF RejectRepeatedParent, Validating
<1>6. ASSUME NEW q \in Request, RejectParent(q) PROVE IInv'
  BY <1>0, <1>6, RejectStep DEF RejectParent, Validating
<1>7. ASSUME NEW q \in Request, Accept(q) PROVE IInv'
  BY <1>0, <1>7, AcceptStep
<1>8. ASSUME NEW q \in Request, RespondNothingAccepted(q) PROVE IInv'
  <2> USE <1>8 DEF RespondNothingAccepted
  <2>1. \A p \in Request \ {q} : SameSlot(p)
    BY DEF SameSlot, IInv, TypeOK
  <2>2. pc'[q] = "answered"
    BY DEF IInv, TypeOK
  <2>3. LocalsOK(q)'
    BY <2>2 DEF IInv, LocalsOK, Validating
  <2>4. InsertsOK(q)'
    BY <2>2 DEF IInv, InsertsOK, InTransaction
  <2> QED BY <1>0, <2>1, <2>2, <2>3, <2>4, QuietStep
<1>9. ASSUME NEW q \in Request, BeginTransaction(q) PROVE IInv'
  <2> USE <1>9 DEF BeginTransaction
  <2>1. \A p \in Request \ {q} : SameSlot(p)
    BY DEF SameSlot, IInv, TypeOK
  <2>2. pc'[q] = "insert" /\ pos'[q] = 1
    BY DEF IInv, TypeOK
  <2>3. LocalsOK(q)'
    BY <2>2 DEF IInv, LocalsOK, Validating
  <2>4. InsertsOK(q)'
    <3>1. \A r \in accepted[q] : \E i \in DOMAIN batch[q] : i >= 1 /\ batch[q][i] = r
      BY DEF IInv, LocalsOK, Validating, TypeOK
    <3> QED BY <2>2, <3>1 DEF IInv, InsertsOK, InTransaction
  <2> QED BY <1>0, <2>1, <2>2, <2>3, <2>4, QuietStep
<1>10. ASSUME NEW q \in Request, SkipRejected(q) PROVE IInv'
  <2> USE <1>10 DEF SkipRejected
  <2>1. \A p \in Request \ {q} : SameSlot(p)
    BY DEF SameSlot, IInv, TypeOK
  <2>2. pc'[q] = "insert" /\ pos'[q] = pos[q] + 1
    BY DEF IInv, TypeOK
  <2>3. LocalsOK(q)'
    BY <2>2 DEF IInv, LocalsOK, Validating
  <2>4. InsertsOK(q)'
    <3>1. ASSUME NEW r \in accepted[q] \ ins[q]
          PROVE \E i \in DOMAIN batch[q] : i >= pos[q] + 1 /\ batch[q][i] = r
      <4>1. PICK i \in DOMAIN batch[q] : i >= pos[q] /\ batch[q][i] = r
        BY <3>1 DEF IInv, InsertsOK, InTransaction
      <4>2. i # pos[q]
        BY <3>1, <4>1 DEF rev
      <4> QED BY <4>1, <4>2 DEF IInv, TypeOK
    <3> QED BY <2>2, <3>1 DEF IInv, InsertsOK, InTransaction
  <2> QED BY <1>0, <2>1, <2>2, <2>3, <2>4, QuietStep
<1>11. ASSUME NEW q \in Request, InsertRevision(q) PROVE IInv'
  BY <1>0, <1>11, InsertRevisionStep
<1>12. ASSUME NEW q \in Request, InsertViolation(q) PROVE IInv'
  BY <1>0, <1>12, RollbackStep DEF InsertViolation, Inserting
<1>13. ASSUME NEW q \in Request, NEW row \in Row, DeleteHead(q, row) PROVE IInv'
  BY <1>0, <1>13, DeleteHeadStep
<1>14. ASSUME NEW q \in Request, InsertHead(q) PROVE IInv'
  BY <1>0, <1>14, InsertHeadStep
<1>15. ASSUME NEW q \in Request, CreateTransaction(q) PROVE IInv'
  BY <1>0, <1>15, CreateTransactionStep
<1>16. ASSUME NEW q \in Request, SequenceExhausted(q) PROVE IInv'
  BY <1>0, <1>16, RollbackStep DEF SequenceExhausted
<1>17. ASSUME NEW q \in Request, NEW end \in {"answered", "failed"}, Commit(q, end)
       PROVE IInv'
  BY <1>0, <1>17, CommitStep
<1>18. ASSUME NEW q \in Request, Fail(q) PROVE IInv'
  BY <1>0, <1>18, RollbackStep DEF Fail
<1>19. ASSUME NEW q \in Request, DeadlockVictim(q) PROVE IInv'
  <2>1. pc[q] # "idle"
    BY <1>19 DEF DeadlockVictim, WaitsFor, InsertWaitsFor, Inserting
  <2> QED BY <1>0, <1>19, <2>1, RollbackStep DEF DeadlockVictim
<1>20. ASSUME NEW q \in Request, Finish(q) PROVE IInv'
  <2> USE <1>20 DEF Finish
  <2>1. \A p \in Request \ {q} : SameSlot(p)
    BY DEF SameSlot, IInv, TypeOK
  <2>2. pc'[q] = "idle" /\ accepted'[q] = {} /\ rejected'[q] = {} /\ pos'[q] = 1 /\ txid'[q] = 0
    BY DEF IInv, TypeOK
  <2>3. LocalsOK(q)'
    BY <2>2 DEF LocalsOK, Validating
  <2>4. InsertsOK(q)'
    BY <2>2 DEF IInv, InsertsOK, InTransaction
  <2>5. HeadWritesOK(q)' /\ DrawnOK(q)'
    BY <2>2 DEF IInv, HeadWritesOK, DrawnOK, Headed
  <2>6. ASSUME NEW p \in Request \ {q} PROVE Apart(p, q)'
    BY <2>2 DEF IInv, Apart
  <2> QED BY <1>0, <2>1, <2>3, <2>4, <2>5, <2>6, LocalStep DEF SlotOK
<1>21. CASE UNCHANGED vars
  <2>1. \A q \in Request : SameSlot(q) /\ SlotOK(q)
    BY <1>21 DEF vars, SameSlot, IInv, SlotOK
  <2>2. \A q \in Request : SlotOK(q)'
    BY <1>21, <2>1, Frame DEF vars, IInv
  <2>3. GraphOK' /\ LogOK'
    BY <1>21 DEF vars, IInv, GraphOK, LogOK, HeadsAreFrontier, EveryRevisionLogged,
                 CausalTransactions
  <2>4. \A p, q \in Request : Apart(p, q)'
    BY <2>1 DEF IInv, Apart, SameSlot
  <2> QED BY <1>0, <2>2, <2>3, <2>4 DEF IInv, SlotOK
<1> QED
  BY <1>1, <1>2, <1>3, <1>4, <1>5, <1>6, <1>7, <1>8, <1>9, <1>10, <1>11, <1>12, <1>13,
     <1>14, <1>15, <1>16, <1>17, <1>18, <1>19, <1>20, <1>21 DEF Next, Step

LEMMA Invariance == Spec => []IInv
BY InvInit, InvStep, PTL DEF Spec

(* In every reachable state the head table is the frontier of the graph.   *)
THEOREM HeadsCorrect == Spec => []HeadsAreFrontier
<1>1. IInv => HeadsAreFrontier
  BY DEF IInv, GraphOK
<1> QED BY <1>1, Invariance, PTL

(* Every committed revision is in exactly one committed transaction.       *)
THEOREM LogCorrect == Spec => []EveryRevisionLogged
<1>1. IInv => EveryRevisionLogged
  BY DEF IInv, LogOK
<1> QED BY <1>1, Invariance, PTL

(* The order of transaction ids respects lineage.                          *)
THEOREM LogCausal == Spec => []CausalTransactions
<1>1. IInv => CausalTransactions
  BY DEF IInv, LogOK
<1> QED BY <1>1, Invariance, PTL
-----------------------------------------------------------------------------
(* Only Commit touches the tables, and it appends one transaction.         *)
LEMMA CommitRefines ==
  ASSUME IInv, IInv', NEW q \in Request, NEW end \in {"answered", "failed"}, Commit(q, end)
  PROVE  Store!StoreNext
<1> USE DEF Commit
<1>1. accepted[q] = ins[q] /\ accepted[q] # {} /\ ins[q] \cap revisions = {}
  <2>1. pc[q] = "commit" /\ InsertsOK(q)
    BY DEF IInv
  <2> HIDE DEF Commit
  <2> QED BY <2>1 DEF InsertsOK, InTransaction
<1>2. /\ LogEntry(q).id = txid[q] /\ LogEntry(q).revision_ids = ins[q]
      /\ LogEntry(q).client_id = client[q]
  BY <1>1 DEF LogEntry
<1>3. LogEntry(q) \in Store!Transaction
  <2>1. txid[q] \in 1 .. MaxTransactionId
    BY ServerPushAssumption DEF IInv, DrawnOK, TypeOK
  <2> QED BY <2>1 DEF IInv, TypeOK, LogEntry, Store!Transaction
<1>4. object_heads' = Store!Frontier(revisions')
  BY DEF IInv, GraphOK, HeadsAreFrontier, Frontier, HeadRow, Parents,
         Store!Frontier, Store!HeadRow, Store!Parents
<1>5. ASSUME NEW r \in ins[q]
      PROVE /\ created_by[r] = client[q]
            /\ Store!SameObject(r)
            /\ Store!Parents(r) \subseteq (revisions \cup ins[q]) \ {r}
            /\ \A u \in transactions :
                 u.revision_ids \cap Store!Parents(r) # {} => u.id < txid[q]
  <2>1. Store!Parents(r) = Parents(r)
    BY DEF Store!Parents, Parents
  <2>2. created_by[r] = client[q] /\ SameObject(r) /\ r \notin Parents(r)
    BY <1>1 DEF IInv, LocalsOK
  <2>3. Parents(r) \subseteq revisions \cup ins[q]
    BY DEF IInv, InsertsOK
  <2>4. \A u \in transactions : u.revision_ids \cap Parents(r) # {} => u.id < txid[q]
    BY DEF IInv, DrawnOK
  <2> QED BY <2>1, <2>2, <2>3, <2>4 DEF SameObject, Store!SameObject
<1>6. \A u \in transactions : u.id # txid[q]
  BY DEF IInv, DrawnOK
<1>7. Store!CommitTransaction(LogEntry(q))
  BY <1>1, <1>2, <1>4, <1>5, <1>6 DEF Store!CommitTransaction
<1> QED BY <1>3, <1>7 DEF Store!StoreNext

LEMMA StepRefines ==
  ASSUME IInv, IInv', [Next]_vars
  PROVE  [Store!StoreNext]_storeVars
<1>1. ASSUME NEW q \in Request, NEW end \in {"answered", "failed"}, Commit(q, end)
      PROVE Store!StoreNext
  BY <1>1, CommitRefines
<1>2. ASSUME NEW q \in Request, NEW c \in ClientId, NEW b \in Batch, Receive(q, c, b)
      PROVE UNCHANGED storeVars
  BY <1>2 DEF Receive
<1>3. ASSUME NEW q \in Request,
             \/ RejectForeign(q) \/ RejectExisting(q) \/ PassExists(q)
             \/ RejectRepeatedParent(q) \/ RejectParent(q) \/ Accept(q)
             \/ RespondNothingAccepted(q)
      PROVE UNCHANGED storeVars
  BY <1>3 DEF RejectForeign, RejectExisting, PassExists, RejectRepeatedParent, RejectParent,
              Accept, RespondNothingAccepted, Reject
<1>4. ASSUME NEW q \in Request,
             \/ BeginTransaction(q) \/ SkipRejected(q) \/ InsertRevision(q) \/ InsertViolation(q)
             \/ \E row \in Row : DeleteHead(q, row)
             \/ InsertHead(q) \/ CreateTransaction(q) \/ SequenceExhausted(q)
             \/ Finish(q) \/ Fail(q) \/ DeadlockVictim(q)
      PROVE UNCHANGED storeVars
  BY <1>4 DEF BeginTransaction, SkipRejected, InsertRevision, InsertViolation, DeleteHead,
              InsertHead, CreateTransaction, SequenceExhausted, Finish, Fail, DeadlockVictim,
              Rollback
<1>5. CASE UNCHANGED vars
  BY <1>5 DEF vars
<1> QED BY <1>1, <1>2, <1>3, <1>4, <1>5 DEF Next, Step

(* The concurrent push handlers implement the atomic, append-only store.   *)
THEOREM PushRefinesStore == Spec => RefinesStore
<1>1. Init => Store!StoreInit
  BY DEF Init, Store!StoreInit
<1>2. IInv /\ IInv' /\ [Next]_vars => [Store!StoreNext]_(Store!storeVars)
  BY StepRefines DEF storeVars, Store!storeVars
<1> QED BY <1>1, <1>2, Invariance, PTL DEF Spec, RefinesStore, Store!StoreSpec
=============================================================================
