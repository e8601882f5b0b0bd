----------------------------- MODULE ServerPush -----------------------------
(***************************************************************************)
(* POST /push: db::push::push_revisions, run by any number of concurrent   *)
(* request handlers against one Postgres database.                         *)
(*                                                                         *)
(* Every await of the handler ends a step.  Validation runs statement by   *)
(* statement on pooled connections, outside the transaction that stores    *)
(* the batch; the transaction sees committed rows and its own, and other   *)
(* requests see nothing of it before Commit.  Postgres is modelled from    *)
(* the SQL the code sends, at the READ COMMITTED level it asks for: a      *)
(* unique index makes an insert wait for another open insert of the same   *)
(* key, a delete waits for another open delete of the same row, a wait     *)
(* cycle is broken by aborting one member, and BIGSERIAL hands out ids     *)
(* that a rollback does not give back.                                     *)
(***************************************************************************)
EXTENDS Revision, FiniteSets

CONSTANTS
  Request,           \* request slots: the pushes that can be in flight at once
  Batch,             \* the PushRequest::revisions a client may send
  PoolSize,          \* connections in the PgPool
  MaxTransactionId   \* the last id BIGSERIAL can produce

ASSUME ServerPushAssumption ==
  /\ IsFiniteSet(Request)
  /\ Batch \subseteq Seq(RevisionId)
  /\ PoolSize \in Nat \ {0}
  /\ MaxTransactionId \in Nat

VARIABLES
  revisions,     \* committed rows of revisions and revision_parents
  object_heads,  \* committed rows of object_heads
  transactions,  \* committed rows of transactions with transaction_revisions
  txn_seq,       \* last id drawn from the transactions_id_seq sequence
  pc,            \* pc[q]: where the handler in slot q is in push_revisions
  client,        \* its client_id,
  batch,         \* its revisions,
  pos,           \* the index of the loop it is in,
  accepted,      \* its accepted_ids,
  rejected,      \* its rejected
  txid,          \* and its transaction_id
  ins,           \* ins[q]: revisions inserted by the open transaction of slot q,
  del,           \* committed head rows it deleted, which stay locked,
  add            \* and head rows it inserted

storeVars == <<revisions, object_heads, transactions>>
request == <<client, batch>>
writes == <<ins, del, add>>
vars == <<storeVars, txn_seq, pc, request, pos, accepted, rejected, txid, writes>>

RejectionReason == {"UnknownParent", "DuplicateRevisionId", "MalformedData"}
RejectedRevision == [revision_id : RevisionId, reason : RejectionReason]

PC == {"idle", "exists", "parents", "insert", "heads", "commit", "answered", "failed"}

Row == ObjectId \X RevisionId

Transaction ==
  [id : Nat, client_id : ClientId, revision_ids : SUBSET RevisionId]

(* Every variable ranges over what its table or local can hold.            *)
TypeOK ==
  /\ revisions \subseteq RevisionId
  /\ object_heads \subseteq Row
  /\ transactions \subseteq Transaction
  /\ txn_seq \in 0 .. MaxTransactionId
  /\ pc \in [Request -> PC]
  /\ client \in [Request -> ClientId]
  /\ batch \in [Request -> Seq(RevisionId)]
  /\ pos \in [Request -> Nat \ {0}]
  /\ accepted \in [Request -> SUBSET RevisionId]
  /\ rejected \in [Request -> SUBSET RejectedRevision]
  /\ txid \in [Request -> Nat]
  /\ ins \in [Request -> SUBSET RevisionId]
  /\ del \in [Request -> SUBSET Row]
  /\ add \in [Request -> SUBSET Row]

(* The client of a slot without a request is not looked at.                *)
NoClient == CHOOSE c \in ClientId : TRUE

Init ==
  /\ revisions = {}
  /\ object_heads = {}
  /\ transactions = {}
  /\ txn_seq = 0
  /\ pc = [q \in Request |-> "idle"]
  /\ client = [q \in Request |-> NoClient]
  /\ batch = [q \in Request |-> <<>>]
  /\ pos = [q \in Request |-> 1]
  /\ accepted = [q \in Request |-> {}]
  /\ rejected = [q \in Request |-> {}]
  /\ txid = [q \in Request |-> 0]
  /\ ins = [q \in Request |-> {}]
  /\ del = [q \in Request |-> {}]
  /\ add = [q \in Request |-> {}]
-----------------------------------------------------------------------------
InTransaction(q) == pc[q] \in {"insert", "heads", "commit"}

(* A request inside its transaction keeps its connection; every other      *)
(* statement takes one from the pool and gives it back.                    *)
FreeConnection == Cardinality({q \in Request : InTransaction(q)}) < PoolSize

AtEnd(q) == pos[q] > Len(batch[q])

(* The revision the loop is at.                                            *)
rev(q) == batch[q][pos[q]]

(* Mutant of Known: the other revisions of the request count as known.     *)
KnownInRequest(q) == revisions \cup {batch[q][i] : i \in DOMAIN batch[q]}

(* What accepted_objects.get or else get_revision_object_id finds: the     *)
(* revisions this request has accepted so far and the committed ones.      *)
Known(q) == revisions \cup accepted[q]

Goto(q, label) == pc' = [pc EXCEPT ![q] = label]

NextRevision(q) == pos' = [pos EXCEPT ![q] = @ + 1]

Reject(q, reason) ==
  /\ Goto(q, "exists")
  /\ NextRevision(q)
  /\ rejected' = [rejected EXCEPT ![q] = @ \cup {[revision_id |-> rev(q), reason |-> reason]}]
  /\ UNCHANGED <<storeVars, txn_seq, request, accepted, txid, writes>>
-----------------------------------------------------------------------------
(* push_changes: the authenticated client's request reaches the handler.   *)
Receive(q, c, b) ==
  /\ pc[q] = "idle"
  /\ Goto(q, "exists")
  /\ client' = [client EXCEPT ![q] = c]
  /\ batch' = [batch EXCEPT ![q] = b]
  /\ UNCHANGED <<storeVars, txn_seq, pos, accepted, rejected, txid, writes>>

RejectForeign(q) ==
  /\ pc[q] = "exists" /\ ~AtEnd(q)
  /\ created_by[rev(q)] # client[q]
  /\ Reject(q, "MalformedData")

(* revision_exists                                                         *)
RejectExisting(q) ==
  /\ pc[q] = "exists" /\ ~AtEnd(q) /\ FreeConnection
  /\ created_by[rev(q)] = client[q]
  /\ rev(q) \in revisions
  /\ Reject(q, "DuplicateRevisionId")

PassExists(q) ==
  /\ pc[q] = "exists" /\ ~AtEnd(q) /\ FreeConnection
  /\ created_by[rev(q)] = client[q]
  /\ rev(q) \notin revisions
  /\ Goto(q, "parents")
  /\ UNCHANGED <<storeVars, txn_seq, request, pos, accepted, rejected, txid, writes>>

RejectRepeatedParent(q) ==
  /\ pc[q] = "parents"
  /\ RepeatsParent(rev(q))
  /\ Reject(q, "MalformedData")

(* Mutant of BadParent: the object of a parent is not compared.            *)
BadParentAnyObject(q, r, i) == lineage[r][i] \notin Known(q)

(* Parent i of r ends the parent loop: it is unknown or belongs to another *)
(* object.                                                                 *)
BadParent(q, r, i) ==
  \/ lineage[r][i] \notin Known(q)
  \/ object_id[lineage[r][i]] # object_id[r]

(* The loop over the parents stops at the first bad one.  Its lookups are  *)
(* separate statements; taking them in one step loses nothing, because     *)
(* revisions only grows: whatever an earlier lookup found is still there   *)
(* at the last one.  A parent accepted earlier in the batch is found       *)
(* without a statement.                                                    *)
RejectParent(q) ==
  /\ pc[q] = "parents"
  /\ ~RepeatsParent(rev(q))
  /\ \E i \in DOMAIN lineage[rev(q)] :
       /\ FreeConnection \/ \A j \in 1 .. i : lineage[rev(q)][j] \in accepted[q]
       /\ BadParent(q, rev(q), i)
       /\ \A j \in DOMAIN lineage[rev(q)] : j < i => ~BadParent(q, rev(q), j)
       /\ Reject(q, IF lineage[rev(q)][i] \notin Known(q)
                    THEN "UnknownParent" ELSE "MalformedData")

(* Again a parent accepted earlier in the batch costs no statement.        *)
Accept(q) ==
  /\ pc[q] = "parents"
  /\ Parents(rev(q)) \subseteq accepted[q] \/ FreeConnection
  /\ ~RepeatsParent(rev(q))
  /\ \A i \in DOMAIN lineage[rev(q)] : ~BadParent(q, rev(q), i)
  /\ Goto(q, "exists")
  /\ NextRevision(q)
  /\ accepted' = [accepted EXCEPT ![q] = @ \cup {rev(q)}]
  /\ UNCHANGED <<storeVars, txn_seq, request, rejected, txid, writes>>

(* Nothing accepted: answered with transaction id 0, without a transaction.*)
RespondNothingAccepted(q) ==
  /\ pc[q] = "exists" /\ AtEnd(q)
  /\ accepted[q] = {}
  /\ Goto(q, "answered")
  /\ UNCHANGED <<storeVars, txn_seq, request, pos, accepted, rejected, txid, writes>>
-----------------------------------------------------------------------------
BeginTransaction(q) ==
  /\ pc[q] = "exists" /\ AtEnd(q) /\ FreeConnection
  /\ accepted[q] # {}
  /\ Goto(q, "insert")
  /\ pos' = [pos EXCEPT ![q] = 1]
  /\ UNCHANGED <<storeVars, txn_seq, request, accepted, rejected, txid, writes>>

(* The loop runs over the batch filtered by accepted_ids, so a revision    *)
(* that occurs twice in the batch and is accepted once is inserted twice.  *)
SkipRejected(q) ==
  /\ pc[q] = "insert" /\ ~AtEnd(q)
  /\ rev(q) \notin accepted[q]
  /\ NextRevision(q)
  /\ UNCHANGED <<storeVars, txn_seq, pc, request, accepted, rejected, txid, writes>>

Inserting(q) == pc[q] = "insert" /\ ~AtEnd(q) /\ rev(q) \in accepted[q]

(* Mutant of InsertWaitsFor: no unique index, nobody waits.                *)
InsertWaitsForNone(q, p) == FALSE

(* The unique index on revisions.id makes q wait for the end of p.         *)
InsertWaitsFor(q, p) == p # q /\ Inserting(q) /\ rev(q) \in ins[p]

(* Mutant of Violates: INSERT ... ON CONFLICT DO NOTHING.                  *)
ViolatesIgnoringDuplicates(q) ==
  ~(Parents(rev(q)) \subseteq revisions \cup ins[q] \cup {rev(q)})

(* Primary key of revisions, foreign key of revision_parents.  The other   *)
(* constraints cannot fail here: the author is the authenticated client,   *)
(* which was registered first (DeviceIdentity), and insert_revision writes *)
(* either deleted or data.                                                 *)
Violates(q) ==
  \/ rev(q) \in revisions \cup ins[q]
  \/ ~(Parents(rev(q)) \subseteq revisions \cup ins[q] \cup {rev(q)})

(* Mutant of InsertRevision: it runs on the pool and not on the connection *)
(* of its transaction.                                                     *)
InsertRevisionOnPool(q) ==
  /\ Inserting(q) /\ FreeConnection
  /\ \A p \in Request : ~InsertWaitsFor(q, p)
  /\ ~Violates(q)
  /\ Goto(q, "heads")
  /\ ins' = [ins EXCEPT ![q] = @ \cup {rev(q)}]
  /\ UNCHANGED <<storeVars, txn_seq, request, pos, accepted, rejected, txid, del, add>>

InsertRevision(q) ==
  /\ Inserting(q)
  /\ \A p \in Request : ~InsertWaitsFor(q, p)
  /\ ~Violates(q)
  /\ Goto(q, "heads")
  /\ ins' = [ins EXCEPT ![q] = @ \cup {rev(q)}]
  /\ UNCHANGED <<storeVars, txn_seq, request, pos, accepted, rejected, txid, del, add>>

(* The open transaction of q, if any, is over.                             *)
ForgetWrites(q) ==
  /\ ins' = [ins EXCEPT ![q] = {}]
  /\ del' = [del EXCEPT ![q] = {}]
  /\ add' = [add EXCEPT ![q] = {}]

(* Mutant of Rollback: the error is swallowed and the request answered.    *)
RollbackAnswered(q) ==
  /\ Goto(q, "answered")
  /\ ForgetWrites(q)
  /\ UNCHANGED <<storeVars, txn_seq, request, pos, accepted, rejected, txid>>

(* An error return drops the sqlx transaction, which rolls it back.        *)
Rollback(q) ==
  /\ Goto(q, "failed")
  /\ ForgetWrites(q)
  /\ UNCHANGED <<storeVars, txn_seq, request, pos, accepted, rejected, txid>>

InsertViolation(q) ==
  /\ Inserting(q)
  /\ \A p \in Request : ~InsertWaitsFor(q, p)
  /\ Violates(q)
  /\ Rollback(q)

(* Mutant of ParentRows: a merge supersedes its first parent only.         *)
ParentRowsFirst(r) ==
  {<<object_id[r], lineage[r][i]>> : i \in DOMAIN lineage[r] \cap {1}}

(* Head rows named by update_heads' DELETE.                                *)
ParentRows(r) == {<<object_id[r], p>> : p \in Parents(r)}

(* Committed rows the DELETE has still to remove.                          *)
RowsToDelete(q) == (ParentRows(rev(q)) \cap object_heads) \ del[q]

(* The DELETE reaches a row nobody else is deleting.  A row another        *)
(* transaction deletes is waited for: it is skipped if that one commits    *)
(* (the row is gone from object_heads) and deleted if it rolls back.       *)
DeleteHead(q, row) ==
  /\ pc[q] = "heads"
  /\ row \in RowsToDelete(q)
  /\ \A p \in Request \ {q} : row \notin del[p]
  /\ del' = [del EXCEPT ![q] = @ \cup {row}]
  /\ UNCHANGED <<storeVars, txn_seq, pc, request, pos, accepted, rejected, txid, ins, add>>

(* Mutant of InsertHead: the bind parameters of the INSERT are swapped.    *)
InsertHeadSwapped(q) ==
  /\ pc[q] = "heads"
  /\ RowsToDelete(q) = {}
  /\ add' = [add EXCEPT ![q] = (@ \ ParentRows(rev(q))) \cup {<<rev(q), object_id[rev(q)]>>}]
  /\ Goto(q, "insert")
  /\ NextRevision(q)
  /\ UNCHANGED <<storeVars, txn_seq, request, accepted, rejected, txid, ins, del>>

(* Mutant of InsertHead: a root revision gets no head row.                 *)
InsertHeadOfChildrenOnly(q) ==
  /\ pc[q] = "heads"
  /\ RowsToDelete(q) = {}
  /\ add' = [add EXCEPT ![q] = (@ \ ParentRows(rev(q))) \cup
               {HeadRow(r) : r \in {x \in {rev(q)} : Parents(x) # {}}}]
  /\ Goto(q, "insert")
  /\ NextRevision(q)
  /\ UNCHANGED <<storeVars, txn_seq, request, accepted, rejected, txid, ins, del>>

(* The DELETE has ended, with the rows of this transaction's own inserts   *)
(* among those it removed; the INSERT adds the new head.                   *)
InsertHead(q) ==
  /\ pc[q] = "heads"
  /\ RowsToDelete(q) = {}
  /\ add' = [add EXCEPT ![q] = (@ \ ParentRows(rev(q))) \cup {HeadRow(rev(q))}]
  /\ Goto(q, "insert")
  /\ NextRevision(q)
  /\ UNCHANGED <<storeVars, txn_seq, request, accepted, rejected, txid, ins, del>>

(* Mutant of CreateTransaction: ids that rolled-back transactions drew are *)
(* handed out again.                                                       *)
CreateTransactionReusingGaps(q) ==
  LET used == {t.id : t \in transactions} \cup {txid[p] : p \in Request}
  IN  /\ pc[q] = "insert" /\ AtEnd(q)
      /\ txn_seq < MaxTransactionId
      /\ txn_seq' = txn_seq + 1
      /\ Goto(q, "commit")
      /\ txid' = [txid EXCEPT ![q] = CHOOSE n \in 1 .. txn_seq' :
                    n \notin used /\ 1 .. (n - 1) \subseteq used]
      /\ UNCHANGED <<storeVars, request, pos, accepted, rejected, writes>>

(* create_transaction: the id is drawn now and visible only at Commit.     *)
CreateTransaction(q) ==
  /\ pc[q] = "insert" /\ AtEnd(q)
  /\ txn_seq < MaxTransactionId
  /\ txn_seq' = txn_seq + 1
  /\ Goto(q, "commit")
  /\ txid' = [txid EXCEPT ![q] = txn_seq + 1]
  /\ UNCHANGED <<storeVars, request, pos, accepted, rejected, writes>>

SequenceExhausted(q) ==
  /\ pc[q] = "insert" /\ AtEnd(q)
  /\ txn_seq = MaxTransactionId
  /\ Rollback(q)

(* The row the request leaves in the log.                                  *)
LogEntry(q) ==
  [id |-> txid[q], client_id |-> client[q], revision_ids |-> accepted[q]]

(* tx.commit: everything becomes visible at once.  The acknowledgement may *)
(* be lost: then the batch is stored and the client is told of an error.   *)
Commit(q, end) ==
  /\ pc[q] = "commit"
  /\ revisions' = revisions \cup ins[q]
  /\ object_heads' = (object_heads \ del[q]) \cup add[q]
  /\ transactions' = transactions \cup {LogEntry(q)}
  /\ Goto(q, end)
  /\ ForgetWrites(q)
  /\ UNCHANGED <<txn_seq, request, pos, accepted, rejected, txid>>
-----------------------------------------------------------------------------
(* A statement fails, the pool times out, the client hangs up (the handler *)
(* is dropped) or the process dies: the open transaction is rolled back.   *)
Fail(q) ==
  /\ pc[q] \in {"exists", "parents", "insert", "heads", "commit"}
  /\ Rollback(q)

(* q can only go on when p ends.                                           *)
WaitsFor(q, p) ==
  \/ InsertWaitsFor(q, p)
  \/ /\ p # q /\ pc[q] = "heads"
     /\ RowsToDelete(q) \cap del[p] # {}
     /\ RowsToDelete(q) \subseteq UNION {del[o] : o \in Request \ {q}}

(* Postgres aborts one member of a wait cycle.                             *)
DeadlockVictim(q) ==
  /\ \E S \in SUBSET Request :
       /\ q \in S
       /\ \A s \in S : \E p \in S : WaitsFor(s, p)
  /\ Rollback(q)

(* The response has left; the slot is free for the next request.           *)
Finish(q) ==
  /\ pc[q] \in {"answered", "failed"}
  /\ Goto(q, "idle")
  /\ client' = [client EXCEPT ![q] = NoClient]
  /\ batch' = [batch EXCEPT ![q] = <<>>]
  /\ pos' = [pos EXCEPT ![q] = 1]
  /\ accepted' = [accepted EXCEPT ![q] = {}]
  /\ rejected' = [rejected EXCEPT ![q] = {}]
  /\ txid' = [txid EXCEPT ![q] = 0]
  /\ UNCHANGED <<storeVars, txn_seq, writes>>

(* What the handler in slot q does when it is scheduled.                   *)
Step(q) ==
  \/ RejectForeign(q) \/ RejectExisting(q) \/ PassExists(q)
  \/ RejectRepeatedParent(q) \/ RejectParent(q) \/ Accept(q)
  \/ RespondNothingAccepted(q) \/ BeginTransaction(q)
  \/ SkipRejected(q) \/ InsertRevision(q) \/ InsertViolation(q)
  \/ \E row \in Row : DeleteHead(q, row)
  \/ InsertHead(q)
  \/ CreateTransaction(q) \/ SequenceExhausted(q)
  \/ \E end \in {"answered", "failed"} : Commit(q, end)
  \/ Finish(q)

Next ==
  \E q \in Request :
    \/ \E c \in ClientId, b \in Batch : Receive(q, c, b)
    \/ Step(q)
    \/ Fail(q)
    \/ DeadlockVictim(q)

Spec == Init /\ [][Next]_vars

(* tokio keeps polling a handler that can run; the pool and Postgres' lock *)
(* queues are first come, first served, hence strong fairness for a step   *)
(* that needs a connection or a lock; the deadlock detector runs after     *)
(* deadlock_timeout.  Nothing obliges a failure or a new request.          *)
Fairness ==
  \A q \in Request : SF_vars(Step(q)) /\ WF_vars(DeadlockVictim(q))

FairSpec == Spec /\ Fairness
-----------------------------------------------------------------------------
(* The head table is the frontier of the revision graph in every committed *)
(* state: update_heads, run inside concurrent transactions that see none   *)
(* of each other's writes, neither loses a head nor keeps a superseded one.*)
HeadsAreFrontier == object_heads = Frontier(revisions)

(* Every committed revision has its parents committed, in its own object,  *)
(* and following parents never leads round in a circle, although parents   *)
(* are looked up outside the transaction that stores their child.          *)
LineageSound ==
  /\ \A r \in revisions : Parents(r) \subseteq revisions /\ SameObject(r)
  /\ \A S \in SUBSET revisions :
       S # {} => \E r \in S : Parents(r) \cap S = {}

(* An object with a revision has a head: pull and get_object, which look   *)
(* an object up by its head rows, never miss a stored object.              *)
EveryObjectHasHead ==
  \A r \in revisions : \E h \in object_heads : h[1] = object_id[r]

(* Every committed revision belongs to exactly one committed transaction   *)
(* and ids identify transactions: a revision outside the log, or in it     *)
(* twice, would never or repeatedly be pulled.                             *)
EveryRevisionLogged ==
  /\ revisions = UNION {t.revision_ids : t \in transactions}
  /\ \A t, u \in transactions :
       t # u => t.id # u.id /\ t.revision_ids \cap u.revision_ids = {}

(* The log order respects lineage: a revision never has a smaller          *)
(* transaction id than a parent of it, although ids are drawn before       *)
(* commits and commits happen in any order.                                *)
CausalTransactions ==
  \A t, u \in transactions : \A r \in t.revision_ids :
    Parents(r) \cap u.revision_ids # {} => u.id <= t.id

(* An answer is the truth: it disposes of every revision of the batch,     *)
(* what it calls accepted is committed as the one transaction it names,    *)
(* and what it calls a duplicate is stored.                                *)
AnswersAreTruthful ==
  \A q \in Request : pc[q] = "answered" =>
    /\ \A i \in DOMAIN batch[q] :
         \/ batch[q][i] \in accepted[q]
         \/ \E x \in rejected[q] : x.revision_id = batch[q][i]
    /\ accepted[q] # {} => LogEntry(q) \in transactions
    /\ accepted[q] \subseteq revisions
    /\ \A x \in rejected[q] :
         x.reason = "DuplicateRevisionId" => x.revision_id \in revisions

(* The concurrent handlers implement the atomic store.                     *)
Store == INSTANCE RevisionStore WITH TransactionId <- 1 .. MaxTransactionId

(* push_revisions, for any interleaving, failure and lost acknowledgement, *)
(* appends whole, well-formed transactions and nothing else.               *)
RefinesStore == Store!StoreSpec

(* Every push is answered, whatever it waits for: a connection, another    *)
(* request's insert of the same revision, or a head row.                   *)
EveryPushEnds ==
  \A q \in Request :
    pc[q] \notin {"idle", "answered", "failed"} ~> pc[q] \in {"answered", "failed"}
=============================================================================
