-------------------------- MODULE ServerPullProofs --------------------------
(***************************************************************************)
(* Proofs about ServerPull: what a pull and a lookup return, although      *)
(* pushes commit between their statements, for any revisions, requests,    *)
(* pullers, filter and pool size.                                          *)
(***************************************************************************)
EXTENDS ServerPull, ServerLineageProofs, FiniteSetTheorems

(* The ids up_to and a cursor can be.                                      *)
CommittedIds == {0} \cup {t.id : t \in transactions}

(* The committed ids have a largest one.                                   *)
LatestExists == \E n \in CommittedIds : \A t \in transactions : t.id <= n

LEMMA LatestIsLargest ==
  ASSUME LatestExists
  PROVE  /\ LatestTransactionId \in CommittedIds
         /\ \A t \in transactions : t.id <= LatestTransactionId
BY DEF LatestExists, LatestTransactionId, CommittedIds

(* A new transaction was in the hands of a committing request, and has     *)
(* only revisions that were not there before.                              *)
LEMMA NewTransaction ==
  ASSUME IInv, IInv', [Next]_vars, NEW t \in transactions', t \notin transactions
  PROVE  /\ \E q \in Request : pc[q] = "commit" /\ t = LogEntry(q)
         /\ t.revision_ids \cap revisions = {}
<1>0. TypeOK
  BY DEF IInv
<1>1. PICK q \in Request : pc[q] = "commit" /\ t = LogEntry(q)
  <2>1. ASSUME NEW q \in Request, InsertRevision(q) PROVE UNCHANGED storeVars
    BY <2>1 DEF InsertRevision
  <2>2. PICK q \in Request, end \in {"answered", "failed"} : Commit(q, end)
    BY <1>0, <2>1, WritesOfStep DEF storeVars
  <2> QED BY <2>2 DEF Commit
<1>2. \A u \in transactions : u \in transactions' /\ t.revision_ids \cap u.revision_ids = {}
  BY <1>0, TablesGrow DEF IInv, LogOK, EveryRevisionLogged
<1>3. revisions = UNION {u.revision_ids : u \in transactions}
  BY DEF IInv, LogOK, EveryRevisionLogged
<1> QED BY <1>1, <1>2, <1>3

LEMMA LatestStep == IInv /\ IInv' /\ LatestExists /\ [Next]_vars => LatestExists'
<1> SUFFICES ASSUME IInv, IInv', LatestExists, [Next]_vars PROVE LatestExists'
  OBVIOUS
<1>1. PICK n \in CommittedIds : \A t \in transactions : t.id <= n
  BY DEF LatestExists
<1>2. transactions \subseteq transactions'
  BY TablesGrow DEF IInv
<1>3. n \in Nat /\ \A t \in transactions' : t.id \in Nat
  BY DEF IInv, LogOK, CommittedIds
<1>4. CASE transactions' = transactions
  BY <1>1, <1>4 DEF LatestExists, CommittedIds
<1>5. ASSUME NEW q \in Request, NEW end \in {"answered", "failed"}, Commit(q, end)
      PROVE LatestExists'
  <2>1. transactions' = transactions \cup {LogEntry(q)}
    BY <1>5 DEF Commit
  <2>2. LogEntry(q).id \in Nat
    BY <1>3, <2>1
  <2>3. CASE LogEntry(q).id <= n
    BY <1>1, <2>1, <2>3 DEF LatestExists, CommittedIds
  <2>4. CASE n < LogEntry(q).id
    <3>1. \A t \in transactions' : t.id <= LogEntry(q).id
      BY <1>1, <1>3, <2>1, <2>2, <2>4
    <3> QED BY <2>1, <3>1 DEF LatestExists, CommittedIds
  <2> QED BY <1>3, <2>2, <2>3, <2>4
<1>6. ASSUME NEW q \in Request, InsertRevision(q) PROVE transactions' = transactions
  BY <1>6 DEF InsertRevision, storeVars
<1> QED BY <1>4, <1>5, <1>6, WritesOfStep DEF IInv, storeVars
-----------------------------------------------------------------------------
(* The invariants of ServerPush are invariants beside pulls as well.       *)
PushInv == IInv /\ GraphOrdered /\ LatestExists

LEMMA PushPart == [PullNext]_allVars => [Next]_vars
<1>1. ASSUME NEW p \in Puller,
             \/ PullStep(p) \/ StartPull(p, MaxTransactionId + 1) \/ PullFails(p)
             \/ OtherStep(p) \/ \E o \in ObjectId : StartLookup(p, o)
             \/ Open(p) \/ OpenOffline(p)
      PROVE UNCHANGED vars
  BY <1>1 DEF PullStep, OtherStep, StartPull, ReadUpTo, ReadChanged, ReadHeads, ReadRows,
              Deliver, RejectSince, PullFails, ResetPull, StartLookup, LookupHeads,
              LookupRows, EndLookup, Open, EndOpen, OpenOffline
<1> QED BY <1>1 DEF PullNext, allVars

LEMMA PushInvariance == PullSpec => []PushInv
<1>1. PullInit => PushInv
  <2>1. Init => LatestExists
    BY DEF Init, LatestExists, CommittedIds
  <2> QED BY <2>1, InvInit, OrderInit DEF PullInit, PushInv
<1>2. PushInv /\ [PullNext]_allVars => PushInv'
  BY PushPart, InvStep, OrderStep, LatestStep DEF PushInv
<1> QED BY <1>1, <1>2, PTL DEF PullSpec
-----------------------------------------------------------------------------
(* Every committed revision has a head that succeeds it, in its object.    *)
LEMMA HeadsCover ==
  ASSUME PushInv, NEW r \in revisions
  PROVE  \E h \in object_heads : h[1] = object_id[r] /\ <<r, h[2]>> \in Ancestry
<1> DEFINE S == {x \in revisions : object_id[x] = object_id[r] /\ AncestorOrSelf(r, x)}
<1>0. revisions \subseteq RevisionId
  BY DEF PushInv, IInv, TypeOK
<1>1. r \in S
  BY DEF AncestorOrSelf
<1>2. ASSUME NEW s \in S, NEW x \in revisions, s \in Parents(x) PROVE x \in S
  <2>1. object_id[x] = object_id[s]
    BY <1>2 DEF PushInv, IInv, GraphOK, SameObject
  <2>2. AncestorOrSelf(r, x)
    BY <1>2 DEF AncestorOrSelf
  <2> QED BY <2>1, <2>2
<1>3. PICK s \in S : HeadRow(s) \in object_heads
  <2>1. S \in SUBSET revisions /\ S # {}
    BY <1>1
  <2> HIDE DEF S
  <2> QED BY <1>2, <2>1, HeadOfPart DEF PushInv
<1>4. <<r, s>> \in Ancestry
  BY <1>0 DEF Ancestry
<1> QED BY <1>3, <1>4 DEF HeadRow

(* The heads are committed revisions.                                      *)
LEMMA HeadsCommitted ==
  ASSUME IInv, NEW h \in object_heads
  PROVE  h[2] \in revisions /\ h \in Row
BY DEF IInv, TypeOK, GraphOK, HeadsAreFrontier, Frontier, HeadRow
-----------------------------------------------------------------------------
(* What an open has read is a cursor.                                      *)
OpensOK == \A p \in Puller : pull[p] = "open" => since[p] \in 0 .. MaxTransactionId

PullTypes == PullTypeOK /\ OpensOK

LEMMA PullTypeStep == PushInv /\ PullTypes /\ [PullNext]_allVars => PullTypes'
<1> SUFFICES ASSUME PushInv, PullTypes, [PullNext]_allVars PROVE PullTypes'
  OBVIOUS
<1> USE ServerPullAssumption DEF PullTypes, OpensOK, PullTypeOK, PullPC, GotoPull
<1>0. /\ LatestTransactionId \in 0 .. MaxTransactionId
      /\ object_heads \subseteq Row
      /\ revisions \subseteq RevisionId
      /\ MaxTransactionId \in Nat
      /\ \A x \in SUBSET Row : {h[2] : h \in x} \subseteq RevisionId
  <2>1. CommittedIds \subseteq 0 .. MaxTransactionId
    BY ServerPushAssumption DEF PushInv, IInv, LogOK, TypeOK, CommittedIds
  <2>2. \A h \in Row : h[2] \in RevisionId
    BY DEF Row
  <2> QED BY <2>1, <2>2, LatestIsLargest, ServerPushAssumption DEF PushInv, IInv, TypeOK
<1>1. ASSUME NEW p \in Puller, NEW n \in 0 .. MaxTransactionId + 1, StartPull(p, n)
      PROVE PullTypes'
  BY <1>1 DEF StartPull
<1>2. ASSUME NEW p \in Puller, ReadUpTo(p) PROVE PullTypes'
  BY <1>0, <1>2 DEF ReadUpTo
<1>3. ASSUME NEW p \in Puller, ReadChanged(p) PROVE PullTypes'
  <2>1. ChangedObjects(p) \subseteq ObjectId
    BY RevisionAssumption DEF ChangedObjects, PushInv, IInv, TypeOK, Transaction
  <2> QED BY <1>3, <2>1 DEF ReadChanged
<1>4. ASSUME NEW p \in Puller, ReadHeads(p) PROVE PullTypes'
  BY <1>0, <1>4 DEF ReadHeads
<1>5. ASSUME NEW p \in Puller, ReadRows(p) PROVE PullTypes'
  <2>1. Passing({h \in head_rows[p] : h[2] \in revisions}) \subseteq Row
    BY DEF Passing
  <2> QED BY <1>5, <2>1 DEF ReadRows
<1>6. ASSUME NEW p \in Puller, Deliver(p) PROVE PullTypes'
  <2>1. {h[2] : h \in updates[p]} \subseteq RevisionId
    BY <1>0
  <2> QED BY <1>0, <1>6, <2>1 DEF Deliver, ResetPull
<1>7. ASSUME NEW p \in Puller, RejectSince(p) \/ PullFails(p) \/ EndLookup(p) PROVE PullTypes'
  BY <1>0, <1>7 DEF RejectSince, PullFails, EndLookup, ResetPull
<1>8. ASSUME NEW p \in Puller, NEW o \in ObjectId, StartLookup(p, o) PROVE PullTypes'
  BY <1>0, <1>8 DEF StartLookup
<1>9. ASSUME NEW p \in Puller, LookupHeads(p) PROVE PullTypes'
  BY <1>0, <1>9 DEF LookupHeads, StoredHeads
<1>10. ASSUME NEW p \in Puller, LookupRows(p) PROVE PullTypes'
  BY <1>10 DEF LookupRows
<1>11. ASSUME NEW p \in Puller, Open(p) PROVE PullTypes'
  BY <1>0, <1>11 DEF Open
<1>12. ASSUME NEW p \in Puller, EndOpen(p) PROVE PullTypes'
  BY <1>0, <1>12 DEF EndOpen, ResetPull
<1>13. ASSUME NEW p \in Puller, OpenOffline(p) PROVE PullTypes'
  BY <1>0, <1>13 DEF OpenOffline
<1>14. CASE UNCHANGED pullVars
  BY <1>14 DEF pullVars
<1>15. \A p \in Puller :
         {cursor[client_of[p]], MaxTransactionId + 1} \subseteq 0 .. MaxTransactionId + 1
  BY <1>0
<1> QED
  BY <1>1, <1>2, <1>3, <1>4, <1>5, <1>6, <1>7, <1>8, <1>9, <1>10, <1>11, <1>12, <1>13, <1>14,
     <1>15
  DEF PullNext, PullStep, OtherStep, allVars

(* Every local of a pull and every cursor keeps its type.                  *)
THEOREM PullTypeCorrect == PullSpec => []PullTypeOK
<1>1. PullInit => PullTypes
  BY ServerPushAssumption DEF PullInit, PullTypes, OpensOK, PullTypeOK, PullPC
<1>2. PullTypes => PullTypeOK
  BY DEF PullTypes
<1> QED BY <1>1, <1>2, PullTypeStep, PushInvariance, PTL DEF PullSpec
-----------------------------------------------------------------------------
(***************************************************************************)
(* The inductive invariant of a pull: what each statement read, related to *)
(* the tables as they have become since.                                   *)
(***************************************************************************)
BoundRead == {"changed", "heads", "rows", "answered"}
HeadsRead == {"rows", "answered", "row", "found", "missing"}

(* What was committed when the bound was read is not above it, and its     *)
(* objects are among the changed ones.                                     *)
WindowOK(p) ==
  /\ seen[p] \subseteq revisions
  /\ pull[p] \in BoundRead =>
       \A t \in transactions : t.revision_ids \cap seen[p] # {} => t.id <= up_to[p]
  /\ pull[p] \in {"heads", "rows", "answered"} =>
       \A t \in transactions : since[p] < t.id =>
         \A r \in t.revision_ids \cap seen[p] :
           created_by[r] # client_of[p] => object_id[r] \in changed[p]

(* The head rows read cover what was committed before.                     *)
HeadsOK(p) ==
  /\ \A h \in head_rows[p] : h[2] \in revisions
  /\ pull[p] \notin HeadsRead => head_rows[p] = {}
  /\ pull[p] \in HeadsRead =>
       \A r \in seen[p] : object_id[r] \in changed[p] =>
         \E h \in head_rows[p] : h[1] = object_id[r] /\ <<r, h[2]>> \in Ancestry

UpdatesOK(p) ==
  /\ pull[p] = "answered" => updates[p] = Passing(head_rows[p])
  /\ pull[p] = "found" => updates[p] = head_rows[p]
  /\ pull[p] = "missing" => head_rows[p] = {}
  /\ pull[p] \notin {"answered", "found"} => updates[p] = {}

PullOK(p) == WindowOK(p) /\ HeadsOK(p) /\ UpdatesOK(p)

PullInv == PushInv /\ PullTypes /\ \A p \in Puller : PullOK(p)

SamePull(p) ==
  /\ pull'[p] = pull[p] /\ since'[p] = since[p] /\ up_to'[p] = up_to[p]
  /\ changed'[p] = changed[p] /\ head_rows'[p] = head_rows[p] /\ updates'[p] = updates[p]
  /\ seen'[p] = seen[p]

(* What a pull has read stays good while pushes and other pulls go on.     *)
LEMMA PullFrame ==
  ASSUME PushInv, PushInv', [Next]_vars, NEW p \in Puller, PullOK(p), SamePull(p)
  PROVE  PullOK(p)'
<1>1. revisions \subseteq revisions' /\ transactions \subseteq transactions'
  BY TablesGrow DEF PushInv, IInv
<1>2. \A t \in transactions' \ transactions : t.revision_ids \cap seen[p] = {}
  BY NewTransaction DEF PushInv, PullOK, WindowOK
<1>3. WindowOK(p)'
  BY <1>1, <1>2 DEF PullOK, WindowOK, SamePull
<1>4. HeadsOK(p)'
  BY <1>1 DEF PullOK, HeadsOK, SamePull
<1>5. UpdatesOK(p)'
  BY DEF PullOK, UpdatesOK, SamePull, Passing
<1> QED BY <1>3, <1>4, <1>5 DEF PullOK

LEMMA ResetOK ==
  ASSUME PullInv, NEW p \in Puller, ResetPull(p)
  PROVE  PullOK(p)'
<1>1. /\ pull'[p] = "idle" /\ head_rows'[p] = {} /\ updates'[p] = {} /\ seen'[p] = {}
      /\ UNCHANGED <<revisions, transactions>>
  BY DEF ResetPull, GotoPull, PullInv, PullTypes, PullTypeOK, vars, storeVars
<1> QED BY <1>1 DEF PullOK, WindowOK, HeadsOK, UpdatesOK, BoundRead, HeadsRead

LEMMA ReadUpToOK ==
  ASSUME PullInv, NEW p \in Puller, ReadUpTo(p)
  PROVE  PullOK(p)'
<1>1. /\ pull[p] = "upto" /\ pull'[p] = "changed"
      /\ up_to'[p] = LatestTransactionId /\ seen'[p] = revisions
      /\ UNCHANGED <<revisions, transactions, since, changed, head_rows, updates>>
  BY DEF ReadUpTo, GotoPull, PullInv, PullTypes, PullTypeOK, vars, storeVars
<1>2. \A t \in transactions : t.id <= LatestTransactionId
  BY LatestIsLargest DEF PullInv, PushInv
<1>3. PullOK(p)
  BY DEF PullInv
<1>4. WindowOK(p)'
  BY <1>1, <1>2 DEF WindowOK
<1>5. HeadsOK(p)' /\ UpdatesOK(p)'
  BY <1>1, <1>3 DEF PullOK, HeadsOK, UpdatesOK, HeadsRead
<1> QED BY <1>4, <1>5 DEF PullOK

LEMMA ReadChangedOK ==
  ASSUME PullInv, NEW p \in Puller, ReadChanged(p)
  PROVE  PullOK(p)'
<1>1. /\ pull[p] = "changed" /\ pull'[p] \in {"answered", "heads"}
      /\ changed'[p] = ChangedObjects(p)
      /\ pull'[p] = "answered" => changed'[p] = {}
      /\ UNCHANGED <<revisions, transactions, since, up_to, head_rows, updates, seen>>
  BY DEF ReadChanged, GotoPull, PullInv, PullTypes, PullTypeOK, vars, storeVars
<1>2. PullOK(p)
  BY DEF PullInv
<1>3. WindowOK(p)'
  <2>1. ASSUME NEW t \in transactions, since[p] < t.id,
               NEW r \in t.revision_ids \cap seen[p], created_by[r] # client_of[p]
        PROVE object_id[r] \in ChangedObjects(p)
    <3>1. t.id <= up_to[p]
      BY <1>1, <1>2 DEF PullOK, WindowOK, BoundRead
    <3> QED BY <2>1, <3>1 DEF ChangedObjects
  <2> QED BY <1>1, <1>2, <2>1 DEF PullOK, WindowOK, BoundRead
<1>4. HeadsOK(p)'
  BY <1>1, <1>2 DEF PullOK, HeadsOK, HeadsRead
<1>5. UpdatesOK(p)'
  BY <1>1, <1>2 DEF PullOK, HeadsOK, HeadsRead, UpdatesOK, Passing
<1> QED BY <1>3, <1>4, <1>5 DEF PullOK

(* Both kinds of request read the heads of the objects they want.          *)
LEMMA HeadsOfWanted ==
  ASSUME PullInv, NEW p \in Puller, NEW r \in seen[p], object_id[r] \in changed[p]
  PROVE  \E h \in {g \in object_heads : g[1] \in changed[p]} :
           h[1] = object_id[r] /\ <<r, h[2]>> \in Ancestry
<1>1. r \in revisions
  BY DEF PullInv, PullOK, WindowOK
<1> QED BY <1>1, HeadsCover DEF PullInv

LEMMA ReadHeadsOK ==
  ASSUME PullInv, NEW p \in Puller, ReadHeads(p)
  PROVE  PullOK(p)'
<1>1. /\ pull[p] = "heads" /\ pull'[p] = "rows"
      /\ head_rows'[p] = {h \in object_heads : h[1] \in changed[p]}
      /\ UNCHANGED <<revisions, transactions, since, up_to, changed, updates, seen>>
  BY DEF ReadHeads, GotoPull, PullInv, PullTypes, PullTypeOK, vars, storeVars
<1>2. PullOK(p)
  BY DEF PullInv
<1>3. WindowOK(p)'
  BY <1>1, <1>2 DEF PullOK, WindowOK, BoundRead
<1>4. HeadsOK(p)'
  <2>1. \A h \in head_rows'[p] : h[2] \in revisions
    BY <1>1, HeadsCommitted DEF PullInv, PushInv
  <2> QED BY <1>1, <2>1, HeadsOfWanted DEF HeadsOK, HeadsRead
<1>5. UpdatesOK(p)'
  BY <1>1, <1>2 DEF PullOK, UpdatesOK
<1> QED BY <1>3, <1>4, <1>5 DEF PullOK

LEMMA ReadRowsOK ==
  ASSUME PullInv, NEW p \in Puller, ReadRows(p) \/ LookupRows(p)
  PROVE  PullOK(p)'
<1>1. PullOK(p)
  BY DEF PullInv
<1>2. {h \in head_rows[p] : h[2] \in revisions} = head_rows[p]
  BY <1>1 DEF PullOK, HeadsOK
<1>3. /\ UNCHANGED <<revisions, transactions, since, up_to, changed, head_rows, seen>>
      /\ \/ pull[p] = "rows" /\ pull'[p] = "answered" /\ updates'[p] = Passing(head_rows[p])
         \/ pull[p] = "row" /\ pull'[p] = "found" /\ updates'[p] = head_rows[p]
  BY <1>2 DEF ReadRows, LookupRows, GotoPull, PullInv, PullTypes, PullTypeOK, vars, storeVars
<1>4. WindowOK(p)'
  BY <1>1, <1>3 DEF PullOK, WindowOK, BoundRead
<1>5. HeadsOK(p)'
  BY <1>1, <1>3 DEF PullOK, HeadsOK, HeadsRead
<1>6. UpdatesOK(p)'
  BY <1>3 DEF UpdatesOK, Passing
<1> QED BY <1>4, <1>5, <1>6 DEF PullOK

LEMMA StartOK ==
  ASSUME PullInv, NEW p \in Puller,
         \/ \E n \in 0 .. MaxTransactionId + 1 : StartPull(p, n)
         \/ \E o \in ObjectId : StartLookup(p, o)
         \/ Open(p) \/ OpenOffline(p)
  PROVE  PullOK(p)'
<1>1. PullOK(p)
  BY DEF PullInv
<1>2. /\ UNCHANGED <<revisions, transactions, head_rows, updates>>
      /\ pull[p] = "idle"
      /\ \/ pull'[p] \in {"upto", "open", "idle"} /\ seen'[p] = seen[p]
         \/ pull'[p] = "lookup" /\ seen'[p] = revisions
  BY DEF StartPull, StartLookup, Open, OpenOffline, GotoPull, PullInv, PullTypes, PullTypeOK,
         vars, storeVars
<1>3. WindowOK(p)'
  BY <1>1, <1>2 DEF PullOK, WindowOK, BoundRead
<1>4. HeadsOK(p)' /\ UpdatesOK(p)'
  BY <1>1, <1>2 DEF PullOK, HeadsOK, UpdatesOK, HeadsRead
<1> QED BY <1>3, <1>4 DEF PullOK

LEMMA LookupHeadsOK ==
  ASSUME PullInv, NEW p \in Puller, LookupHeads(p)
  PROVE  PullOK(p)'
<1>1. PullOK(p)
  BY DEF PullInv
<1>2. /\ pull[p] = "lookup" /\ pull'[p] \in {"missing", "row"}
      /\ head_rows'[p] = {h \in object_heads : h[1] \in changed[p]}
      /\ pull'[p] = "missing" => head_rows'[p] = {}
      /\ UNCHANGED <<revisions, transactions, since, up_to, changed, updates, seen>>
  BY DEF LookupHeads, StoredHeads, GotoPull, PullInv, PullTypes, PullTypeOK, vars, storeVars
<1>3. WindowOK(p)'
  BY <1>1, <1>2 DEF PullOK, WindowOK, BoundRead
<1>4. HeadsOK(p)'
  <2>1. \A h \in head_rows'[p] : h[2] \in revisions
    BY <1>2, HeadsCommitted DEF PullInv, PushInv
  <2> QED BY <1>2, <2>1, HeadsOfWanted DEF HeadsOK, HeadsRead
<1>5. UpdatesOK(p)'
  BY <1>1, <1>2 DEF PullOK, UpdatesOK
<1> QED BY <1>3, <1>4, <1>5 DEF PullOK

(* What page p does next.                                                  *)
PullerStep(p) ==
  \/ PullStep(p) \/ StartPull(p, MaxTransactionId + 1) \/ PullFails(p)
  \/ OtherStep(p) \/ \E o \in ObjectId : StartLookup(p, o)
  \/ Open(p) \/ OpenOffline(p)

LEMMA OtherPullers ==
  ASSUME PullTypeOK, NEW p \in Puller, PullerStep(p)
  PROVE  UNCHANGED vars /\ \A d \in Puller \ {p} : SamePull(d)
<1> USE DEF SamePull, GotoPull, PullTypeOK
<1>1. CASE \/ StartPull(p, cursor[client_of[p]]) \/ StartPull(p, MaxTransactionId + 1)
           \/ \E o \in ObjectId : StartLookup(p, o)
  BY <1>1 DEF StartPull, StartLookup
<1>2. CASE ReadUpTo(p) \/ ReadChanged(p) \/ ReadHeads(p) \/ ReadRows(p)
  BY <1>2 DEF ReadUpTo, ReadChanged, ReadHeads, ReadRows
<1>3. CASE LookupHeads(p) \/ LookupRows(p)
  BY <1>3 DEF LookupHeads, LookupRows
<1>4. CASE Deliver(p) \/ EndOpen(p)
  BY <1>4 DEF Deliver, EndOpen, ResetPull
<1>5. CASE RejectSince(p) \/ PullFails(p) \/ EndLookup(p)
  BY <1>5 DEF RejectSince, PullFails, EndLookup, ResetPull
<1>6. CASE Open(p) \/ OpenOffline(p)
  BY <1>6 DEF Open, OpenOffline
<1> QED BY <1>1, <1>2, <1>3, <1>4, <1>5, <1>6 DEF PullerStep, PullStep, OtherStep

LEMMA PullerStepOK ==
  ASSUME PullInv, NEW p \in Puller, PullerStep(p)
  PROVE  PullOK(p)'
<1>1. CASE \/ StartPull(p, cursor[client_of[p]]) \/ StartPull(p, MaxTransactionId + 1)
           \/ \E o \in ObjectId : StartLookup(p, o)
           \/ Open(p) \/ OpenOffline(p)
  <2>1. {cursor[client_of[p]], MaxTransactionId + 1} \subseteq 0 .. MaxTransactionId + 1
    BY ServerPushAssumption, ServerPullAssumption DEF PullInv, PullTypes, PullTypeOK
  <2> QED BY <1>1, <2>1, StartOK
<1>2. CASE ReadUpTo(p)
  BY <1>2, ReadUpToOK
<1>3. CASE ReadChanged(p)
  BY <1>3, ReadChangedOK
<1>4. CASE ReadHeads(p)
  BY <1>4, ReadHeadsOK
<1>5. CASE ReadRows(p) \/ LookupRows(p)
  BY <1>5, ReadRowsOK
<1>6. CASE LookupHeads(p)
  BY <1>6, LookupHeadsOK
<1>7. CASE Deliver(p) \/ RejectSince(p) \/ PullFails(p) \/ EndLookup(p) \/ EndOpen(p)
  <2>1. ResetPull(p)
    BY <1>7 DEF Deliver, RejectSince, PullFails, EndLookup, EndOpen
  <2> QED BY <2>1, ResetOK
<1> QED BY <1>1, <1>2, <1>3, <1>4, <1>5, <1>6, <1>7 DEF PullerStep, PullStep, OtherStep

LEMMA PullInvStep == PullInv /\ PushInv' /\ [PullNext]_allVars => PullInv'
<1> SUFFICES ASSUME PullInv, PushInv', [PullNext]_allVars PROVE PullInv'
  OBVIOUS
<1>1. PullTypes' /\ [Next]_vars
  BY PullTypeStep, PushPart DEF PullInv
<1>2. CASE UNCHANGED pullVars
  <2>1. \A p \in Puller : SamePull(p)
    BY <1>2 DEF pullVars, SamePull
  <2> QED BY <1>1, <2>1, PullFrame DEF PullInv
<1>3. ASSUME NEW p \in Puller, PullerStep(p) PROVE PullInv'
  <2>1. PullOK(p)'
    BY <1>3, PullerStepOK
  <2>2. ASSUME NEW d \in Puller \ {p} PROVE PullOK(d)'
    BY <1>1, <1>3, OtherPullers, PullFrame DEF PullInv, PullTypes
  <2> QED BY <1>1, <2>1, <2>2 DEF PullInv
<1> QED BY <1>2, <1>3 DEF PullNext, PullerStep, allVars

LEMMA PullInvariance == PullSpec => []PullInv
<1>1. PullInit /\ PushInv => PullInv
  <2>1. PullInit => PullTypes
    BY ServerPushAssumption DEF PullInit, PullTypes, OpensOK, PullTypeOK, PullPC
  <2>2. PullInit => \A p \in Puller : PullOK(p)
    BY DEF PullInit, PullOK, WindowOK, HeadsOK, UpdatesOK, BoundRead, HeadsRead
  <2> QED BY <2>1, <2>2 DEF PullInv
<1> QED BY <1>1, PullInvStep, PushInvariance, PTL DEF PullSpec

(* The answer of a pull covers every foreign revision after since that was *)
(* committed when the pull read its bound, whatever commits meanwhile.     *)
THEOREM AnswersCover == PullSpec => []AnswerCoversChanges
<1>1. ASSUME PullInv, NEW p \in Puller, pull[p] = "answered",
             NEW t \in transactions, since[p] < t.id,
             NEW r \in t.revision_ids \cap seen[p], created_by[r] # client_of[p]
      PROVE LET heads == {h \in head_rows[p] : h[1] = object_id[r]}
            IN  \/ \E h \in updates[p] : <<r, h[2]>> \in Ancestry
                \/ heads # {} /\ \A h \in heads : h[2] \notin Match
  <2>1. PullOK(p)
    BY <1>1 DEF PullInv
  <2>2. object_id[r] \in changed[p]
    BY <1>1, <2>1 DEF PullOK, WindowOK
  <2>3. PICK h \in head_rows[p] : h[1] = object_id[r] /\ <<r, h[2]>> \in Ancestry
    BY <1>1, <2>1, <2>2 DEF PullOK, HeadsOK, HeadsRead
  <2>4. updates[p] = Passing(head_rows[p])
    BY <1>1, <2>1 DEF PullOK, UpdatesOK
  <2> QED BY <2>3, <2>4 DEF Passing
<1>2. PullInv => AnswerCoversChanges
  BY <1>1 DEF AnswerCoversChanges
<1> QED BY <1>2, PullInvariance, PTL

(* A lookup, whose two reads share no snapshot, covers every revision that *)
(* its object had when it began.                                           *)
THEOREM LookupsComplete == PullSpec => []LookupIsComplete
<1>1. ASSUME PullInv, NEW p \in Puller, pull[p] \in {"found", "missing"},
             NEW r \in seen[p], object_id[r] \in changed[p]
      PROVE \E h \in updates[p] : <<r, h[2]>> \in Ancestry
  <2>1. PullOK(p)
    BY <1>1 DEF PullInv
  <2>2. PICK h \in head_rows[p] : <<r, h[2]>> \in Ancestry
    BY <1>1, <2>1 DEF PullOK, HeadsOK, HeadsRead
  <2> QED BY <1>1, <2>1, <2>2 DEF PullOK, UpdatesOK
<1>2. PullInv => LookupIsComplete
  BY <1>1 DEF LookupIsComplete
<1> QED BY <1>2, PullInvariance, PTL

-----------------------------------------------------------------------------
(***************************************************************************)
(* A cursor can pass a transaction by that drew a smaller id and commits   *)
(* later (run pull_skips).  With one pooled connection it cannot: a pull   *)
(* reads its bound while no transaction is open, so every id drawn later   *)
(* is above it.  The cursor need not move forward for that: a page may     *)
(* store an older value over a newer one, because every value a page holds *)
(* was safe for its client when it was read, and what is safe stays so.    *)
(***************************************************************************)
(* n is safe as a cursor of client c: it is above no id that a committing  *)
(* request holds, and what is committed up to it has been delivered.       *)
SafeCursor(c, n) ==
  /\ n \in CommittedIds
  /\ \A q \in Request : pc[q] = "commit" => n < txid[q]
  /\ \A t \in transactions : t.id <= n =>
       \A r \in t.revision_ids : created_by[r] # c => Covered(c, r)

(* The value a page read from its client's cursor.                         *)
HeldOK(p) ==
  /\ pull[p] \in BoundRead \cup {"open"} => SafeCursor(client_of[p], since[p])
  /\ pull[p] = "upto" =>
       since[p] = MaxTransactionId + 1 \/ SafeCursor(client_of[p], since[p])

(* The bound it read, and what was committed by then.                      *)
BoundOK(p) ==
  pull[p] \in BoundRead =>
    /\ up_to[p] \in CommittedIds
    /\ \A q \in Request : pc[q] = "commit" => up_to[p] < txid[q]
    /\ \A t \in transactions : t.id <= up_to[p] => t.revision_ids \subseteq seen[p]

SerialInv ==
  /\ \A c \in ClientId : SafeCursor(c, cursor[c])
  /\ \A p \in Puller : HeldOK(p) /\ BoundOK(p)

(* An id in the hands of a request was there before or has just been drawn.*)
LEMMA DrawnIds ==
  ASSUME TypeOK, [Next]_vars, NEW q \in Request, pc'[q] = "commit"
  PROVE  \/ pc[q] = "commit" /\ txid'[q] = txid[q]
         \/ txid'[q] = txn_seq + 1
<1> USE DEF TypeOK, Goto
<1>1. ASSUME NEW p \in Request, NEW c \in ClientId, NEW b \in Batch, Receive(p, c, b)
      PROVE pc[q] = "commit" /\ txid'[q] = txid[q]
  BY <1>1 DEF Receive
<1>2. ASSUME NEW p \in Request,
             \/ RejectForeign(p) \/ RejectExisting(p) \/ RejectRepeatedParent(p)
             \/ RejectParent(p) \/ PassExists(p) \/ Accept(p)
      PROVE pc[q] = "commit" /\ txid'[q] = txid[q]
  BY <1>2 DEF RejectForeign, RejectExisting, RejectRepeatedParent, RejectParent, Reject,
              PassExists, Accept
<1>3. ASSUME NEW p \in Request,
             \/ RespondNothingAccepted(p) \/ BeginTransaction(p) \/ SkipRejected(p)
             \/ InsertRevision(p) \/ \E row \in Row : DeleteHead(p, row)
             \/ InsertHead(p)
      PROVE pc[q] = "commit" /\ txid'[q] = txid[q]
  BY <1>3 DEF RespondNothingAccepted, BeginTransaction, SkipRejected, InsertRevision,
              DeleteHead, InsertHead
<1>4. ASSUME NEW p \in Request,
             InsertViolation(p) \/ SequenceExhausted(p) \/ Fail(p) \/ DeadlockVictim(p)
      PROVE pc[q] = "commit" /\ txid'[q] = txid[q]
  BY <1>4 DEF InsertViolation, SequenceExhausted, Fail, DeadlockVictim, Rollback
<1>5. ASSUME NEW p \in Request, NEW end \in {"answered", "failed"}, Commit(p, end)
      PROVE pc[q] = "commit" /\ txid'[q] = txid[q]
  BY <1>5 DEF Commit
<1>6. ASSUME NEW p \in Request, Finish(p)
      PROVE pc[q] = "commit" /\ txid'[q] = txid[q]
  BY <1>6 DEF Finish
<1>7. ASSUME NEW p \in Request, CreateTransaction(p)
      PROVE \/ pc[q] = "commit" /\ txid'[q] = txid[q]
            \/ txid'[q] = txn_seq + 1
  BY <1>7 DEF CreateTransaction
<1>8. CASE UNCHANGED vars
  BY <1>8 DEF vars
<1> QED BY <1>1, <1>2, <1>3, <1>4, <1>5, <1>6, <1>7, <1>8 DEF Next, Step

(* With one connection a statement outside runs only between transactions. *)
LEMMA OneConnection ==
  ASSUME PoolSize = 1, FreeConnection, NEW q \in Request
  PROVE  ~InTransaction(q)
<1> DEFINE Holders == {p \in Request : InTransaction(p)}
<1>1. IsFiniteSet(Holders)
  BY ServerPushAssumption, FS_Subset
<1>2. Cardinality(Holders) = 0
  BY <1>1, FS_CardinalityType DEF FreeConnection
<1>3. Holders = {}
  BY <1>1, <1>2, FS_EmptySet
<1> QED BY <1>3

(* What is committed and drawn after n stays above n.                      *)
LEMMA AboveKept ==
  ASSUME PullInv, PullInv', [Next]_vars, NEW n \in CommittedIds,
         \A q \in Request : pc[q] = "commit" => n < txid[q]
  PROVE  /\ n \in CommittedIds'
         /\ \A q \in Request : pc'[q] = "commit" => n < txid'[q]
         /\ \A t \in transactions' \ transactions : ~(t.id <= n)
<1>0. TypeOK /\ txn_seq \in Nat /\ n \in Nat /\ n <= txn_seq
  BY DEF PullInv, PushInv, IInv, TypeOK, LogOK, CommittedIds
<1>1. n \in CommittedIds'
  BY TablesGrow DEF PullInv, PushInv, IInv, CommittedIds
<1>2. ASSUME NEW q \in Request, pc'[q] = "commit" PROVE n < txid'[q]
  BY <1>0, <1>2, DrawnIds
<1>3. ASSUME NEW t \in transactions', t \notin transactions PROVE ~(t.id <= n)
  <2>1. PICK q \in Request : pc[q] = "commit" /\ t = LogEntry(q)
    BY <1>3, NewTransaction DEF PullInv, PushInv
  <2>2. t.id = txid[q] /\ txid[q] \in Nat
    BY <1>0, <2>1 DEF LogEntry, TypeOK
  <2> QED BY <1>0, <2>1, <2>2
<1> QED BY <1>1, <1>2, <1>3

(* What is safe as a cursor stays so while more is delivered.              *)
LEMMA SafeKept ==
  ASSUME PullInv, PullInv', [Next]_vars, NEW c \in ClientId, NEW n, SafeCursor(c, n),
         delivered[c] \subseteq delivered'[c]
  PROVE  /\ n \in CommittedIds'
         /\ \A q \in Request : pc'[q] = "commit" => n < txid'[q]
         /\ \A t \in transactions' : t.id <= n =>
              \A r \in t.revision_ids : created_by[r] # c =>
                \E d \in delivered'[c] : <<r, d>> \in Ancestry
<1>1. /\ n \in CommittedIds'
      /\ \A q \in Request : pc'[q] = "commit" => n < txid'[q]
      /\ \A t \in transactions' \ transactions : ~(t.id <= n)
  BY AboveKept DEF SafeCursor
<1>2. ASSUME NEW t \in transactions', t.id <= n, NEW r \in t.revision_ids, created_by[r] # c
      PROVE \E d \in delivered'[c] : <<r, d>> \in Ancestry
  BY <1>1, <1>2 DEF SafeCursor, Covered
<1> QED BY <1>1, <1>2

(* No cursor at all is always safe.                                        *)
LEMMA ZeroIsSafe ==
  ASSUME PullInv, NEW c \in ClientId
  PROVE  SafeCursor(c, 0)
BY DEF PullInv, PushInv, IInv, LogOK, DrawnOK, TypeOK, SafeCursor, CommittedIds

LEMMA DeliveredGrows ==
  ASSUME PullTypeOK, [PullNext]_allVars
  PROVE  \A c \in ClientId : delivered[c] \subseteq delivered'[c]
<1> USE DEF PullTypeOK
<1>1. ASSUME NEW p \in Puller, Deliver(p)
      PROVE \A c \in ClientId : delivered[c] \subseteq delivered'[c]
  BY <1>1, ServerPullAssumption DEF Deliver
<1>2. ASSUME NEW p \in Puller, PullerStep(p), ~Deliver(p) PROVE UNCHANGED delivered
  BY <1>2 DEF PullerStep, PullStep, OtherStep, StartPull, ReadUpTo, ReadChanged, ReadHeads,
              ReadRows, RejectSince, PullFails, StartLookup, LookupHeads, LookupRows,
              EndLookup, Open, EndOpen, OpenOffline
<1>3. CASE UNCHANGED pullVars
  BY <1>3 DEF pullVars
<1> QED BY <1>1, <1>2, <1>3 DEF PullNext, PullerStep, allVars

(* A page that does nothing keeps what it holds.                           *)
LEMMA HeldFrame ==
  ASSUME PullInv, PullInv', [PullNext]_allVars, NEW p \in Puller, SamePull(p),
         HeldOK(p), BoundOK(p)
  PROVE  HeldOK(p)' /\ BoundOK(p)'
<1>0. [Next]_vars /\ client_of[p] \in ClientId
      /\ \A c \in ClientId : delivered[c] \subseteq delivered'[c]
  BY PushPart, DeliveredGrows, ServerPullAssumption DEF PullInv, PullTypes
<1>1. ASSUME SafeCursor(client_of[p], since[p]) PROVE SafeCursor(client_of[p], since[p])'
  BY <1>0, <1>1, SafeKept DEF SafeCursor, Covered, SamePull
<1>2. HeldOK(p)'
  BY <1>1 DEF HeldOK, SamePull
<1>3. BoundOK(p)'
  <2>1. SUFFICES ASSUME pull[p] \in BoundRead
                 PROVE  /\ up_to[p] \in CommittedIds'
                        /\ \A q \in Request : pc'[q] = "commit" => up_to[p] < txid'[q]
                        /\ \A t \in transactions' : t.id <= up_to[p] =>
                             t.revision_ids \subseteq seen[p]
    BY DEF BoundOK, SamePull
  <2>2. /\ up_to[p] \in CommittedIds'
        /\ \A q \in Request : pc'[q] = "commit" => up_to[p] < txid'[q]
        /\ \A t \in transactions' \ transactions : ~(t.id <= up_to[p])
    BY <1>0, <2>1, AboveKept DEF BoundOK
  <2> QED BY <2>1, <2>2 DEF BoundOK
<1> QED BY <1>2, <1>3

(* What a page holds after a step of its own.                              *)
LEMMA HeldStep ==
  ASSUME PoolSize = 1, PullInv, PullInv', NEW p \in Puller, PullerStep(p), SerialInv
  PROVE  HeldOK(p)' /\ BoundOK(p)'
<1>0. /\ UNCHANGED <<transactions, pc, txid>> /\ PullTypeOK /\ client_of[p] \in ClientId
      /\ HeldOK(p) /\ SafeCursor(client_of[p], cursor[client_of[p]])
  BY OtherPullers, ServerPullAssumption DEF PullInv, PullTypes, SerialInv, vars, storeVars
<1>1. CASE ReadUpTo(p)
  <2>1. \A q \in Request : pc[q] # "commit"
    BY <1>1, OneConnection DEF ReadUpTo, InTransaction
  <2>2. /\ pull[p] = "upto" /\ pull'[p] = "changed" /\ since'[p] = since[p]
        /\ since[p] <= MaxTransactionId
        /\ up_to'[p] = LatestTransactionId /\ seen'[p] = revisions /\ delivered' = delivered
    BY <1>0, <1>1 DEF ReadUpTo, GotoPull, PullTypeOK
  <2>3. \A t \in transactions : t.revision_ids \subseteq revisions
    BY DEF PullInv, PushInv, IInv, LogOK, EveryRevisionLogged
  <2>4. LatestTransactionId \in CommittedIds
    BY LatestIsLargest DEF PullInv, PushInv
  <2>5. BoundOK(p)'
    BY <1>0, <2>1, <2>2, <2>3, <2>4 DEF BoundOK, CommittedIds
  <2>6. since[p] # MaxTransactionId + 1
    BY <2>2, ServerPushAssumption
  <2>7. SafeCursor(client_of[p], since[p])
    BY <1>0, <2>2, <2>6 DEF HeldOK
  <2> QED BY <1>0, <2>2, <2>5, <2>7 DEF HeldOK, SafeCursor, Covered, CommittedIds
<1>2. CASE ReadChanged(p) \/ ReadHeads(p) \/ ReadRows(p)
  <2>1. /\ pull[p] \in BoundRead /\ pull'[p] \in BoundRead
        /\ UNCHANGED <<since, up_to, seen, delivered>>
    BY <1>0, <1>2 DEF ReadChanged, ReadHeads, ReadRows, GotoPull, BoundRead, PullTypeOK
  <2>2. HeldOK(p)'
    BY <1>0, <2>1 DEF HeldOK, SafeCursor, Covered, CommittedIds, BoundRead
  <2>3. BoundOK(p)'
    BY <1>0, <2>1 DEF SerialInv, BoundOK, CommittedIds
  <2> QED BY <2>2, <2>3
<1>3. CASE StartPull(p, cursor[client_of[p]]) \/ StartPull(p, MaxTransactionId + 1) \/ Open(p)
  <2>1. /\ pull'[p] \in {"upto", "open"} /\ UNCHANGED delivered
        /\ \/ since'[p] = cursor[client_of[p]]
           \/ pull'[p] = "upto" /\ since'[p] = MaxTransactionId + 1
    BY <1>0, <1>3 DEF StartPull, Open, GotoPull, PullTypeOK
  <2> QED BY <1>0, <2>1 DEF HeldOK, BoundOK, BoundRead, SafeCursor, Covered, CommittedIds
<1>4. CASE \/ Deliver(p) \/ RejectSince(p) \/ PullFails(p) \/ OtherStep(p) \/ OpenOffline(p)
           \/ \E o \in ObjectId : StartLookup(p, o)
  <2>1. pull'[p] \notin BoundRead \cup {"open", "upto"}
    BY <1>0, <1>4
    DEF Deliver, RejectSince, PullFails, OtherStep, StartLookup, LookupHeads, LookupRows,
        EndLookup, EndOpen, OpenOffline, ResetPull, GotoPull, BoundRead, PullTypeOK
  <2> QED BY <2>1 DEF HeldOK, BoundOK
<1> QED BY <1>1, <1>2, <1>3, <1>4 DEF PullerStep, PullStep

(* The bound of an answer is safe once the answer has been delivered.      *)
LEMMA BoundIsSafe ==
  ASSUME Match = RevisionId, PullInv, SerialInv, NEW p \in Puller, Deliver(p)
  PROVE  SafeCursor(client_of[p], cursor[client_of[p]])'
<1>0. /\ UNCHANGED <<transactions, pc, txid>> /\ PullTypeOK /\ PullOK(p)
      /\ client_of[p] \in ClientId /\ HeldOK(p) /\ BoundOK(p)
  BY OtherPullers, ServerPullAssumption
  DEF PullInv, PullTypes, SerialInv, vars, storeVars, PullerStep, PullStep
<1>1. /\ pull[p] = "answered" /\ cursor'[client_of[p]] = up_to[p]
      /\ delivered'[client_of[p]] = delivered[client_of[p]] \cup {h[2] : h \in updates[p]}
  BY <1>0 DEF Deliver, PullTypeOK
<1>2. ASSUME NEW t \in transactions, t.id <= up_to[p], NEW r \in t.revision_ids,
             created_by[r] # client_of[p]
      PROVE \E d \in delivered'[client_of[p]] : <<r, d>> \in Ancestry
  <2>1. CASE t.id <= since[p]
    BY <1>0, <1>1, <1>2, <2>1 DEF HeldOK, SafeCursor, Covered, BoundRead
  <2>2. CASE ~(t.id <= since[p])
    <3>1. since[p] < t.id /\ r \in seen[p]
      <4>1. t.id \in Nat /\ since[p] \in Nat
        BY <1>0 DEF PullInv, PushInv, IInv, LogOK, PullTypeOK
      <4>2. t.revision_ids \subseteq seen[p]
        BY <1>0, <1>1, <1>2 DEF BoundOK, BoundRead
      <4> QED BY <2>2, <4>1, <4>2
    <3>2. object_id[r] \in changed[p]
      BY <1>0, <1>1, <1>2, <3>1 DEF PullOK, WindowOK
    <3>3. PICK h \in head_rows[p] : h[1] = object_id[r] /\ <<r, h[2]>> \in Ancestry
      BY <1>0, <1>1, <3>1, <3>2 DEF PullOK, HeadsOK, HeadsRead
    <3>4. h[2] \in Match
      BY <1>0, <3>3 DEF PullTypeOK, Row
    <3>5. h \in updates[p]
      BY <1>0, <1>1, <3>3, <3>4 DEF PullOK, UpdatesOK, Passing
    <3> QED BY <1>1, <3>3, <3>5
  <2> QED BY <2>1, <2>2
<1>3. /\ up_to[p] \in CommittedIds
      /\ \A q \in Request : pc[q] = "commit" => up_to[p] < txid[q]
  BY <1>0, <1>1 DEF BoundOK, BoundRead
<1> QED BY <1>0, <1>1, <1>2, <1>3 DEF SafeCursor, Covered, CommittedIds

(* Every value a page stores as the cursor is safe for its client.         *)
LEMMA CursorStep ==
  ASSUME Match = RevisionId, PullInv, PullInv', SerialInv, [PullNext]_allVars,
         NEW c \in ClientId
  PROVE  SafeCursor(c, cursor[c])'
<1>0. /\ [Next]_vars /\ PullTypeOK /\ delivered[c] \subseteq delivered'[c]
      /\ SafeCursor(c, cursor[c]) /\ SafeCursor(c, 0)
  BY PushPart, DeliveredGrows, ZeroIsSafe DEF PullInv, PullTypes, SerialInv
<1>1. ASSUME NEW n, SafeCursor(c, n), cursor'[c] = n PROVE SafeCursor(c, cursor[c])'
  BY <1>0, <1>1, SafeKept DEF SafeCursor, Covered
<1>2. ASSUME NEW p \in Puller, Deliver(p) PROVE SafeCursor(c, cursor[c])'
  <2>1. CASE c = client_of[p]
    BY <1>2, <2>1, BoundIsSafe
  <2>2. CASE c # client_of[p]
    BY <1>0, <1>1, <1>2, <2>2 DEF Deliver, PullTypeOK
  <2> QED BY <2>1, <2>2
<1>3. ASSUME NEW p \in Puller, EndOpen(p) PROVE SafeCursor(c, cursor[c])'
  <2>1. SafeCursor(client_of[p], since[p])
    BY <1>3 DEF EndOpen, SerialInv, HeldOK
  <2>2. \/ cursor'[c] = cursor[c]
        \/ c = client_of[p] /\ cursor'[c] = since[p]
    BY <1>0, <1>3, ServerPullAssumption DEF EndOpen, PullTypeOK
  <2> QED BY <1>0, <1>1, <2>1, <2>2
<1>4. ASSUME NEW p \in Puller, OpenOffline(p) PROVE SafeCursor(c, cursor[c])'
  <2>1. cursor'[c] = cursor[c] \/ cursor'[c] = 0
    BY <1>0, <1>4, ServerPullAssumption DEF OpenOffline, PullTypeOK
  <2> QED BY <1>0, <1>1, <2>1
<1>5. ASSUME UNCHANGED cursor PROVE SafeCursor(c, cursor[c])'
  BY <1>0, <1>1, <1>5
<1>6. ASSUME NEW p \in Puller, PullerStep(p), ~Deliver(p), ~EndOpen(p), ~OpenOffline(p)
      PROVE UNCHANGED cursor
  BY <1>6 DEF PullerStep, PullStep, OtherStep, StartPull, ReadUpTo, ReadChanged, ReadHeads,
              ReadRows, RejectSince, PullFails, StartLookup, LookupHeads, LookupRows,
              EndLookup, Open
<1>7. UNCHANGED pullVars => UNCHANGED cursor
  BY DEF pullVars
<1> QED BY <1>2, <1>3, <1>4, <1>5, <1>6, <1>7 DEF PullNext, PullerStep, allVars

(* With one pooled connection and a filter that every revision passes, no  *)
(* cursor is ever past a foreign revision its owner has not received,      *)
(* although pages overtake each other and write older cursors back.        *)
THEOREM OneConnectionSkipsNothing ==
  ASSUME PoolSize = 1, Match = RevisionId
  PROVE  PullSpec => []NothingSkipped
<1>1. PullInit => SerialInv
  BY ServerPullAssumption
  DEF PullInit, Init, SerialInv, HeldOK, BoundOK, SafeCursor, BoundRead, CommittedIds
<1>2. PullInv /\ PullInv' /\ SerialInv /\ [PullNext]_allVars => SerialInv'
  <2> SUFFICES ASSUME PullInv, PullInv', SerialInv, [PullNext]_allVars PROVE SerialInv'
    OBVIOUS
  <2>1. \A c \in ClientId : SafeCursor(c, cursor[c])'
    BY CursorStep
  <2>2. ASSUME UNCHANGED pullVars, NEW p \in Puller PROVE HeldOK(p)' /\ BoundOK(p)'
    <3>1. SamePull(p)
      BY <2>2 DEF pullVars, SamePull
    <3> QED BY <3>1, HeldFrame DEF SerialInv
  <2>3. ASSUME NEW p \in Puller, PullerStep(p), NEW d \in Puller
        PROVE HeldOK(d)' /\ BoundOK(d)'
    <3>1. CASE d = p
      BY <2>3, <3>1, HeldStep
    <3>2. CASE d # p
      <4>1. SamePull(d)
        BY <2>3, <3>2, OtherPullers DEF PullInv, PullTypes
      <4> QED BY <4>1, HeldFrame DEF SerialInv
    <3> QED BY <3>1, <3>2
  <2>4. \A p \in Puller : HeldOK(p)' /\ BoundOK(p)'
    BY <2>2, <2>3 DEF PullNext, PullerStep, allVars
  <2> QED BY <2>1, <2>4 DEF SerialInv
<1>3. SerialInv => NothingSkipped
  BY DEF SerialInv, SafeCursor, NothingSkipped
<1> QED BY <1>1, <1>2, <1>3, PullInvariance, PTL DEF PullSpec
=============================================================================
