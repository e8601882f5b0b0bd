------------------------ MODULE ServerLineageProofs -------------------------
(***************************************************************************)
(* Proofs about ServerPush, continued: the revision graph that the pushes  *)
(* build has no cycle and every object in it a head, and the answers are   *)
(* true.  All of it is induction over steps on top of ServerPushProofs'    *)
(* IInv; that revisions are finitely many is nowhere assumed.              *)
(***************************************************************************)
EXTENDS ServerPushProofs

(* Every part of R has a revision without a parent and one without a child *)
(* in that part: following lineage ends, whichever way it is followed.     *)
Ordered(R) ==
  /\ \A S \in SUBSET R : S # {} => \E r \in S : Parents(r) \cap S = {}
  /\ \A S \in SUBSET R : S # {} => \E r \in S : \A s \in S : r \notin Parents(s)

LEMMA OrderedOne ==
  ASSUME NEW r, r \notin Parents(r)
  PROVE  Ordered({r})
BY DEF Ordered

LEMMA OrderedPart ==
  ASSUME NEW A, NEW B, Ordered(A), B \subseteq A
  PROVE  Ordered(B)
BY DEF Ordered

(* An ordered set closed under parents can be extended by any other.       *)
LEMMA OrderedUnion ==
  ASSUME NEW A, NEW B, Ordered(A), Ordered(B), \A a \in A : Parents(a) \subseteq A
  PROVE  Ordered(A \cup B)
<1>1. ASSUME NEW S \in SUBSET (A \cup B), S # {}
      PROVE \E r \in S : Parents(r) \cap S = {}
  <2>1. CASE S \cap A = {}
    BY <1>1, <2>1 DEF Ordered
  <2>2. CASE S \cap A # {}
    <3>1. PICK r \in S \cap A : Parents(r) \cap (S \cap A) = {}
      BY <2>2 DEF Ordered
    <3> QED BY <3>1
  <2> QED BY <2>1, <2>2
<1>2. ASSUME NEW S \in SUBSET (A \cup B), S # {}
      PROVE \E r \in S : \A s \in S : r \notin Parents(s)
  <2>1. CASE S \subseteq A
    BY <1>2, <2>1 DEF Ordered
  <2>2. CASE S \ A # {}
    <3>1. S \ A \in SUBSET B
      OBVIOUS
    <3>2. PICK r \in S \ A : \A s \in S \ A : r \notin Parents(s)
      BY <2>2, <3>1 DEF Ordered
    <3> QED BY <3>2
  <2> QED BY <2>1, <2>2
<1> QED BY <1>1, <1>2 DEF Ordered
-----------------------------------------------------------------------------
(* What has to be carried along: the committed graph is ordered, and so it *)
(* is with the inserts of any one open transaction.                        *)
GraphOrdered ==
  /\ Ordered(revisions)
  /\ \A q \in Request : Ordered(revisions \cup ins[q])

(* Steps other than an insert or a commit write no revision.               *)
LEMMA WritesOfStep ==
  ASSUME TypeOK, [Next]_vars
  PROVE  \/ \E q \in Request : InsertRevision(q)
         \/ \E q \in Request, end \in {"answered", "failed"} : Commit(q, end)
         \/ /\ UNCHANGED storeVars
            /\ \A q \in Request : ins'[q] = ins[q] \/ ins'[q] = {}
<1> USE DEF storeVars, request, writes
<1>1. ASSUME NEW q \in Request, NEW c \in ClientId, NEW b \in Batch, Receive(q, c, b)
      PROVE UNCHANGED <<storeVars, ins>>
  BY <1>1 DEF Receive
<1>2. ASSUME NEW q \in Request,
             \/ RejectForeign(q) \/ RejectExisting(q) \/ PassExists(q)
             \/ RejectRepeatedParent(q) \/ RejectParent(q) \/ Accept(q)
             \/ RespondNothingAccepted(q)
      PROVE UNCHANGED <<storeVars, ins>>
  BY <1>2 DEF RejectForeign, RejectExisting, PassExists, RejectRepeatedParent, RejectParent,
              Accept, RespondNothingAccepted, Reject
<1>3. ASSUME NEW q \in Request,
             \/ BeginTransaction(q) \/ SkipRejected(q)
             \/ \E row \in Row : DeleteHead(q, row)
             \/ InsertHead(q) \/ CreateTransaction(q) \/ Finish(q)
      PROVE UNCHANGED <<storeVars, ins>>
  BY <1>3 DEF BeginTransaction, SkipRejected, DeleteHead, InsertHead, CreateTransaction, Finish
<1>4. ASSUME NEW q \in Request,
             InsertViolation(q) \/ SequenceExhausted(q) \/ Fail(q) \/ DeadlockVictim(q)
      PROVE /\ UNCHANGED storeVars
            /\ \A p \in Request : ins'[p] = ins[p] \/ ins'[p] = {}
  <2>1. Rollback(q)
    BY <1>4 DEF InsertViolation, SequenceExhausted, Fail, DeadlockVictim
  <2> QED BY <2>1 DEF Rollback, ForgetWrites, TypeOK
<1>5. CASE UNCHANGED vars
  BY <1>5 DEF vars
<1> QED BY <1>1, <1>2, <1>3, <1>4, <1>5 DEF Next, Step

LEMMA OrderStep == IInv /\ GraphOrdered /\ [Next]_vars => GraphOrdered'
<1> SUFFICES ASSUME IInv, GraphOrdered, [Next]_vars PROVE GraphOrdered'
  OBVIOUS
<1>0. TypeOK /\ \A q \in Request : \A r \in revisions \cup ins[q] :
        Parents(r) \subseteq revisions \cup ins[q]
  BY DEF IInv, GraphOK, InsertsOK
<1>1. ASSUME NEW q \in Request, InsertRevision(q) PROVE GraphOrdered'
  <2>1. /\ rev(q) \in accepted[q] /\ revisions' = revisions
        /\ ins'[q] = ins[q] \cup {rev(q)}
        /\ \A p \in Request \ {q} : ins'[p] = ins[p]
    BY <1>0, <1>1 DEF InsertRevision, Inserting, TypeOK, storeVars
  <2>2. Ordered({rev(q)})
    BY <2>1, OrderedOne DEF IInv, LocalsOK
  <2>3. Ordered((revisions \cup ins[q]) \cup {rev(q)})
    BY <1>0, <2>2, OrderedUnion DEF GraphOrdered
  <2>4. (revisions \cup ins[q]) \cup {rev(q)} = revisions' \cup ins'[q]
    BY <2>1
  <2>5. Ordered(revisions' \cup ins'[q])
    BY <2>3, <2>4
  <2> QED BY <2>1, <2>5 DEF GraphOrdered, Ordered
<1>2. ASSUME NEW q \in Request, NEW end \in {"answered", "failed"}, Commit(q, end)
      PROVE GraphOrdered'
  <2>1. /\ revisions' = revisions \cup ins[q] /\ ins'[q] = {}
        /\ \A p \in Request \ {q} : ins'[p] = ins[p]
    BY <1>0, <1>2 DEF Commit, ForgetWrites, TypeOK
  <2>2. Ordered(revisions')
    BY <2>1 DEF GraphOrdered
  <2>3. ASSUME NEW p \in Request PROVE Ordered(revisions' \cup ins'[p])
    <3>1. Ordered((revisions \cup ins[q]) \cup (revisions \cup ins[p]))
      BY <1>0, OrderedUnion DEF GraphOrdered
    <3>2. revisions' \cup ins'[p] \subseteq (revisions \cup ins[q]) \cup (revisions \cup ins[p])
      BY <2>1
    <3> QED BY <3>1, <3>2, OrderedPart
  <2> QED BY <2>2, <2>3 DEF GraphOrdered, Ordered
<1>3. CASE /\ UNCHANGED storeVars
           /\ \A q \in Request : ins'[q] = ins[q] \/ ins'[q] = {}
  <2>1. revisions' = revisions
    BY <1>3 DEF storeVars
  <2>2. ASSUME NEW q \in Request PROVE Ordered(revisions' \cup ins'[q])
    <3>1. revisions' \cup ins'[q] \subseteq revisions \cup ins[q]
      BY <1>3, <2>1
    <3> QED BY <3>1, OrderedPart DEF GraphOrdered
  <2> QED BY <2>1, <2>2 DEF GraphOrdered, Ordered
<1> QED BY <1>0, <1>1, <1>2, <1>3, WritesOfStep

LEMMA OrderInit == Init => GraphOrdered
BY DEF Init, GraphOrdered, Ordered

LEMMA GraphInvariance == Spec => [](IInv /\ GraphOrdered)
BY InvInit, InvStep, OrderInit, OrderStep, PTL DEF Spec

(* The committed graph is closed under parents, stays within objects and   *)
(* has no cycle, although parents are looked up outside the transaction    *)
(* that stores their child.                                                *)
THEOREM LineageCorrect == Spec => []LineageSound
<1>1. IInv /\ GraphOrdered => LineageSound
  BY DEF IInv, GraphOK, GraphOrdered, Ordered, LineageSound
<1> QED BY <1>1, GraphInvariance, PTL

(* A part of the graph that has all children of its members has a head.    *)
LEMMA HeadOfPart ==
  ASSUME IInv, GraphOrdered, NEW S \in SUBSET revisions, S # {},
         \A s \in S : \A r \in revisions : s \in Parents(r) => r \in S
  PROVE  \E s \in S : HeadRow(s) \in object_heads
<1>1. PICK s \in S : \A x \in S : s \notin Parents(x)
  BY DEF GraphOrdered, Ordered
<1>2. HeadRow(s) \in Frontier(revisions)
  BY <1>1, InFrontier
<1> QED BY <1>2 DEF IInv, GraphOK, HeadsAreFrontier

(* Every object with a committed revision has a head row.                  *)
THEOREM HeadsExist == Spec => []EveryObjectHasHead
<1>1. ASSUME IInv, GraphOrdered, NEW r \in revisions
      PROVE \E h \in object_heads : h[1] = object_id[r]
  <2> DEFINE S == {x \in revisions : object_id[x] = object_id[r]}
  <2>1. \A s \in S : \A x \in revisions : s \in Parents(x) => x \in S
    BY <1>1 DEF IInv, GraphOK, SameObject
  <2>2. PICK s \in S : HeadRow(s) \in object_heads
    <3>1. S \in SUBSET revisions /\ S # {}
      OBVIOUS
    <3> HIDE DEF S
    <3> QED BY <1>1, <2>1, <3>1, HeadOfPart
  <2> QED BY <2>2 DEF HeadRow
<1>2. IInv /\ GraphOrdered => EveryObjectHasHead
  BY <1>1 DEF EveryObjectHasHead
<1> QED BY <1>2, GraphInvariance, PTL
-----------------------------------------------------------------------------
(***************************************************************************)
(* Answers.  The verdict on a revision is reached before the transaction   *)
(* and told after it: what it says has to survive until then.              *)
(***************************************************************************)
Disposed(q, i) ==
  \/ batch[q][i] \in accepted[q]
  \/ \E x \in rejected[q] : x.revision_id = batch[q][i]

VerdictsOK(q) ==
  /\ Validating(q) => \A i \in DOMAIN batch[q] : i < pos[q] => Disposed(q, i)
  /\ pc[q] \in {"insert", "heads", "commit", "answered"} =>
       \A i \in DOMAIN batch[q] : Disposed(q, i)
  /\ \A x \in rejected[q] : x.reason = "DuplicateRevisionId" => x.revision_id \in revisions
  /\ pc[q] = "answered" /\ accepted[q] # {} => LogEntry(q) \in transactions

(* Nothing that is committed goes away.                                    *)
LEMMA TablesGrow ==
  ASSUME TypeOK, [Next]_vars
  PROVE  revisions \subseteq revisions' /\ transactions \subseteq transactions'
<1>1. ASSUME NEW q \in Request, InsertRevision(q)
      PROVE revisions \subseteq revisions' /\ transactions \subseteq transactions'
  BY <1>1 DEF InsertRevision, storeVars
<1>2. ASSUME NEW q \in Request, NEW end \in {"answered", "failed"}, Commit(q, end)
      PROVE revisions \subseteq revisions' /\ transactions \subseteq transactions'
  BY <1>2 DEF Commit
<1> QED BY <1>1, <1>2, WritesOfStep DEF storeVars

(* A slot whose locals stay as they are keeps its verdicts.                *)
LEMMA VerdictsKept ==
  ASSUME TypeOK, [Next]_vars, NEW q \in Request, VerdictsOK(q), SameSlot(q)
  PROVE  VerdictsOK(q)'
<1>1. revisions \subseteq revisions' /\ transactions \subseteq transactions'
  BY TablesGrow
<1>2. LogEntry(q)' = LogEntry(q) /\ \A i : Disposed(q, i)' <=> Disposed(q, i)
  BY DEF SameSlot, LogEntry, Disposed
<1> QED BY <1>1, <1>2 DEF VerdictsOK, SameSlot, Validating

LEMMA RejectVerdict ==
  ASSUME IInv, NEW q \in Request, VerdictsOK(q), Validating(q), ~AtEnd(q),
         NEW reason, Reject(q, reason),
         reason = "DuplicateRevisionId" => rev(q) \in revisions
  PROVE  VerdictsOK(q)'
<1> DEFINE x == [revision_id |-> rev(q), reason |-> reason]
<1>1. /\ pc'[q] = "exists" /\ pos'[q] = pos[q] + 1 /\ rejected'[q] = rejected[q] \cup {x}
      /\ UNCHANGED <<batch, accepted, revisions>>
  BY DEF Reject, Goto, NextRevision, IInv, TypeOK, request, storeVars
<1>2. x.revision_id = rev(q) /\ x.reason = reason
  OBVIOUS
<1> HIDE DEF x
<1>3. ASSUME NEW i \in DOMAIN batch[q], i < pos[q] + 1 PROVE Disposed(q, i)'
  <2>1. CASE i = pos[q]
    BY <1>1, <1>2, <2>1 DEF Disposed, rev
  <2>2. CASE i # pos[q]
    <3>1. i < pos[q]
      BY <1>3, <2>2 DEF IInv, TypeOK
    <3>2. Disposed(q, i)
      BY <3>1 DEF VerdictsOK
    <3> QED BY <1>1, <3>2 DEF Disposed
  <2> QED BY <2>1, <2>2
<1>4. \A y \in rejected'[q] : y.reason = "DuplicateRevisionId" => y.revision_id \in revisions'
  BY <1>1, <1>2 DEF VerdictsOK
<1> QED BY <1>1, <1>3, <1>4 DEF VerdictsOK, Validating

LEMMA AcceptVerdict ==
  ASSUME IInv, NEW q \in Request, VerdictsOK(q), Accept(q)
  PROVE  VerdictsOK(q)'
<1>1. /\ pc[q] = "parents" /\ pc'[q] = "exists" /\ pos'[q] = pos[q] + 1
      /\ accepted'[q] = accepted[q] \cup {rev(q)}
      /\ UNCHANGED <<batch, rejected, revisions>>
  BY DEF Accept, Goto, NextRevision, IInv, TypeOK, request, storeVars
<1>2. ASSUME NEW i \in DOMAIN batch[q], i < pos[q] + 1 PROVE Disposed(q, i)'
  <2>1. CASE i = pos[q]
    BY <1>1, <2>1 DEF Disposed, rev
  <2>2. CASE i # pos[q]
    <3>1. i < pos[q]
      BY <1>2, <2>2 DEF IInv, TypeOK
    <3>2. Disposed(q, i)
      BY <1>1, <3>1 DEF VerdictsOK, Validating
    <3> QED BY <1>1, <3>2 DEF Disposed
  <2> QED BY <2>1, <2>2
<1> QED BY <1>1, <1>2 DEF VerdictsOK, Validating

(* The loop over the batch has ended, so that every revision is disposed   *)
(* of.                                                                     *)
LEMMA AllDisposed ==
  ASSUME IInv, NEW q \in Request, VerdictsOK(q), pc[q] = "exists", AtEnd(q)
  PROVE  \A i \in DOMAIN batch[q] : Disposed(q, i)
<1>1. \A i \in DOMAIN batch[q] : i < pos[q]
  BY DEF IInv, TypeOK, AtEnd
<1> QED BY <1>1 DEF VerdictsOK, Validating
(* Steps that leave the verdicts of q alone, on the way to an answer.      *)
LEMMA QuietVerdict ==
  ASSUME TypeOK, [Next]_vars, NEW q \in Request, VerdictsOK(q),
         batch'[q] = batch[q], accepted'[q] = accepted[q], rejected'[q] = rejected[q],
         \/ Validating(q) /\ Validating(q)' /\ pos'[q] = pos[q]
         \/ InTransaction(q) /\ InTransaction(q)'
         \/ pc'[q] = "failed"
  PROVE  VerdictsOK(q)'
<1>1. revisions \subseteq revisions'
  BY TablesGrow
<1>2. \A i : Disposed(q, i)' <=> Disposed(q, i)
  BY DEF Disposed
<1> QED BY <1>1, <1>2 DEF VerdictsOK, Validating, InTransaction

LEMMA RollbackVerdict ==
  ASSUME TypeOK, [Next]_vars, NEW q \in Request, VerdictsOK(q), Rollback(q)
  PROVE  VerdictsOK(q)' /\ \A p \in Request \ {q} : SameSlot(p)
<1> USE DEF Rollback, ForgetWrites, Goto, request, TypeOK
<1>1. \A p \in Request \ {q} : SameSlot(p)
  BY DEF SameSlot
<1>2. /\ batch'[q] = batch[q] /\ accepted'[q] = accepted[q] /\ rejected'[q] = rejected[q]
      /\ pc'[q] = "failed"
  OBVIOUS
<1> HIDE DEF Rollback, TypeOK
<1> QED BY <1>1, <1>2, QuietVerdict

(* A step of slot q, which leaves the others alone, keeps its verdicts.    *)
LEMMA VerdictStep ==
  ASSUME IInv, [Next]_vars, \A p \in Request : VerdictsOK(p)
  PROVE  \A p \in Request : VerdictsOK(p)'
<1>0. TypeOK
  BY DEF IInv
<1> DEFINE Ok(q) == VerdictsOK(q)' /\ \A p \in Request \ {q} : SameSlot(p)
<1> USE DEF storeVars, request, writes, Goto, NextRevision
<1>1. ASSUME NEW q \in Request, NEW c \in ClientId, NEW b \in Batch, Receive(q, c, b)
      PROVE Ok(q)
  <2>1. \A p \in Request \ {q} : SameSlot(p)
    BY <1>0, <1>1 DEF Receive, SameSlot, TypeOK
  <2>2. pc'[q] = "exists" /\ pos'[q] = 1 /\ rejected'[q] = {} /\ batch'[q] \in Seq(RevisionId)
    BY <1>0, <1>1, ServerPushAssumption DEF Receive, IInv, LocalsOK, TypeOK
  <2>3. \A i \in DOMAIN batch'[q] : ~(i < 1)
    BY <2>2
  <2> QED BY <2>1, <2>2, <2>3 DEF VerdictsOK, Validating
<1>2. ASSUME NEW q \in Request,
             \/ RejectForeign(q) \/ RejectExisting(q)
             \/ RejectRepeatedParent(q) \/ RejectParent(q)
      PROVE Ok(q)
  <2>1. PICK reason : /\ Reject(q, reason) /\ Validating(q) /\ ~AtEnd(q)
                      /\ reason = "DuplicateRevisionId" => rev(q) \in revisions
    BY <1>2 DEF RejectForeign, RejectExisting, RejectRepeatedParent, RejectParent, Validating,
                IInv, InLoop
  <2>2. VerdictsOK(q)'
    BY <2>1, RejectVerdict
  <2>3. \A p \in Request \ {q} : SameSlot(p)
    BY <1>0, <2>1 DEF Reject, SameSlot, TypeOK
  <2> QED BY <2>2, <2>3
<1>3. ASSUME NEW q \in Request, Accept(q) PROVE Ok(q)
  <2>1. \A p \in Request \ {q} : SameSlot(p)
    BY <1>0, <1>3 DEF Accept, SameSlot, TypeOK
  <2> QED BY <1>3, <2>1, AcceptVerdict
<1>4. ASSUME NEW q \in Request, PassExists(q) PROVE Ok(q)
  <2>1. \A p \in Request \ {q} : SameSlot(p)
    BY <1>0, <1>4 DEF PassExists, SameSlot, TypeOK
  <2>2. Validating(q) /\ Validating(q)' /\ UNCHANGED <<batch, accepted, rejected, pos>>
    BY <1>0, <1>4 DEF PassExists, Validating, TypeOK
  <2> QED BY <1>0, <2>1, <2>2, QuietVerdict
<1>5. ASSUME NEW q \in Request, RespondNothingAccepted(q) \/ BeginTransaction(q) PROVE Ok(q)
  <2>1. \A p \in Request \ {q} : SameSlot(p)
    BY <1>0, <1>5 DEF RespondNothingAccepted, BeginTransaction, SameSlot, TypeOK
  <2>2. /\ pc[q] = "exists" /\ AtEnd(q)
        /\ UNCHANGED <<revisions, batch, accepted, rejected>>
        /\ \/ pc'[q] = "insert"
           \/ pc'[q] = "answered" /\ accepted[q] = {}
    BY <1>0, <1>5 DEF RespondNothingAccepted, BeginTransaction, TypeOK
  <2>3. \A i \in DOMAIN batch[q] : Disposed(q, i)
    BY <2>2, AllDisposed
  <2>4. VerdictsOK(q)'
    BY <2>2, <2>3 DEF VerdictsOK, Disposed, Validating
  <2> QED BY <2>1, <2>4
<1>6. ASSUME NEW q \in Request,
             \/ SkipRejected(q) \/ InsertRevision(q)
             \/ \E row \in Row : DeleteHead(q, row)
             \/ InsertHead(q) \/ CreateTransaction(q)
      PROVE Ok(q)
  <2> USE DEF SkipRejected, InsertRevision, Inserting, DeleteHead, InsertHead, CreateTransaction
  <2>1. \A p \in Request \ {q} : SameSlot(p)
    BY <1>0, <1>6 DEF SameSlot, TypeOK
  <2>2. InTransaction(q) /\ InTransaction(q)' /\ UNCHANGED <<batch, accepted, rejected>>
    BY <1>0, <1>6 DEF InTransaction, TypeOK
  <2> QED BY <1>0, <2>1, <2>2, QuietVerdict
<1>7. ASSUME NEW q \in Request,
             InsertViolation(q) \/ SequenceExhausted(q) \/ Fail(q) \/ DeadlockVictim(q)
      PROVE Ok(q)
  <2>1. Rollback(q)
    BY <1>7 DEF InsertViolation, SequenceExhausted, Fail, DeadlockVictim
  <2> QED BY <1>0, <2>1, RollbackVerdict
<1>8. ASSUME NEW q \in Request, NEW end \in {"answered", "failed"}, Commit(q, end) PROVE Ok(q)
  <2>1. \A p \in Request \ {q} : SameSlot(p)
    BY <1>0, <1>8 DEF Commit, ForgetWrites, SameSlot, TypeOK
  <2>2. /\ pc[q] = "commit" /\ pc'[q] \in {"answered", "failed"}
        /\ UNCHANGED <<batch, client, accepted, rejected, txid>>
        /\ LogEntry(q) \in transactions' /\ revisions \subseteq revisions'
    BY <1>0, <1>8 DEF Commit, TypeOK
  <2>3. LogEntry(q)' = LogEntry(q) /\ \A i : Disposed(q, i)' <=> Disposed(q, i)
    BY <2>2 DEF LogEntry, Disposed
  <2>4. VerdictsOK(q)'
    BY <2>2, <2>3 DEF VerdictsOK, Validating
  <2> QED BY <2>1, <2>4
<1>9. ASSUME NEW q \in Request, Finish(q) PROVE Ok(q)
  <2>1. \A p \in Request \ {q} : SameSlot(p)
    BY <1>0, <1>9 DEF Finish, SameSlot, TypeOK
  <2>2. pc'[q] = "idle" /\ rejected'[q] = {}
    BY <1>0, <1>9 DEF Finish, TypeOK
  <2> QED BY <2>1, <2>2 DEF VerdictsOK, Validating
<1>10. CASE UNCHANGED vars
  <2>1. \A p \in Request : SameSlot(p)
    BY <1>10 DEF vars, SameSlot
  <2> QED BY <1>0, <2>1, VerdictsKept
<1>11. ASSUME NEW q \in Request, Ok(q) PROVE \A p \in Request : VerdictsOK(p)'
  BY <1>0, <1>11, VerdictsKept
<1> HIDE DEF Ok
<1> QED BY <1>1, <1>2, <1>3, <1>4, <1>5, <1>6, <1>7, <1>8, <1>9, <1>10, <1>11 DEF Next, Step

(* What a push is told is true: every revision of its batch has a verdict, *)
(* the accepted ones are stored under the transaction it names, and those  *)
(* called duplicates are stored.                                           *)
THEOREM AnswersCorrect == Spec => []AnswersAreTruthful
<1> DEFINE V == \A q \in Request : VerdictsOK(q)
<1>1. Init => V
  BY DEF Init, VerdictsOK, Validating
<1>2. IInv /\ V /\ [Next]_vars => V'
  BY VerdictStep
<1>3. IInv /\ V => AnswersAreTruthful
  <2> SUFFICES ASSUME IInv, V, NEW q \in Request, pc[q] = "answered"
               PROVE /\ \A i \in DOMAIN batch[q] : Disposed(q, i)
                     /\ accepted[q] # {} => LogEntry(q) \in transactions
                     /\ accepted[q] \subseteq revisions
                     /\ \A x \in rejected[q] :
                          x.reason = "DuplicateRevisionId" => x.revision_id \in revisions
    BY DEF AnswersAreTruthful, Disposed
  <2>1. VerdictsOK(q)
    OBVIOUS
  <2>2. accepted[q] # {} => LogEntry(q) \in transactions /\ LogEntry(q).revision_ids = accepted[q]
    BY <2>1 DEF VerdictsOK, LogEntry
  <2>3. accepted[q] \subseteq revisions
    BY <2>2 DEF IInv, LogOK, EveryRevisionLogged
  <2> QED BY <2>1, <2>3 DEF VerdictsOK
<1> HIDE DEF V
<1> QED BY <1>1, <1>2, <1>3, Invariance, PTL DEF Spec
=============================================================================
