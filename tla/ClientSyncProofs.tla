-------------------------- MODULE ClientSyncProofs --------------------------
(***************************************************************************)
(* The repositories of any number of clients, each with any number of      *)
(* pages, against one server.                                              *)
(***************************************************************************)
EXTENDS ClientSync, SetInduction

KeyCount == Len(KeyOrder)

LEMMA KeyFacts ==
  /\ KeyCount \in Nat /\ DOMAIN KeyOrder = 1 .. KeyCount
  /\ \A n \in 1 .. KeyCount : Key(n) \in RevisionId
BY ClientSyncAssumption DEF KeyCount, Key
-----------------------------------------------------------------------------
(* What the server accepts of a batch, revision by revision.               *)
AcceptedStep(K, c, B, n, A) ==
  IF Key(n) \in B /\ Verdict(K, c, Key(n), A) = "ok" THEN A \cup {Key(n)} ELSE A

LEMMA AcceptedRecursion ==
  ASSUME NEW K, NEW c, NEW B
  PROVE  /\ AcceptedOf(K, c, B)[0] = {}
         /\ \A n \in 1 .. KeyCount :
              AcceptedOf(K, c, B)[n] = AcceptedStep(K, c, B, n, AcceptedOf(K, c, B)[n - 1])
<1> DEFINE N == KeyCount
           Body(f, n) == IF n = 0 THEN {} ELSE AcceptedStep(K, c, B, n, f[n - 1])
           Upto(f, k) == f = [n \in 0 .. k |-> Body(f, n)]
           F == CHOOSE f : Upto(f, N)
<1>0. N \in Nat
  BY KeyFacts
<1>1. AcceptedOf(K, c, B) = F
  BY DEF AcceptedOf, AcceptedStep, KeyCount
<1>2. \E f : Upto(f, N)
  <2> DEFINE S == {k \in Nat : \E f : Upto(f, k)}
  <2>1. 0 \in S
    <3>1. Upto([n \in 0 .. 0 |-> {}], 0)
      OBVIOUS
    <3> QED BY <3>1
  <2>2. ASSUME NEW k \in Nat, k \in S PROVE k + 1 \in S
    <3>1. PICK f : Upto(f, k)
      BY <2>2
    <3> DEFINE g == [n \in 0 .. k + 1 |-> Body(f, n)]
    <3>2. \A n \in 0 .. k : g[n] = f[n]
      <4> HIDE DEF Body
      <4> QED BY <3>1
    <3>3. \A n \in 0 .. k + 1 : Body(g, n) = Body(f, n)
      <4> HIDE DEF g
      <4>1. ASSUME NEW n \in 0 .. k + 1, n # 0 PROVE g[n - 1] = f[n - 1]
        <5>1. n - 1 \in 0 .. k
          BY <4>1
        <5> QED BY <3>2, <5>1
      <4> QED BY <4>1
    <3>4. Upto(g, k + 1)
      <4> HIDE DEF Body
      <4> QED BY <3>3
    <3> HIDE DEF g, Upto
    <3> QED BY <3>4
  <2> HIDE DEF S
  <2>3. Nat \subseteq S
    BY <2>1, <2>2, NaturalsInSet
  <2> QED BY <1>0, <2>3 DEF S
<1>3. Upto(F, N)
  <2> HIDE DEF Upto
  <2> QED BY <1>2
<1> HIDE DEF F, N
<1>4. \A n \in 0 .. N : F[n] = Body(F, n)
  <2> HIDE DEF Body
  <2> QED BY <1>3
<1>5. F[0] = {}
  BY <1>0, <1>4
<1>6. \A n \in 1 .. N : F[n] = AcceptedStep(K, c, B, n, F[n - 1])
  BY <1>0, <1>4
<1> QED BY <1>1, <1>5, <1>6 DEF N

(* Accepted revisions are new ones of the batch, by the caller, and what   *)
(* they build on is committed or accepted as well.                         *)
LEMMA AcceptedFacts ==
  ASSUME NEW K, NEW c, NEW B, NEW n \in 0 .. KeyCount
  PROVE  /\ AcceptedOf(K, c, B)[n] \subseteq B \cap RevisionId
         /\ AcceptedOf(K, c, B)[n] \subseteq AcceptedOf(K, c, B)[KeyCount]
         /\ \A r \in AcceptedOf(K, c, B)[n] :
              /\ created_by[r] = c /\ r \notin K
              /\ Parents(r) \subseteq K \cup AcceptedOf(K, c, B)[n]
<1> DEFINE acc == AcceptedOf(K, c, B)
           N == KeyCount
           Fine(A) == /\ A \subseteq B \cap RevisionId
                      /\ \A r \in A : /\ created_by[r] = c /\ r \notin K
                                      /\ Parents(r) \subseteq K \cup A
           S == {k \in Nat : k <= N => Fine(acc[k])}
           T == {k \in Nat : \A m \in 0 .. N : m + k <= N => acc[m] \subseteq acc[m + k]}
<1>0. N \in Nat
  BY KeyFacts
<1>1. acc[0] = {} /\ \A k \in 1 .. N : acc[k] = AcceptedStep(K, c, B, k, acc[k - 1])
  BY AcceptedRecursion
<1> HIDE DEF acc, N
<1>2. ASSUME NEW k \in Nat, k + 1 <= N PROVE acc[k + 1] = AcceptedStep(K, c, B, k + 1, acc[k])
  <2>1. k + 1 \in 1 .. N /\ (k + 1) - 1 = k
    BY <1>0, <1>2
  <2> QED BY <1>1, <2>1
<1>3. Nat \subseteq S
  <2>1. 0 \in S
    BY <1>1
  <2>2. ASSUME NEW k \in Nat, k \in S PROVE k + 1 \in S
    <3> SUFFICES ASSUME k + 1 <= N PROVE Fine(acc[k + 1])
      OBVIOUS
    <3>1. Fine(acc[k])
      BY <1>0, <2>2
    <3>2. acc[k + 1] = AcceptedStep(K, c, B, k + 1, acc[k])
      BY <1>2
    <3>3. CASE Key(k + 1) \in B /\ Verdict(K, c, Key(k + 1), acc[k]) = "ok"
      <4>1. acc[k + 1] = acc[k] \cup {Key(k + 1)}
        BY <3>2, <3>3 DEF AcceptedStep
      <4>2. /\ created_by[Key(k + 1)] = c /\ Key(k + 1) \notin K
            /\ Parents(Key(k + 1)) \subseteq K \cup acc[k]
        BY <3>3 DEF Verdict
      <4>3. Key(k + 1) \in RevisionId
        BY <1>0, KeyFacts DEF N
      <4> QED BY <3>1, <3>3, <4>1, <4>2, <4>3
    <3>4. CASE ~(Key(k + 1) \in B /\ Verdict(K, c, Key(k + 1), acc[k]) = "ok")
      BY <3>1, <3>2, <3>4 DEF AcceptedStep
    <3> QED BY <3>3, <3>4
  <2> HIDE DEF S
  <2> QED BY <2>1, <2>2, NaturalsInSet
<1>4. Nat \subseteq T
  <2>1. 0 \in T
    BY <1>0
  <2>2. ASSUME NEW k \in Nat, k \in T PROVE k + 1 \in T
    <3> SUFFICES ASSUME NEW m \in 0 .. N, m + (k + 1) <= N PROVE acc[m] \subseteq acc[m + (k + 1)]
      OBVIOUS
    <3>1. m + k \in Nat /\ m + k <= N /\ (m + k) + 1 = m + (k + 1)
      BY <1>0
    <3>2. acc[m] \subseteq acc[m + k]
      BY <2>2, <3>1
    <3>3. acc[m + (k + 1)] = AcceptedStep(K, c, B, m + (k + 1), acc[m + k])
      BY <1>0, <1>2, <3>1
    <3> QED BY <3>2, <3>3 DEF AcceptedStep
  <2> HIDE DEF T
  <2> QED BY <2>1, <2>2, NaturalsInSet
<1>5. n \in Nat /\ n <= N /\ N - n \in Nat /\ n + (N - n) = N
  BY <1>0 DEF N
<1>6. acc[n] \subseteq acc[N]
  <2>1. N - n \in T
    BY <1>4, <1>5
  <2> QED BY <1>0, <1>5, <2>1
<1>7. Fine(acc[n])
  BY <1>3, <1>5
<1> QED BY <1>6, <1>7 DEF acc, N

(* What is not accepted is refused for a reason.                           *)
LEMMA RejectedFacts ==
  ASSUME NEW K, NEW c, NEW B, NEW n \in 1 .. KeyCount,
         Key(n) \in B \ AcceptedOf(K, c, B)[KeyCount]
  PROVE  Verdict(K, c, Key(n), AcceptedOf(K, c, B)[n - 1]) \in RejectionReason
<1> DEFINE acc == AcceptedOf(K, c, B)
<1>1. acc[n] = AcceptedStep(K, c, B, n, acc[n - 1])
  BY AcceptedRecursion
<1>2. acc[n] \subseteq acc[KeyCount]
  BY KeyFacts, AcceptedFacts
<1>3. Verdict(K, c, Key(n), acc[n - 1]) # "ok"
  BY <1>1, <1>2 DEF AcceptedStep
<1> HIDE DEF acc
<1>4. Verdict(K, c, Key(n), acc[n - 1]) \in RejectionReason \cup {"ok"}
  BY DEF Verdict, RejectionReason
<1> QED BY <1>3, <1>4 DEF acc
-----------------------------------------------------------------------------
(* Types.                                                                  *)
All(s) == AcceptedOf(Committed, client_of[s], batch[s])[KeyCount]

LEMMA PushTypes ==
  ASSUME TypeOK, NEW s \in Session
  PROVE  /\ All(s) \in SUBSET RevisionId
         /\ StorePush(s) => /\ log' \in Seq(SUBSET RevisionId)
                            /\ Len(log) <= Len(log')
         /\ ServePush(s) => /\ accepted' = [accepted EXCEPT ![s] = All(s)]
                            /\ rejected' \in [Session -> SUBSET Rejections]
<1>1. All(s) \in SUBSET RevisionId
  BY KeyFacts, AcceptedFacts DEF All
<1>2. ASSUME StorePush(s) PROVE log' \in Seq(SUBSET RevisionId) /\ Len(log) <= Len(log')
  <2>1. log' = log \/ log' = Append(log, All(s))
    BY <1>2 DEF StorePush, All, KeyCount
  <2>2. log \in Seq(SUBSET RevisionId)
    BY DEF TypeOK
  <2>3. /\ Append(log, All(s)) \in Seq(SUBSET RevisionId)
        /\ Len(Append(log, All(s))) = Len(log) + 1 /\ Len(log) \in Nat
    BY <1>1, <2>2
  <2> QED BY <2>1, <2>2, <2>3
<1>3. ASSUME ServePush(s) PROVE rejected' \in [Session -> SUBSET Rejections]
  <2> DEFINE c == client_of[s]
             acc == AcceptedOf(Committed, c, batch[s])
             R == {[revision_id |-> Key(n), reason |-> Verdict(Committed, c, Key(n), acc[n - 1])] :
                     n \in {m \in DOMAIN KeyOrder : Key(m) \in batch[s] \ acc[KeyCount]}}
  <2>1. rejected' = [rejected EXCEPT ![s] = R]
    BY <1>3 DEF ServePush, KeyCount
  <2>2. ASSUME NEW n \in DOMAIN KeyOrder, Key(n) \in batch[s] \ acc[KeyCount]
        PROVE  /\ Key(n) \in RevisionId
               /\ Verdict(Committed, c, Key(n), acc[n - 1]) \in RejectionReason
    BY <2>2, KeyFacts, RejectedFacts
  <2>3. R \in SUBSET Rejections
    BY <2>2 DEF Rejections
  <2> HIDE DEF R
  <2> QED BY <2>1, <2>3 DEF TypeOK
<1>4. ServePush(s) => accepted' = [accepted EXCEPT ![s] = All(s)]
  BY DEF ServePush, All, KeyCount
<1> QED BY <1>1, <1>2, <1>3, <1>4

LEMMA FrontierRows ==
  ASSUME NEW S \in SUBSET RevisionId
  PROVE  Frontier(S) \subseteq Row
BY RevisionAssumption DEF Frontier, HeadRow, Row

LEMMA CommittedType == TypeOK => Committed \subseteq RevisionId
BY DEF TypeOK, Committed

LEMMA UpdatesRows ==
  ASSUME TypeOK, NEW c, NEW n
  PROVE  UpdatesSince(c, n) \subseteq Row
BY CommittedType, FrontierRows DEF UpdatesSince

LEMMA ReplacedType ==
  ASSUME TypeOK, NEW c \in ClientId, NEW o, NEW rows \in SUBSET Row
  PROVE  ReplacedBy(c, o, rows) \in SUBSET Row
BY DEF TypeOK, ReplacedBy

StepOf(s) ==
  \/ \E r \in RevisionId : StartWrite(s, r)
  \/ WriteStep(s) \/ SyncStep(s) \/ Lose(s) \/ Crash(s)

(* A longer log keeps the types of the cursors.                            *)
LEMMA EndSyncType ==
  ASSUME TypeOK, NEW s \in Session, EndSync(s), UNCHANGED <<status, heads>>,
         log' \in Seq(SUBSET RevisionId), Len(log) <= Len(log'),
         cursor' \in [ClientId -> 0 .. Len(log')],
         wpc' \in [Session -> {"idle", "put", "heads"}], wrev' \in [Session -> RevisionId]
  PROVE  TypeOK'
<1>1. Len(log) \in Nat /\ Len(log') \in Nat
  BY DEF TypeOK
<1>2. 0 .. Len(log) \subseteq 0 .. Len(log')
  BY <1>1
<1>3. since' \in [Session -> 0 .. Len(log')] /\ up_to' \in [Session -> 0 .. Len(log')]
  BY <1>1, <1>2 DEF TypeOK, EndSync
<1>4. /\ spc' \in [Session -> {"idle", "pending", "push", "mark", "apply", "replace"}]
      /\ batch' \in [Session -> SUBSET RevisionId]
      /\ accepted' \in [Session -> SUBSET RevisionId]
      /\ rejected' \in [Session -> SUBSET Rejections]
  BY DEF TypeOK, EndSync, GotoSync
<1>5. /\ updates' \in [Session -> SUBSET Row]
      /\ stored' \in [Session -> SUBSET Row]
      /\ existing' \in [Session -> SUBSET Row]
  BY DEF TypeOK, EndSync
<1> QED BY <1>3, <1>4, <1>5 DEF TypeOK

LEMMA WriteTypes ==
  ASSUME TypeOK, NEW s \in Session, (\E r \in RevisionId : StartWrite(s, r)) \/ WriteStep(s)
  PROVE  TypeOK'
<1> USE DEF store, writer, pushing, pulling
<1>0. client_of[s] \in ClientId /\ wrev[s] \in RevisionId /\ NoRevision \in RevisionId
  BY ClientSyncAssumption DEF TypeOK, NoRevision
<1>1. ASSUME NEW r \in RevisionId, StartWrite(s, r) PROVE TypeOK'
  BY <1>1 DEF StartWrite, TypeOK
<1>2. ASSUME PutRevision(s) PROVE TypeOK'
  <2>1. status' \in [ClientId -> [RevisionId -> SyncStatus]]
    BY <1>0, <1>2 DEF PutRevision, TypeOK, SyncStatus
  <2> QED BY <1>2, <2>1 DEF PutRevision, TypeOK
<1>3. ASSUME ReplaceHeads(s) PROVE TypeOK'
  <2>1. {HeadRow(wrev[s])} \in SUBSET Row
    BY <1>0, RevisionAssumption DEF HeadRow, Row
  <2>2. heads' \in [ClientId -> SUBSET Row]
    BY <1>0, <1>3, <2>1, ReplacedType DEF ReplaceHeads, TypeOK
  <2> QED BY <1>0, <1>3, <2>2 DEF ReplaceHeads, TypeOK
<1> QED BY <1>1, <1>2, <1>3 DEF WriteStep

LEMMA SyncTypes ==
  ASSUME TypeOK, NEW s \in Session, SyncStep(s)
  PROVE  TypeOK'
<1> USE DEF store, writer, pushing, pulling, GotoSync
<1>0. client_of[s] \in ClientId /\ Len(log) \in Nat
  BY ClientSyncAssumption DEF TypeOK
<1>1. ASSUME StartSync(s) PROVE TypeOK'
  BY <1>0, <1>1 DEF StartSync, TypeOK
<1>2. ASSUME ReadPending(s) PROVE TypeOK'
  <2>1. PendingRevisions(client_of[s]) \in SUBSET RevisionId
    BY DEF PendingRevisions
  <2> QED BY <1>2, <2>1 DEF ReadPending, TypeOK
<1>3. ASSUME Push(s) PROVE TypeOK'
  <2>1. /\ log' \in Seq(SUBSET RevisionId) /\ Len(log) <= Len(log')
        /\ accepted' \in [Session -> SUBSET RevisionId]
        /\ rejected' \in [Session -> SUBSET Rejections]
    <3>1. StorePush(s) /\ ServePush(s)
      BY <1>3 DEF Push, ServePush
    <3> QED BY <3>1, PushTypes DEF TypeOK
  <2>2. Len(log') \in Nat /\ 0 .. Len(log) \subseteq 0 .. Len(log')
    BY <1>0, <2>1
  <2> QED BY <1>3, <2>1, <2>2 DEF Push, TypeOK
<1>4. ASSUME NEW r \in RevisionId, MarkSynced(s, r) PROVE TypeOK'
  <2>1. status' \in [ClientId -> [RevisionId -> SyncStatus]]
    BY <1>0, <1>4 DEF MarkSynced, TypeOK, SyncStatus
  <2> QED BY <1>4, <2>1 DEF MarkSynced, TypeOK
<1>5. ASSUME NEW x \in rejected[s], MarkError(s, x) PROVE TypeOK'
  <2>1. x.revision_id \in RevisionId /\ x.reason \in SyncStatus
    BY DEF TypeOK, Rejections, SyncStatus
  <2>2. status' \in [ClientId -> [RevisionId -> SyncStatus]]
    BY <1>0, <1>5, <2>1 DEF MarkError, TypeOK
  <2> QED BY <1>5, <2>2 DEF MarkError, TypeOK
<1>6. ASSUME Pull(s) PROVE TypeOK'
  BY <1>0, <1>6, UpdatesRows DEF Pull, TypeOK
<1>7. ASSUME NEW h \in updates[s], PutPulled(s, h) PROVE TypeOK'
  <2>1. h \in Row /\ h[2] \in RevisionId
    BY DEF TypeOK, Row
  <2>2. status' \in [ClientId -> [RevisionId -> SyncStatus]]
    BY <1>0, <1>7, <2>1 DEF PutPulled, TypeOK, SyncStatus
  <2> QED BY <1>7, <2>1, <2>2 DEF PutPulled, TypeOK
<1>8. ASSUME NEW o \in ObjectId, ReadLocalHeads(s, o) PROVE TypeOK'
  BY <1>0, <1>8 DEF ReadLocalHeads, TypeOK
<1>9. ASSUME NEW o \in ObjectId, ApplyConflict(s, o) PROVE TypeOK'
  BY <1>0, <1>9 DEF ApplyConflict, NextUpdate, TypeOK
<1>10. ASSUME ApplyReplace(s) PROVE TypeOK'
  <2>1. PICK o \in ObjectId : heads' = [heads EXCEPT ![client_of[s]] =
          IF Diverged(s) THEN @ \cup stored[s] ELSE ReplacedBy(client_of[s], o, stored[s])]
    BY <1>10 DEF ApplyReplace
  <2>2. ReplacedBy(client_of[s], o, stored[s]) \in SUBSET Row
    BY <1>0, ReplacedType DEF TypeOK
  <2>3. heads' \in [ClientId -> SUBSET Row]
    BY <1>0, <2>1, <2>2 DEF TypeOK
  <2> QED BY <1>10, <2>3 DEF ApplyReplace, NextUpdate, TypeOK
<1>11. ASSUME WriteCursor(s) PROVE TypeOK'
  <2>1. cursor' \in [ClientId -> 0 .. Len(log')]
    BY <1>0, <1>11 DEF WriteCursor, TypeOK
  <2>2. EndSync(s) /\ UNCHANGED <<log, status, heads, wpc, wrev>>
    BY <1>11 DEF WriteCursor
  <2>3. /\ log' \in Seq(SUBSET RevisionId) /\ Len(log) <= Len(log')
        /\ wpc' \in [Session -> {"idle", "put", "heads"}] /\ wrev' \in [Session -> RevisionId]
    BY <1>0, <2>2 DEF TypeOK
  <2> QED BY <2>1, <2>2, <2>3, EndSyncType
<1> QED BY <1>1, <1>2, <1>3, <1>4, <1>5, <1>6, <1>7, <1>8, <1>9, <1>10, <1>11 DEF SyncStep

LEMMA TypeStep == TypeOK /\ [Next]_vars => TypeOK'
<1> SUFFICES ASSUME TypeOK, [Next]_vars PROVE TypeOK'
  OBVIOUS
<1> USE DEF store, writer, pushing, pulling
<1>1. ASSUME NEW s \in Session, Lose(s) PROVE TypeOK'
  <2>1. log' \in Seq(SUBSET RevisionId) /\ Len(log) <= Len(log')
    BY <1>1, PushTypes DEF Lose, TypeOK
  <2>2. Len(log) \in Nat /\ Len(log') \in Nat
    BY <2>1 DEF TypeOK
  <2>3. cursor' \in [ClientId -> 0 .. Len(log')]
    BY <1>1, <2>1, <2>2 DEF Lose, TypeOK
  <2> QED BY <1>1, <2>1, <2>3, EndSyncType DEF Lose, TypeOK
<1>2. ASSUME NEW s \in Session, Crash(s) PROVE TypeOK'
  <2>1. NoRevision \in RevisionId
    BY ClientSyncAssumption DEF NoRevision
  <2>2. Len(log) <= Len(log')
    BY <1>2 DEF Crash, TypeOK
  <2> QED BY <1>2, <2>1, <2>2, EndSyncType DEF Crash, TypeOK
<1>3. CASE UNCHANGED vars
  BY <1>3 DEF vars, TypeOK
<1> QED BY <1>1, <1>2, <1>3, WriteTypes, SyncTypes DEF Next

LEMMA TypeInit == Init => TypeOK
<1> SUFFICES ASSUME Init PROVE TypeOK
  OBVIOUS
<1>1. NoRevision \in RevisionId
  BY ClientSyncAssumption DEF NoRevision
<1>2. log \in Seq(SUBSET RevisionId) /\ Len(log) = 0
  BY DEF Init
<1> QED BY <1>1, <1>2 DEF Init, TypeOK, SyncStatus

(* Every store and every local of a call stays in its type, and cursors    *)
(* name transactions of the log.                                           *)
THEOREM TypeCorrect == Spec => []TypeOK
BY TypeInit, TypeStep, PTL DEF Spec
-----------------------------------------------------------------------------
(* What one step may change.                                               *)
SameSession(t) ==
  /\ wpc'[t] = wpc[t] /\ wrev'[t] = wrev[t] /\ spc'[t] = spc[t] /\ since'[t] = since[t]
  /\ batch'[t] = batch[t] /\ accepted'[t] = accepted[t] /\ rejected'[t] = rejected[t]
  /\ up_to'[t] = up_to[t] /\ updates'[t] = updates[t]
  /\ stored'[t] = stored[t] /\ existing'[t] = existing[t]

SameClient(c) ==
  status'[c] = status[c] /\ heads'[c] = heads[c] /\ cursor'[c] = cursor[c]

(* A step of a session is about its own locals and its client's stores.    *)
LEMMA Frame ==
  ASSUME TypeOK, NEW s \in Session, StepOf(s)
  PROVE  /\ \A t \in Session \ {s} : SameSession(t)
         /\ \A c \in ClientId \ {client_of[s]} : SameClient(c)
<1> USE DEF store, writer, pushing, pulling, GotoSync, SameSession, SameClient, TypeOK
<1>1. ASSUME \/ \E r \in RevisionId : StartWrite(s, r)
             \/ PutRevision(s) \/ ReplaceHeads(s)
      PROVE /\ \A t \in Session \ {s} : SameSession(t)
            /\ \A c \in ClientId \ {client_of[s]} : SameClient(c)
  BY <1>1 DEF StartWrite, PutRevision, ReplaceHeads
<1>2. ASSUME StartSync(s) \/ ReadPending(s) \/ Push(s)
      PROVE /\ \A t \in Session \ {s} : SameSession(t)
            /\ \A c \in ClientId \ {client_of[s]} : SameClient(c)
  BY <1>2 DEF StartSync, ReadPending, Push, ServePush
<1>3. ASSUME \/ \E r \in RevisionId : MarkSynced(s, r)
             \/ \E x \in rejected[s] : MarkError(s, x)
             \/ Pull(s)
      PROVE /\ \A t \in Session \ {s} : SameSession(t)
            /\ \A c \in ClientId \ {client_of[s]} : SameClient(c)
  BY <1>3 DEF MarkSynced, MarkError, Pull
<1>4. ASSUME \/ \E h \in updates[s] : PutPulled(s, h)
             \/ \E o \in ObjectId : ReadLocalHeads(s, o) \/ ApplyConflict(s, o)
      PROVE /\ \A t \in Session \ {s} : SameSession(t)
            /\ \A c \in ClientId \ {client_of[s]} : SameClient(c)
  BY <1>4 DEF PutPulled, ReadLocalHeads, ApplyConflict, NextUpdate
<1>5. ASSUME ApplyReplace(s)
      PROVE /\ \A t \in Session \ {s} : SameSession(t)
            /\ \A c \in ClientId \ {client_of[s]} : SameClient(c)
  BY <1>5 DEF ApplyReplace, NextUpdate
<1>6. ASSUME WriteCursor(s) \/ Lose(s) \/ Crash(s)
      PROVE /\ \A t \in Session \ {s} : SameSession(t)
            /\ \A c \in ClientId \ {client_of[s]} : SameClient(c)
  BY <1>6 DEF WriteCursor, Lose, Crash, EndSync
<1> HIDE DEF SameSession, SameClient, TypeOK
<1> QED BY <1>1, <1>2, <1>3, <1>4, <1>5, <1>6 DEF StepOf, WriteStep, SyncStep

(* The log only grows, by what the server accepts of a batch.              *)
LEMMA LogStep ==
  ASSUME TypeOK, NEW s \in Session, StepOf(s)
  PROVE  \/ log' = log
         \/ spc[s] = "push" /\ log' = Append(log, All(s))
<1> USE DEF store, writer, pushing, pulling
<1>1. StorePush(s) => log' = log \/ log' = Append(log, All(s))
  BY DEF StorePush, All, KeyCount
<1>2. Push(s) => spc[s] = "push" /\ StorePush(s)
  BY DEF Push, ServePush
<1>3. Lose(s) => log' = log \/ (spc[s] = "push" /\ StorePush(s))
  BY DEF Lose
<1>4. SyncStep(s) => log' = log \/ Push(s)
  BY DEF SyncStep, StartSync, ReadPending, MarkSynced, MarkError, Pull, PutPulled,
         ReadLocalHeads, ApplyConflict, ApplyReplace, WriteCursor
<1> QED BY <1>1, <1>2, <1>3, <1>4 DEF StepOf, StartWrite, WriteStep, PutRevision, ReplaceHeads, Crash

LEMMA LogGrows ==
  ASSUME TypeOK, NEW s \in Session, StepOf(s)
  PROVE  /\ Len(log) \in Nat /\ Len(log') \in Nat /\ Len(log) <= Len(log')
         /\ DOMAIN log = 1 .. Len(log) /\ DOMAIN log' = 1 .. Len(log')
         /\ \A i \in 1 .. Len(log) : log'[i] = log[i]
         /\ Committed \subseteq Committed'
         /\ log' = log \/ (spc[s] = "push" /\ Committed' = Committed \cup All(s))
<1>1. All(s) \in SUBSET RevisionId /\ log \in Seq(SUBSET RevisionId)
  BY PushTypes DEF TypeOK
<1>2. CASE log' = log
  BY <1>1, <1>2 DEF Committed
<1>3. CASE spc[s] = "push" /\ log' = Append(log, All(s))
  <2>1. /\ Len(log) \in Nat /\ Len(log') = Len(log) + 1
        /\ DOMAIN log = 1 .. Len(log) /\ DOMAIN log' = 1 .. Len(log) + 1
        /\ \A i \in 1 .. Len(log) : log'[i] = log[i]
        /\ log'[Len(log) + 1] = All(s)
    BY <1>1, <1>3
  <2>2. \A r : r \in Committed' <=> r \in Committed \cup All(s)
    <3>1. \A r : r \in Committed' <=> \E i \in 1 .. Len(log) + 1 : r \in log'[i]
      BY <2>1 DEF Committed
    <3>2. \A r : r \in Committed <=> \E i \in 1 .. Len(log) : r \in log[i]
      BY <2>1 DEF Committed
    <3> QED BY <2>1, <3>1, <3>2
  <2>3. Committed' = Committed \cup All(s)
    BY <2>2
  <2>4. Len(log') \in Nat /\ Len(log) <= Len(log') /\ DOMAIN log' = 1 .. Len(log')
    BY <2>1
  <2> QED BY <1>3, <2>1, <2>3, <2>4
<1> QED BY <1>2, <1>3, LogStep

(* The only writes of a revision's status.                                 *)
LEMMA StatusStep ==
  ASSUME TypeOK, NEW s \in Session, StepOf(s), NEW r \in RevisionId
  PROVE  LET st == status[client_of[s]][r]
             new == status'[client_of[s]][r]
         IN  \/ new = st
             \/ wpc[s] = "put" /\ wrev[s] = r /\ new = "Pending"
             \/ r \in accepted[s] /\ new = "Synced"
             \/ \E x \in rejected[s] : x.revision_id = r /\ new = x.reason
             \/ \E h \in updates[s] : h[2] = r /\ new = "Synced"
<1> USE DEF store, writer, pushing, pulling
<1> DEFINE Goal == LET st == status[client_of[s]][r]
                       new == status'[client_of[s]][r]
                   IN  \/ new = st
                       \/ wpc[s] = "put" /\ wrev[s] = r /\ new = "Pending"
                       \/ r \in accepted[s] /\ new = "Synced"
                       \/ \E x \in rejected[s] : x.revision_id = r /\ new = x.reason
                       \/ \E h \in updates[s] : h[2] = r /\ new = "Synced"
<1>0. client_of[s] \in ClientId /\ status \in [ClientId -> [RevisionId -> SyncStatus]]
  BY ClientSyncAssumption DEF TypeOK
<1>1. ASSUME PutRevision(s) PROVE Goal
  BY <1>0, <1>1 DEF PutRevision
<1>2. ASSUME NEW y \in RevisionId, MarkSynced(s, y) PROVE Goal
  BY <1>0, <1>2 DEF MarkSynced
<1>3. ASSUME NEW x \in rejected[s], MarkError(s, x) PROVE Goal
  BY <1>0, <1>3 DEF MarkError
<1>4. ASSUME NEW h \in updates[s], PutPulled(s, h) PROVE Goal
  BY <1>0, <1>4 DEF PutPulled
<1>5. ASSUME status' = status PROVE Goal
  BY <1>5
<1>6. ASSUME \/ StartSync(s) \/ ReadPending(s) \/ Push(s) \/ Pull(s) \/ ApplyReplace(s)
             \/ WriteCursor(s)
             \/ \E o \in ObjectId : ReadLocalHeads(s, o) \/ ApplyConflict(s, o)
      PROVE status' = status
  BY <1>6 DEF StartSync, ReadPending, Push, Pull, ApplyReplace, WriteCursor, ReadLocalHeads,
              ApplyConflict
<1>7. ASSUME Lose(s) \/ Crash(s) \/ ReplaceHeads(s) \/ \E y \in RevisionId : StartWrite(s, y)
      PROVE status' = status
  BY <1>7 DEF Lose, Crash, ReplaceHeads, StartWrite
<1> HIDE DEF Goal
<1>8. Goal
  BY <1>1, <1>2, <1>3, <1>4, <1>5, <1>6, <1>7 DEF StepOf, WriteStep, SyncStep
<1> QED BY <1>8 DEF Goal

(* The only rows that become local heads.                                  *)
LEMMA HeadsStep ==
  ASSUME TypeOK, NEW s \in Session, StepOf(s), NEW h \in heads'[client_of[s]]
  PROVE  \/ h \in heads[client_of[s]] \/ h \in stored[s]
         \/ wpc[s] = "heads" /\ h = HeadRow(wrev[s])
<1> USE DEF store, writer, pushing, pulling
<1>0. client_of[s] \in ClientId /\ heads \in [ClientId -> SUBSET Row]
  BY ClientSyncAssumption DEF TypeOK
<1> DEFINE Goal == \/ h \in heads[client_of[s]] \/ h \in stored[s]
                   \/ wpc[s] = "heads" /\ h = HeadRow(wrev[s])
<1>1. ASSUME ReplaceHeads(s) PROVE Goal
  BY <1>0, <1>1 DEF ReplaceHeads, ReplacedBy
<1>2. ASSUME NEW o \in ObjectId, ApplyConflict(s, o) PROVE Goal
  BY <1>0, <1>2 DEF ApplyConflict
<1>3. ASSUME ApplyReplace(s) PROVE Goal
  BY <1>0, <1>3 DEF ApplyReplace, ReplacedBy
<1>4. ASSUME heads' = heads PROVE Goal
  BY <1>4
<1>5. ASSUME \/ StartSync(s) \/ ReadPending(s) \/ Push(s) \/ Pull(s) \/ WriteCursor(s)
             \/ \E o \in ObjectId : ReadLocalHeads(s, o)
             \/ \E r \in RevisionId : MarkSynced(s, r)
             \/ \E x \in rejected[s] : MarkError(s, x)
             \/ \E g \in updates[s] : PutPulled(s, g)
      PROVE heads' = heads
  BY <1>5 DEF StartSync, ReadPending, Push, Pull, WriteCursor, ReadLocalHeads, MarkSynced,
              MarkError, PutPulled
<1>6. ASSUME Lose(s) \/ Crash(s) \/ PutRevision(s) \/ \E y \in RevisionId : StartWrite(s, y)
      PROVE heads' = heads
  BY <1>6 DEF Lose, Crash, PutRevision, StartWrite
<1> HIDE DEF Goal
<1>7. Goal
  BY <1>1, <1>2, <1>3, <1>4, <1>5, <1>6 DEF StepOf, WriteStep, SyncStep
<1> QED BY <1>7 DEF Goal

(* The only ways on for a write in flight.                                 *)
LEMMA WriterStep ==
  ASSUME TypeOK, NEW s \in Session, StepOf(s)
  PROVE  \/ wpc'[s] = "idle"
         \/ wpc'[s] = wpc[s] /\ wrev'[s] = wrev[s]
         \/ PutRevision(s) /\ wpc[s] = "put" /\ wpc'[s] = "heads" /\ wrev'[s] = wrev[s]
         \/ wpc'[s] = "put" /\ \E r \in RevisionId : StartWrite(s, r) /\ wrev'[s] = r
<1> USE DEF store, writer, pushing, pulling, TypeOK
<1>1. ASSUME NEW r \in RevisionId, StartWrite(s, r) PROVE wpc'[s] = "put" /\ wrev'[s] = r
  BY <1>1 DEF StartWrite
<1>2. ASSUME PutRevision(s)
      PROVE wpc[s] = "put" /\ wpc'[s] = "heads" /\ wrev'[s] = wrev[s]
  BY <1>2 DEF PutRevision
<1>3. ASSUME ReplaceHeads(s) \/ Crash(s) PROVE wpc'[s] = "idle"
  BY <1>3 DEF ReplaceHeads, Crash
<1>4. ASSUME SyncStep(s) \/ Lose(s) PROVE UNCHANGED writer
  BY <1>4 DEF SyncStep, StartSync, ReadPending, Push, MarkSynced, MarkError, Pull, PutPulled,
              ReadLocalHeads, ApplyConflict, ApplyReplace, WriteCursor, Lose
<1> QED BY <1>1, <1>2, <1>3, <1>4 DEF StepOf, WriteStep

(* A step of a write leaves the sync in flight alone.                      *)
LEMMA WriteKeepsSync ==
  ASSUME NEW s \in Session, (\E r \in RevisionId : StartWrite(s, r)) \/ WriteStep(s)
  PROVE  UNCHANGED <<log, cursor, spc, since, batch, accepted, rejected, up_to, updates, stored,
                     existing>>
BY DEF StartWrite, WriteStep, PutRevision, ReplaceHeads, store, pushing, pulling

(* What a push in flight may come to hold.                                 *)
LEMMA PusherStep ==
  ASSUME TypeOK, NEW s \in Session, StepOf(s)
  PROVE  /\ \/ batch'[s] \in {batch[s], {}}
            \/ batch'[s] = PendingRevisions(client_of[s]) /\ UNCHANGED <<log, status>>
         /\ accepted'[s] \subseteq accepted[s] \cup Committed'
         /\ \/ rejected'[s] \subseteq rejected[s]
            \/ \A x \in rejected'[s] : x.revision_id \in batch[s] \ All(s)
<1> USE DEF store, writer, pushing, pulling, TypeOK
<1> DEFINE Goal ==
             /\ \/ batch'[s] \in {batch[s], {}}
                \/ batch'[s] = PendingRevisions(client_of[s]) /\ UNCHANGED <<log, status>>
             /\ accepted'[s] \subseteq accepted[s] \cup Committed'
             /\ \/ rejected'[s] \subseteq rejected[s]
                \/ \A x \in rejected'[s] : x.revision_id \in batch[s] \ All(s)
<1>1. ASSUME ReadPending(s) PROVE Goal
  BY <1>1 DEF ReadPending
<1>2. ASSUME Push(s) PROVE Goal
  <2>1. batch'[s] = {} /\ ServePush(s)
    BY <1>2 DEF Push
  <2>2. accepted'[s] = All(s)
    BY <2>1 DEF ServePush, All, KeyCount
  <2>3. All(s) \subseteq Committed'
    <3>1. All(s) = {} \/ log' = Append(log, All(s))
      BY <2>1 DEF ServePush, StorePush, All, KeyCount
    <3>2. All(s) \in SUBSET RevisionId
      BY PushTypes
    <3>3. log' = Append(log, All(s)) => Len(log') \in DOMAIN log' /\ log'[Len(log')] = All(s)
      BY <3>2
    <3> QED BY <3>1, <3>3 DEF Committed
  <2>4. \A x \in rejected'[s] : x.revision_id \in batch[s] \ All(s)
    BY <2>1 DEF ServePush, All, KeyCount
  <2> QED BY <2>1, <2>2, <2>3, <2>4
<1>3. ASSUME \/ \E r \in RevisionId : MarkSynced(s, r)
             \/ \E x \in rejected[s] : MarkError(s, x)
      PROVE Goal
  <2>1. ASSUME NEW r \in RevisionId, MarkSynced(s, r)
        PROVE  UNCHANGED <<batch, rejected>> /\ accepted'[s] = accepted[s] \ {r}
    BY <2>1 DEF MarkSynced
  <2>2. ASSUME NEW x \in rejected[s], MarkError(s, x)
        PROVE  UNCHANGED <<batch, accepted>> /\ rejected'[s] = rejected[s] \ {x}
    BY <2>2 DEF MarkError
  <2> QED BY <1>3, <2>1, <2>2
<1>4. ASSUME UNCHANGED pushing PROVE Goal
  BY <1>4
<1>5. ASSUME \/ StartSync(s) \/ Pull(s) \/ ApplyReplace(s)
             \/ \E o \in ObjectId : ReadLocalHeads(s, o) \/ ApplyConflict(s, o)
             \/ \E h \in updates[s] : PutPulled(s, h)
      PROVE UNCHANGED pushing
  BY <1>5 DEF StartSync, Pull, ApplyReplace, ReadLocalHeads, ApplyConflict, PutPulled
<1>6. ASSUME EndSync(s) PROVE Goal
  BY <1>6 DEF EndSync
<1>7. WriteCursor(s) \/ Lose(s) \/ Crash(s) => EndSync(s)
  BY DEF WriteCursor, Lose, Crash
<1> HIDE DEF Goal, TypeOK
<1>8. Goal
  BY <1>1, <1>2, <1>3, <1>4, <1>5, <1>6, <1>7, WriteKeepsSync DEF StepOf, SyncStep
<1> QED BY <1>8 DEF Goal

(* What a pull in flight may come to hold.                                 *)
PullLocals(s) ==
  /\ stored[s] \subseteq updates[s]
  /\ stored[s] # {} => spc[s] \in {"apply", "replace"}

LEMMA PullerStep ==
  ASSUME TypeOK, NEW s \in Session, StepOf(s), PullLocals(s)
  PROVE  /\ \/ updates'[s] \subseteq updates[s]
            \/ updates'[s] = UpdatesSince(client_of[s], since[s]) /\ UNCHANGED log
         /\ PullLocals(s)'
<1> USE DEF store, writer, pushing, pulling, TypeOK, PullLocals, GotoSync
<1> DEFINE Goal ==
             /\ \/ updates'[s] \subseteq updates[s]
                \/ updates'[s] = UpdatesSince(client_of[s], since[s]) /\ UNCHANGED log
             /\ PullLocals(s)'
<1>1. ASSUME StartSync(s) PROVE Goal
  BY <1>1 DEF StartSync
<1>2. ASSUME ReadPending(s) \/ Push(s) PROVE Goal
  BY <1>2 DEF ReadPending, Push
<1>3. ASSUME \/ \E r \in RevisionId : MarkSynced(s, r)
             \/ \E x \in rejected[s] : MarkError(s, x)
      PROVE Goal
  BY <1>3 DEF MarkSynced, MarkError
<1>4. ASSUME Pull(s) PROVE Goal
  BY <1>4 DEF Pull, Marked
<1>5. ASSUME NEW h \in updates[s], PutPulled(s, h) PROVE Goal
  BY <1>5 DEF PutPulled
<1>6. ASSUME NEW o \in ObjectId, ReadLocalHeads(s, o) PROVE Goal
  BY <1>6 DEF ReadLocalHeads
<1>7. ASSUME ApplyReplace(s) \/ \E o \in ObjectId : ApplyConflict(s, o) PROVE Goal
  BY <1>7 DEF ApplyReplace, ApplyConflict, NextUpdate
<1>8. ASSUME EndSync(s) PROVE Goal
  BY <1>8 DEF EndSync
<1>9. WriteCursor(s) \/ Lose(s) \/ Crash(s) => EndSync(s)
  BY DEF WriteCursor, Lose, Crash
<1>10. ASSUME UNCHANGED <<spc, updates, stored>> PROVE Goal
  BY <1>10
<1> HIDE DEF Goal, TypeOK, PullLocals
<1>11. Goal
  BY <1>1, <1>2, <1>3, <1>4, <1>5, <1>6, <1>7, <1>8, <1>9, <1>10, WriteKeepsSync
  DEF StepOf, SyncStep
<1> QED BY <1>11 DEF Goal
-----------------------------------------------------------------------------
(* What can cost a write: the place its key happens to have.               *)
LEMMA ParentsType == \A r \in RevisionId : Parents(r) \subseteq RevisionId
BY RevisionAssumption DEF Parents

LEMMA AncestrySteps ==
  /\ \A r \in RevisionId : <<r, r>> \in Ancestry
  /\ \A r \in RevisionId : \A p \in Parents(r) : <<p, r>> \in Ancestry
  /\ \A p, q, r \in RevisionId : <<p, q>> \in Ancestry /\ <<q, r>> \in Ancestry => <<p, r>> \in Ancestry
<1>1. \A x, y : <<x, y>> \in Ancestry <=>
        x \in RevisionId /\ y \in RevisionId /\ AncestorOrSelf(x, y)
  BY DEF Ancestry
<1>2. \A r \in RevisionId : AncestorOrSelf(r, r)
  BY DEF AncestorOrSelf
<1>3. \A r \in RevisionId : \A p \in Parents(r) : AncestorOrSelf(p, r)
  BY DEF AncestorOrSelf
<1>4. \A p, q, r \in RevisionId : AncestorOrSelf(p, q) /\ AncestorOrSelf(q, r) => AncestorOrSelf(p, r)
  BY DEF AncestorOrSelf
<1> QED BY <1>1, <1>2, <1>3, <1>4, ParentsType

LEMMA MisorderedFacts ==
  /\ \A r \in RevisionId : Misplaced(r) => Misordered(created_by[r], r)
  /\ \A c, r, p : r \in RevisionId /\ p \in Parents(r) /\ Misordered(c, p) => Misordered(c, r)
BY AncestrySteps, ParentsType DEF Misordered

(* Of a batch that is closed under parents but for what is committed or    *)
(* misordered, everything is, in turn, committed, accepted or misordered.  *)
LEMMA AllAccepted ==
  ASSUME NEW K, NEW c, NEW B \in SUBSET RevisionId,
         \A r \in B : /\ created_by[r] = c
                      /\ \A p \in Parents(r) : p \in K \/ p \in B \/ Misordered(c, p)
  PROVE  \A r \in B : r \in K \/ r \in AcceptedOf(K, c, B)[KeyCount] \/ Misordered(c, r)
<1> DEFINE acc == AcceptedOf(K, c, B)
           N == KeyCount
           Fine(r, n) == r \in K \/ r \in acc[n] \/ Misordered(c, r)
           S == {n \in Nat : n <= N => \A k \in 1 .. n : Key(k) \in B => Fine(Key(k), n)}
<1>0. N \in Nat /\ DOMAIN KeyOrder = 1 .. N
  BY KeyFacts
<1>1. \A n \in 1 .. N : acc[n] = AcceptedStep(K, c, B, n, acc[n - 1])
  BY AcceptedRecursion
<1>2. \A r \in RevisionId : \E k \in 1 .. N : Key(k) = r
  BY <1>0, ClientSyncAssumption DEF Key
<1> HIDE DEF acc, N
<1>3. 0 \in S
  OBVIOUS
<1>4. ASSUME NEW n \in Nat, n \in S PROVE n + 1 \in S
  <2> SUFFICES ASSUME n + 1 <= N, NEW k \in 1 .. n + 1, Key(k) \in B PROVE Fine(Key(k), n + 1)
    OBVIOUS
  <2>1. n + 1 \in 1 .. N /\ (n + 1) - 1 = n
    BY <1>0
  <2>2. acc[n + 1] = AcceptedStep(K, c, B, n + 1, acc[n])
    BY <1>1, <2>1
  <2>3. \A j \in 1 .. n : Key(j) \in B => Fine(Key(j), n)
    BY <1>0, <1>4
  <2>4. CASE k # n + 1
    <3>1. k \in 1 .. n
      BY <2>4
    <3> QED BY <2>2, <2>3, <3>1 DEF AcceptedStep
  <2>5. CASE k = n + 1 /\ Key(k) \notin K /\ ~Misordered(c, Key(k))
    <3>0. Key(k) \in RevisionId /\ created_by[Key(k)] = c /\ ~Misplaced(Key(k))
      BY <2>5, MisorderedFacts
    <3>1. ASSUME NEW p \in Parents(Key(k)), p \notin K PROVE p \in acc[n]
      <4>1. ~Misordered(c, p)
        BY <2>5, <3>0, MisorderedFacts
      <4>2. p \in B /\ created_by[p] = c
        BY <3>1, <4>1
      <4>3. PICK j \in 1 .. N : Key(j) = p
        BY <1>2, <4>2
      <4>4. j < k
        BY <1>0, <2>1, <2>5, <3>0, <4>2, <4>3 DEF Misplaced, Key
      <4>5. j \in 1 .. n
        BY <2>5, <4>4
      <4> QED BY <2>3, <3>1, <4>1, <4>2, <4>3, <4>5
    <3>2. Verdict(K, c, Key(k), acc[n]) = "ok"
      BY <2>5, <3>0, <3>1 DEF Verdict, Misplaced
    <3> QED BY <2>2, <2>5, <3>2 DEF AcceptedStep
  <2> QED BY <2>4, <2>5
<1> HIDE DEF S
<1>5. N \in S
  BY <1>0, <1>3, <1>4, NaturalsInSet
<1>6. ASSUME NEW r \in B PROVE Fine(r, N)
  <2>1. PICK k \in 1 .. N : Key(k) = r
    BY <1>2
  <2> QED BY <1>0, <1>5, <2>1 DEF S
<1> QED BY <1>6 DEF acc, N

(* Revision r is not lost to client c, or c misordered it.                 *)
Safe(c, r) == r \in Committed \/ status[c][r] = "Pending" \/ Misordered(c, r)

StoreSafe(c) ==
  /\ \A r \in RevisionId : status[c][r] = "absent" \/ Safe(c, r)
  /\ \A h \in heads[c] : Safe(c, h[2])
  /\ \A r \in RevisionId :
       status[c][r] = "Pending" => created_by[r] = c /\ \A p \in Parents(r) : Safe(c, p)

WriteSafe(s) ==
  /\ wpc[s] # "idle" => /\ created_by[wrev[s]] = client_of[s]
                        /\ \A p \in Parents(wrev[s]) : Safe(client_of[s], p)
  /\ wpc[s] = "heads" => Safe(client_of[s], wrev[s])

(* r is stored by the server or misordered: what a push leaves.            *)
Settled(s, r) == r \in Committed \/ Misordered(client_of[s], r)

SyncSafe(s) ==
  /\ \A r \in batch[s] : /\ created_by[r] = client_of[s]
                          /\ \A p \in Parents(r) : p \in batch[s] \/ Settled(s, p)
  /\ accepted[s] \subseteq Committed
  /\ \A x \in rejected[s] : Settled(s, x.revision_id)
  /\ \A h \in updates[s] : h[2] \in Committed
  /\ PullLocals(s)

SafeInv ==
  /\ TypeOK
  /\ \A c \in ClientId : StoreSafe(c)
  /\ \A s \in Session : WriteSafe(s) /\ SyncSafe(s)

LEMMA SafeStays ==
  ASSUME SafeInv, NEW s \in Session, StepOf(s), NEW c \in ClientId, NEW r \in RevisionId, Safe(c, r)
  PROVE  Safe(c, r)'
<1>0. TypeOK /\ SyncSafe(s)
  BY DEF SafeInv
<1>1. Committed \subseteq Committed'
  BY <1>0, LogGrows
<1>2. CASE c # client_of[s]
  BY <1>0, <1>1, <1>2, Frame DEF Safe, SameClient
<1>3. CASE c = client_of[s]
  BY <1>0, <1>1, <1>3, StatusStep DEF Safe, SyncSafe, Settled
<1> QED BY <1>2, <1>3

LEMMA StoreSafeStep ==
  ASSUME SafeInv, TypeOK', NEW s \in Session, StepOf(s), NEW c \in ClientId
  PROVE  StoreSafe(c)'
<1>0. TypeOK /\ SyncSafe(s) /\ WriteSafe(s) /\ StoreSafe(c)
  BY DEF SafeInv
<1>1. Committed \subseteq Committed'
  BY <1>0, LogGrows
<1>2. /\ \A h \in heads[c] \cup heads'[c] : h[2] \in RevisionId
      /\ wrev[s] \in RevisionId
  BY <1>0 DEF TypeOK, Row
<1>3. CASE c # client_of[s]
  <2>1. status'[c] = status[c] /\ heads'[c] = heads[c]
    BY <1>0, <1>3, Frame DEF SameClient
  <2>2. \A h \in heads'[c] : Safe(c, h[2])'
    BY <1>0, <1>2, <2>1, SafeStays DEF StoreSafe
  <2>3. \A r \in RevisionId : status'[c][r] = "Pending" =>
          created_by[r] = c /\ \A p \in Parents(r) : Safe(c, p)'
    BY <1>0, <2>1, SafeStays, ParentsType DEF StoreSafe
  <2>4. \A r \in RevisionId : status'[c][r] = "absent" \/ Safe(c, r)'
    BY <1>0, <2>1, SafeStays DEF StoreSafe
  <2> QED BY <2>2, <2>3, <2>4 DEF StoreSafe
<1>4. CASE c = client_of[s]
  <2>1. ASSUME NEW r \in RevisionId PROVE status'[c][r] = "absent" \/ Safe(c, r)'
    BY <1>0, <1>1, <1>4, SafeStays, StatusStep DEF StoreSafe, SyncSafe, Settled, Safe
  <2>2. ASSUME NEW h \in heads'[c] PROVE Safe(c, h[2])'
    <3>1. Safe(c, h[2])
      BY <1>0, <1>2, <1>4, HeadsStep DEF StoreSafe, WriteSafe, SyncSafe, PullLocals, HeadRow, Safe
    <3> QED BY <1>2, <3>1, SafeStays
  <2>3. ASSUME NEW r \in RevisionId, status'[c][r] = "Pending"
        PROVE  created_by[r] = c /\ \A p \in Parents(r) : Safe(c, p)'
    <3>1. ASSUME NEW x \in rejected[s] PROVE x.reason # "Pending"
      <4>1. x \in Rejections
        BY <1>0 DEF TypeOK
      <4>2. x.reason \in RejectionReason
        BY <4>1 DEF Rejections
      <4> QED BY <4>2 DEF RejectionReason
    <3>2. status[c][r] = "Pending" \/ (wpc[s] = "put" /\ wrev[s] = r)
      BY <1>0, <1>4, <2>3, <3>1, StatusStep
    <3>3. created_by[r] = c /\ \A p \in Parents(r) : Safe(c, p)
      BY <1>0, <1>4, <3>2 DEF StoreSafe, WriteSafe
    <3> QED BY <3>3, SafeStays, ParentsType
  <2> QED BY <2>1, <2>2, <2>3 DEF StoreSafe
<1> QED BY <1>3, <1>4

LEMMA WriteSafeStep ==
  ASSUME SafeInv, TypeOK', NEW s \in Session, StepOf(s), NEW t \in Session
  PROVE  WriteSafe(t)'
<1> DEFINE c == client_of[t]
<1>0. TypeOK /\ WriteSafe(t) /\ StoreSafe(c) /\ c \in ClientId
  BY ClientSyncAssumption DEF SafeInv
<1>1. wrev[t] \in RevisionId
  BY <1>0 DEF TypeOK
<1>2. ASSUME wrev'[t] = wrev[t], wpc'[t] = wpc[t] PROVE WriteSafe(t)'
  <2>0. PICK r \in RevisionId : r = wrev[t]
    BY <1>1
  <2>1. wpc[t] # "idle" => \A p \in Parents(r) : Safe(c, p)'
    BY <1>0, <2>0, SafeStays, ParentsType DEF WriteSafe
  <2>2. wpc[t] = "heads" => Safe(c, r)'
    BY <1>0, <2>0, SafeStays DEF WriteSafe
  <2> QED BY <1>0, <1>2, <2>0, <2>1, <2>2 DEF WriteSafe, Safe
<1>3. CASE s # t
  BY <1>0, <1>2, <1>3, Frame DEF SameSession
<1>4. CASE s = t /\ wpc'[t] = "idle"
  BY <1>4 DEF WriteSafe
<1>5. CASE s = t /\ PutRevision(t) /\ wpc[t] = "put" /\ wpc'[t] = "heads" /\ wrev'[t] = wrev[t]
  <2>1. \A p \in Parents(wrev[t]) : Safe(c, p)'
    BY <1>0, <1>1, <1>5, SafeStays, ParentsType DEF WriteSafe
  <2>2. status'[c][wrev[t]] = "Pending"
    BY <1>0, <1>1, <1>5 DEF PutRevision, TypeOK
  <2> QED BY <1>0, <1>5, <2>1, <2>2 DEF WriteSafe, Safe
<1>6. ASSUME s = t, wpc'[t] = "put", NEW r \in RevisionId, StartWrite(t, r), wrev'[t] = r
      PROVE  WriteSafe(t)'
  <2>1. created_by[r] = c /\ Parents(r) \subseteq HeadsOf(c, object_id[r])
    BY <1>6 DEF StartWrite, Asks, MayWrite
  <2>2. \A p \in Parents(r) : Safe(c, p)
    BY <1>0, <2>1 DEF HeadsOf, StoreSafe
  <2>3. \A p \in Parents(r) : Safe(c, p)'
    BY <1>0, <2>2, SafeStays, ParentsType
  <2> QED BY <1>6, <2>1, <2>3 DEF WriteSafe, Safe
<1> QED BY <1>0, <1>2, <1>3, <1>4, <1>5, <1>6, WriterStep

LEMMA SyncSafeStep ==
  ASSUME SafeInv, NEW s \in Session, StepOf(s), NEW t \in Session
  PROVE  SyncSafe(t)'
<1> DEFINE c == client_of[t]
<1>0. TypeOK /\ SyncSafe(t) /\ StoreSafe(c) /\ c \in ClientId
  BY ClientSyncAssumption DEF SafeInv
<1>1. Committed \subseteq Committed'
  BY <1>0, LogGrows
<1>2. CASE s # t
  <2>1. /\ batch'[t] = batch[t] /\ accepted'[t] = accepted[t] /\ rejected'[t] = rejected[t]
        /\ updates'[t] = updates[t] /\ stored'[t] = stored[t] /\ spc'[t] = spc[t]
    BY <1>0, <1>2, Frame DEF SameSession
  <2> QED BY <1>0, <1>1, <2>1 DEF SyncSafe, PullLocals, Settled
<1>3. CASE s = t
  <2>1. \A r \in batch'[t] : /\ created_by[r] = c
                             /\ \A p \in Parents(r) : p \in batch'[t] \/ Settled(t, p)'
    <3>1. CASE batch'[t] \in {batch[t], {}}
      BY <1>0, <1>1, <3>1 DEF SyncSafe, Settled
    <3>2. CASE batch'[t] = PendingRevisions(c)
      <4>1. ASSUME NEW r \in PendingRevisions(c)
            PROVE  /\ created_by[r] = c
                   /\ \A p \in Parents(r) : p \in PendingRevisions(c) \/ Settled(t, p)
        BY <1>0, ParentsType DEF PendingRevisions, StoreSafe, Safe, Settled
      <4> QED BY <1>1, <3>2, <4>1 DEF Settled
    <3> QED BY <1>0, <1>3, <3>1, <3>2, PusherStep
  <2>2. accepted'[t] \subseteq Committed'
    BY <1>0, <1>1, <1>3, PusherStep DEF SyncSafe
  <2>3. \A x \in rejected'[t] : Settled(t, x.revision_id)'
    <3>1. batch[t] \in SUBSET RevisionId
      BY <1>0 DEF TypeOK
    <3>2. \A r \in batch[t] : Settled(t, r) \/ r \in All(t)
      BY <1>0, <3>1, AllAccepted DEF SyncSafe, All, Settled
    <3> QED BY <1>0, <1>1, <1>3, <3>2, PusherStep DEF SyncSafe, Settled
  <2>4. /\ PullLocals(t)'
        /\ \/ updates'[t] \subseteq updates[t]
           \/ updates'[t] = UpdatesSince(c, since[t])
    BY <1>0, <1>3, PullerStep DEF SyncSafe
  <2>5. \A h \in updates'[t] : h[2] \in Committed'
    <3>1. \A h \in UpdatesSince(c, since[t]) : h[2] \in Committed
      BY DEF UpdatesSince, Frontier, HeadRow
    <3> QED BY <1>0, <1>1, <2>4, <3>1 DEF SyncSafe
  <2> QED BY <2>1, <2>2, <2>3, <2>4, <2>5 DEF SyncSafe
<1> QED BY <1>2, <1>3

LEMMA SafeInit == Init => SafeInv
<1> SUFFICES ASSUME Init PROVE SafeInv
  OBVIOUS
<1>1. \A c \in ClientId : StoreSafe(c)
  BY DEF Init, StoreSafe
<1>2. \A s \in Session : WriteSafe(s) /\ SyncSafe(s)
  BY DEF Init, WriteSafe, SyncSafe, PullLocals
<1> QED BY <1>1, <1>2, TypeInit DEF SafeInv

(* For every schedule, crash, lost message and order of the keys, a write  *)
(* is forgotten only if it, or a write of the same client it builds on, is *)
(* refused for a repeated parent or for a key that sorts before that of a  *)
(* parent the same client wrote.                                           *)
THEOREM OnlyMisplacedWritesLost == Spec => []OnlyMisplacedLost
<1>1. SafeInv /\ [Next]_vars => SafeInv'
  <2> SUFFICES ASSUME SafeInv, [Next]_vars PROVE SafeInv'
    OBVIOUS
  <2>0. TypeOK'
    BY TypeStep DEF SafeInv
  <2>1. ASSUME NEW s \in Session, StepOf(s) PROVE SafeInv'
    BY <2>0, <2>1, StoreSafeStep, WriteSafeStep, SyncSafeStep DEF SafeInv
  <2>2. CASE UNCHANGED vars
    BY <2>0, <2>2 DEF vars, store, writer, pushing, pulling, SafeInv, StoreSafe, WriteSafe,
                      SyncSafe, PullLocals, Safe, Settled, Committed
  <2> QED BY <2>1, <2>2 DEF Next, StepOf
<1>2. SafeInv => OnlyMisplacedLost
  BY DEF SafeInv, StoreSafe, Safe, OnlyMisplacedLost
<1> QED BY <1>1, <1>2, SafeInit, PTL DEF Spec
=============================================================================
