-------------------------- MODULE ClientViewProofs --------------------------
(***************************************************************************)
(* What the application of one client sees, for every set of requests,     *)
(* schemas and bodies.                                                     *)
(***************************************************************************)
EXTENDS ClientView, SetInduction, FiniteSetTheorems

LEMMA FrontierRows ==
  ASSUME NEW S \in SUBSET RevisionId
  PROVE  Frontier(S) \subseteq ObjectId \X RevisionId
BY RevisionAssumption DEF Frontier, HeadRow

LEMMA UpdatesRows ==
  ASSUME TypeOK, NEW n \in Nat
  PROVE  Updates(n) \subseteq ObjectId \X RevisionId
<1>1. Committed \subseteq RevisionId
  BY DEF TypeOK, Committed
<1> QED BY <1>1, FrontierRows DEF Updates

(* A sync adds rows, and drops no head of an object it has no row of.      *)
LEMMA AppliedFacts ==
  ASSUME NEW rows
  PROVE  /\ rows \subseteq Applied(rows)
         /\ Applied(rows) \subseteq heads \cup rows
         /\ \A h \in heads : (\A g \in rows : g[1] # h[1]) => h \in Applied(rows)
<1>1. rows \subseteq Applied(rows) /\ Applied(rows) \subseteq heads \cup rows
  BY DEF Applied
<1>2. ASSUME NEW h \in heads, \A g \in rows : g[1] # h[1] PROVE h \in Applied(rows)
  <2>1. {g \in rows : g[1] = h[1]} = {}
    BY <1>2
  <2>2. Cardinality({g \in rows : g[1] = h[1]}) # 1
    BY <2>1, FS_EmptySet
  <2> DEFINE Of(o) == {g \in rows : g[1] = o}
             Superseded(o) == Of(o) \cup {<<o, p>> : p \in UNION {Parents(g[2]) : g \in Of(o)}}
             Replaces(o) == Cardinality(Of(o)) = 1 /\ {g \in heads : g[1] = o} \subseteq Superseded(o)
  <2>3. Applied(rows) = {g \in heads : ~Replaces(g[1])} \cup rows
    BY DEF Applied
  <2>4. ~Replaces(h[1])
    BY <2>2
  <2> HIDE DEF Replaces
  <2> QED BY <2>3, <2>4
<1> QED BY <1>1, <1>2

LEMMA TypeStep == TypeOK /\ [Next]_vars => TypeOK'
<1> SUFFICES ASSUME TypeOK, [Next]_vars PROVE TypeOK'
  OBVIOUS
<1> USE DEF server, pulled, database
<1>0. cursor \in Nat /\ Len(log) \in Nat /\ cursor <= Len(log)
  BY DEF TypeOK
<1>1. ASSUME NEW r \in RevisionId, Commit(r) PROVE TypeOK'
  <2>1. log' \in Seq(RevisionId) /\ Len(log') = Len(log) + 1
    BY <1>1 DEF Commit, TypeOK
  <2>2. cursor \in 0 .. Len(log')
    BY <1>0, <2>1
  <2> QED BY <1>1, <2>1, <2>2 DEF Commit, TypeOK
<1>2. ASSUME NEW since \in Since, Sync(since) PROVE TypeOK'
  <2>1. since \in 0 .. cursor
    BY <1>0 DEF Since
  <2>2. heads' \subseteq ObjectId \X RevisionId
    BY <1>2, <2>1, UpdatesRows, AppliedFacts DEF Sync, TypeOK
  <2>3. cursor' = Len(log)
    BY <1>2 DEF Sync, StoreCursor
  <2>4. asked' \subseteq 1 .. cursor'
    <3>1. asked' = asked \cup (since + 1 .. Len(log))
      BY <1>2 DEF Sync
    <3>2. asked \subseteq 1 .. Len(log)
      BY <1>0 DEF TypeOK
    <3>3. (since + 1 .. Len(log)) \subseteq 1 .. Len(log)
      BY <1>0, <2>1
    <3> QED BY <2>3, <3>1, <3>2, <3>3
  <2> QED BY <1>0, <1>2, <2>2, <2>3, <2>4 DEF Sync, TypeOK
<1>3. ASSUME NEW since \in Since, SyncFails(since) PROVE TypeOK'
  <2>1. since \in 0 .. cursor
    BY <1>0 DEF Since
  <2>2. PICK rows \in SUBSET Updates(since) : heads' = Applied(rows)
    BY <1>3 DEF SyncFails
  <2>3. heads' \subseteq ObjectId \X RevisionId
    BY <2>1, <2>2, UpdatesRows, AppliedFacts DEF TypeOK
  <2> QED BY <1>3, <2>3 DEF SyncFails, TypeOK
<1>4. ASSUME NEW q \in Requests, ChangeRequest(q) PROVE TypeOK'
  BY <1>4 DEF ChangeRequest, TypeOK
<1>5. ASSUME NEW s \in Schemas, OpenDatabase(s) PROVE TypeOK'
  <2>1. \A n \in DOMAIN s.entries : s.entries[n].json_path \in Path
    BY ClientViewAssumption DEF IndexSchema, IndexEntry
  <2>2. \A n \in DOMAIN indexes' : indexes'[n] \in Path
    BY <1>5, <2>1 DEF OpenDatabase, Recreated, TypeOK
  <2>3. version' \in {t.version : t \in Schemas} /\ schema' \in Schemas
    BY <1>5 DEF OpenDatabase
  <2> QED BY <1>5, <2>2, <2>3 DEF OpenDatabase, TypeOK
<1>6. CASE UNCHANGED vars
  BY <1>6 DEF vars, TypeOK
<1> QED BY <1>1, <1>2, <1>3, <1>4, <1>5, <1>6 DEF Next

LEMMA TypeInit == Init => TypeOK
<1> SUFFICES ASSUME Init PROVE TypeOK
  OBVIOUS
<1>1. log \in Seq(RevisionId) /\ Len(log) = 0
  BY DEF Init
<1>2. DOMAIN indexes = {}
  BY DEF Init, EmptyEntries
<1> QED BY <1>1, <1>2 DEF Init, TypeOK

(* The stores of the client and the server hold what their types allow,    *)
(* and the cursor and the transactions asked for are in the server's log.  *)
THEOREM TypeCorrect == Spec => []TypeOK
BY TypeInit, TypeStep, PTL DEF Spec
-----------------------------------------------------------------------------
(* Indexes.  An open repository has the version of its database, and every *)
(* index its schema names is on the path the schema gives it.              *)
IndexesOK ==
  /\ version = schema.version
  /\ \A n \in DOMAIN schema.entries :
       n \in DOMAIN indexes /\ indexes[n] = schema.entries[n].json_path

LEMMA IndexesStep == TypeOK /\ IndexesOK /\ [Next]_vars => IndexesOK'
<1> SUFFICES ASSUME TypeOK, IndexesOK, [Next]_vars PROVE IndexesOK'
  OBVIOUS
<1>1. ASSUME NEW s \in Schemas, OpenDatabase(s) PROVE IndexesOK'
  <2>1. version' = s.version /\ schema' = s /\ s.version >= version
    BY <1>1 DEF OpenDatabase
  <2>2. s.version \in Nat \ {0}
    BY ClientViewAssumption DEF IndexSchema
  <2>3. CASE s.version > version
    BY <1>1, <2>1, <2>3 DEF OpenDatabase, Recreated, IndexesOK
  <2>4. CASE ~(s.version > version)
    <3>1. version \in Nat
      BY ClientViewAssumption DEF TypeOK, IndexSchema
    <3>2. s.version = version /\ indexes' = indexes
      BY <1>1, <2>1, <2>2, <2>4, <3>1 DEF OpenDatabase
    <3>3. schema \in Schemas
      BY <2>2, <3>2 DEF TypeOK, IndexesOK
    <3>4. schema = s
      BY <3>2, <3>3, ClientViewAssumption DEF IndexesOK
    <3> QED BY <2>1, <3>2, <3>4 DEF IndexesOK
  <2> QED BY <2>3, <2>4
<1>2. CASE UNCHANGED database
  BY <1>2 DEF database, IndexesOK
<1> QED BY <1>1, <1>2 DEF Next, vars, Commit, Sync, SyncFails, ChangeRequest

LEMMA IndexesInit == Init => IndexesOK
BY DEF Init, IndexesOK, EmptyEntries

LEMMA ExactQueries == IndexesOK => QueryIsExact
<1> SUFFICES ASSUME IndexesOK, NEW n \in DOMAIN schema.entries, NEW range \in Ranges,
                    ValidRange(range)
             PROVE  query_by_index(n, range) =
                      {{h \in heads :
                          /\ object_type[h[2]] = schema.entries[n].object_type
                          /\ content[h[2]] # Deleted
                          /\ \E v \in resolve_path(content[h[2]], schema.entries[n].json_path) :
                               IsKey(v) /\ Within(v, range)}}
  BY DEF QueryIsExact
<1>1. n \in DOMAIN indexes /\ indexes[n] = schema.entries[n].json_path
  BY DEF IndexesOK
<1>2. ASSUME NEW r
      PROVE  (\E v \in IndexKeys(n, r) : Within(v, range)) <=>
               /\ content[r] # Deleted
               /\ \E v \in resolve_path(content[r], schema.entries[n].json_path) :
                    IsKey(v) /\ Within(v, range)
  BY <1>1 DEF IndexKeys
<1> QED BY <1>1, <1>2 DEF query_by_index

(* A query finds exactly the local active heads of its type in its range,  *)
(* whichever releases opened the database before.                          *)
THEOREM QueriesAreExact == Spec => []QueryIsExact
<1>1. Spec => [](TypeOK /\ IndexesOK)
  <2>1. Init => TypeOK /\ IndexesOK
    BY TypeInit, IndexesInit
  <2>2. TypeOK /\ IndexesOK /\ [Next]_vars => (TypeOK /\ IndexesOK)'
    BY TypeStep, IndexesStep
  <2> QED BY <2>1, <2>2, PTL DEF Spec
<1> QED BY <1>1, ExactQueries, PTL
-----------------------------------------------------------------------------
(* Heads.  An object that changed has a last change.                       *)
LastChange(o, i) ==
  /\ i \in DOMAIN log /\ object_id[log[i]] = o
  /\ \A j \in i + 1 .. Len(log) : object_id[log[j]] # o

LastChangeExists ==
  \A o \in ObjectId : (\E i \in DOMAIN log : object_id[log[i]] = o) => \E i : LastChange(o, i)

HeadsInv == TypeOK /\ LastChangeExists /\ MatchesAreCurrent

LEMMA CommitLog ==
  ASSUME TypeOK, NEW r \in RevisionId, Commit(r)
  PROVE  /\ DOMAIN log = 1 .. Len(log) /\ Len(log) \in Nat
         /\ DOMAIN log' = 1 .. Len(log) + 1 /\ Len(log') = Len(log) + 1
         /\ log'[Len(log) + 1] = r
         /\ \A i \in DOMAIN log : log'[i] = log[i] /\ log[i] \in RevisionId
BY DEF TypeOK, Commit

LEMMA LastChangeStep == TypeOK /\ LastChangeExists /\ [Next]_vars => LastChangeExists'
<1> SUFFICES ASSUME TypeOK, LastChangeExists, [Next]_vars PROVE LastChangeExists'
  OBVIOUS
<1>1. ASSUME NEW r \in RevisionId, Commit(r) PROVE LastChangeExists'
  <2> SUFFICES ASSUME NEW o \in ObjectId, NEW i \in DOMAIN log', object_id[log'[i]] = o
               PROVE  \E k : LastChange(o, k)'
    BY DEF LastChangeExists
  <2>1. CASE object_id[r] = o
    <3>1. PICK k \in Nat : k = Len(log) + 1
      BY <1>1, CommitLog
    <3>2. LastChange(o, k)'
      BY <1>1, <2>1, <3>1, CommitLog DEF LastChange
    <3> QED BY <3>2
  <2>2. CASE object_id[r] # o
    <3>1. i \in DOMAIN log /\ object_id[log[i]] = o
      BY <1>1, <2>2, CommitLog
    <3>2. PICK k : LastChange(o, k)
      BY <3>1 DEF LastChangeExists
    <3>3. LastChange(o, k)'
      <4>1. k \in DOMAIN log' /\ object_id[log'[k]] = o
        BY <1>1, <3>2, CommitLog DEF LastChange
      <4>2. ASSUME NEW j \in k + 1 .. Len(log) + 1 PROVE object_id[log'[j]] # o
        <5>1. k \in Nat /\ k >= 1
          BY <1>1, <3>2, CommitLog DEF LastChange
        <5>2. CASE j = Len(log) + 1
          BY <1>1, <2>2, <5>2, CommitLog
        <5>3. CASE j # Len(log) + 1
          <6>1. j \in k + 1 .. Len(log) /\ j \in DOMAIN log
            BY <1>1, <5>1, <5>3, CommitLog
          <6> QED BY <1>1, <3>2, <6>1, CommitLog DEF LastChange
        <5> QED BY <5>2, <5>3
      <4> QED BY <1>1, <4>1, <4>2, CommitLog DEF LastChange
    <3> QED BY <3>3
  <2> QED BY <2>1, <2>2
<1>2. CASE UNCHANGED log
  BY <1>2 DEF LastChangeExists, LastChange
<1> QED BY <1>1, <1>2 DEF Next, vars, server, Sync, SyncFails, ChangeRequest, OpenDatabase

(* Of an object that does not change, a commit hides heads and adds none.  *)
LEMMA CommitHeads ==
  ASSUME TypeOK, NEW r \in RevisionId, Commit(r), NEW o \in ObjectId, object_id[r] # o
  PROVE  HeadsOf(o)' \subseteq HeadsOf(o)
<1>1. Committed' = Committed \cup {r}
  <2>1. \A x : x \in Committed' <=> x \in Committed \cup {r}
    BY CommitLog DEF Committed
  <2> QED BY <2>1
<1> SUFFICES ASSUME NEW h \in HeadsOf(o)' PROVE h \in HeadsOf(o)
  OBVIOUS
<1>2. PICK x \in Committed' : /\ h = HeadRow(x) /\ object_id[x] = o
                              /\ \A y \in Committed' : x \notin Parents(y)
  BY DEF HeadsOf, Frontier, HeadRow
<1> QED BY <1>1, <1>2 DEF HeadsOf, Frontier, HeadRow

(* Applying the rows of whole objects, each with a row for every head,     *)
(* keeps the current heads of all the others.                              *)
LEMMA AppliedKeeps ==
  ASSUME NEW since \in Nat, NEW rows \in SUBSET Updates(since), NEW o,
         \A g \in Updates(since) : (\E h \in rows : h[1] = g[1]) => g \in rows,
         HeadsOf(o) \subseteq heads
  PROVE  HeadsOf(o) \subseteq Applied(rows)
<1>1. CASE \E h \in rows : h[1] = o
  <2>1. HeadsOf(o) \subseteq Updates(since)
    BY <1>1 DEF Updates, HeadsOf
  <2>2. HeadsOf(o) \subseteq rows
    BY <1>1, <2>1 DEF HeadsOf
  <2> QED BY <2>2, AppliedFacts
<1>2. CASE ~\E h \in rows : h[1] = o
  <2>1. \A h \in HeadsOf(o) : h[1] = o
    BY DEF HeadsOf
  <2> QED BY <1>2, <2>1, AppliedFacts
<1> QED BY <1>1, <1>2

LEMMA HeadsInit == Init => LastChangeExists /\ MatchesAreCurrent
<1> SUFFICES ASSUME Init PROVE LastChangeExists /\ MatchesAreCurrent
  OBVIOUS
<1>1. DOMAIN log = {} /\ Committed = {}
  BY DEF Init, Committed
<1>2. \A o : HeadsOf(o) = {}
  BY <1>1 DEF HeadsOf, Frontier
<1> QED BY <1>1, <1>2 DEF LastChangeExists, MatchesAreCurrent

LEMMA MatchesStep == HeadsInv /\ [Next]_vars => MatchesAreCurrent'
<1> SUFFICES ASSUME HeadsInv, [Next]_vars,
                    NEW o \in ObjectId, UpToDate(o)',
                    NEW g \in HeadsOf(o)', HeadPasses(g[2], request')
             PROVE  HeadsOf(o)' \subseteq get(o)'
  BY DEF MatchesAreCurrent, HeadPasses
<1> USE DEF server, pulled, database
<1>0. TypeOK /\ DOMAIN log = 1 .. Len(log) /\ Len(log) \in Nat /\ cursor \in 0 .. Len(log)
  BY DEF HeadsInv, TypeOK
<1>1. get(o)' = {h \in heads' : h[1] = o} /\ \A h \in HeadsOf(o)' : h[1] = o
  BY DEF get, HeadsOf
<1>2. UpToDate(o) /\ HeadPasses(g[2], request) /\ g \in HeadsOf(o) => HeadsOf(o) \subseteq heads
  BY DEF HeadsInv, MatchesAreCurrent, get
<1>3. UNCHANGED log => HeadsOf(o)' = HeadsOf(o)
  BY DEF HeadsOf, Committed
<1>4. ASSUME NEW r \in RevisionId, Commit(r) PROVE HeadsOf(o)' \subseteq heads'
  <2>1. object_id[r] # o
    <3> SUFFICES ASSUME object_id[r] = o PROVE FALSE
      OBVIOUS
    <3>1. PICK k \in Nat : k = Len(log) + 1
      BY <1>0
    <3>2. k \in asked'
      BY <1>0, <1>4, <3>1, CommitLog DEF UpToDate
    <3> QED BY <1>0, <1>4, <3>1, <3>2 DEF Commit, TypeOK
  <2>2. UpToDate(o)
    <3> SUFFICES ASSUME NEW i \in DOMAIN log, object_id[log[i]] = o,
                        \A j \in i + 1 .. Len(log) : object_id[log[j]] # o
                 PROVE  i \in asked
      BY DEF UpToDate
    <3>1. i \in DOMAIN log' /\ object_id[log'[i]] = o
      BY <1>0, <1>4, CommitLog
    <3>2. ASSUME NEW j \in i + 1 .. Len(log') PROVE object_id[log'[j]] # o
      <4>1. CASE j = Len(log) + 1
        BY <1>0, <1>4, <2>1, <4>1, CommitLog
      <4>2. CASE j # Len(log) + 1
        <5>1. j \in i + 1 .. Len(log) /\ j \in DOMAIN log
          BY <1>0, <1>4, <4>2, CommitLog
        <5> QED BY <1>0, <1>4, <5>1, CommitLog
      <4> QED BY <4>1, <4>2
    <3>3. i \in asked'
      BY <3>1, <3>2 DEF UpToDate
    <3> QED BY <1>4, <3>3 DEF Commit
  <2>3. HeadsOf(o)' \subseteq HeadsOf(o)
    BY <1>0, <1>4, <2>1, CommitHeads
  <2> QED BY <1>2, <1>4, <2>2, <2>3 DEF Commit
<1>5. ASSUME NEW since \in Since, Sync(since) PROVE HeadsOf(o)' \subseteq heads'
  <2>0. since \in Nat
    BY <1>0 DEF Since
  <2>1. UNCHANGED <<log, request>> /\ heads' = Applied(Updates(since))
        /\ asked' = asked \cup (since + 1 .. Len(log))
    BY <1>5 DEF Sync
  <2>2. CASE \E i \in since + 1 .. Len(log) : object_id[log[i]] = o
    <3>1. HeadsOf(o) \subseteq Updates(since)
      BY <1>3, <2>1, <2>2 DEF Updates, HeadsOf
    <3> QED BY <1>3, <2>1, <3>1, AppliedFacts
  <2>3. CASE \A i \in since + 1 .. Len(log) : object_id[log[i]] # o
    <3>1. UpToDate(o)
      BY <1>0, <2>0, <2>1, <2>3 DEF UpToDate
    <3>2. HeadsOf(o) \subseteq heads
      BY <1>2, <1>3, <2>1, <3>1
    <3> QED BY <1>3, <2>0, <2>1, <3>2, AppliedKeeps
  <2> QED BY <2>2, <2>3
<1>6. ASSUME NEW since \in Since, SyncFails(since) PROVE HeadsOf(o)' \subseteq heads'
  <2>0. since \in Nat
    BY <1>0 DEF Since
  <2>1. UNCHANGED <<log, request, asked>>
    BY <1>6 DEF SyncFails
  <2>2. PICK before : heads' = Applied({h \in Updates(since) : h[1] \in before})
    BY <1>6 DEF SyncFails
  <2>3. HeadsOf(o) \subseteq heads
    BY <1>2, <1>3, <2>1 DEF UpToDate
  <2> QED BY <1>3, <2>0, <2>1, <2>2, <2>3, AppliedKeeps
<1>7. ASSUME NEW q \in Requests, ChangeRequest(q) PROVE FALSE
  <2>1. UNCHANGED log /\ asked' = {}
    BY <1>7 DEF ChangeRequest
  <2>2. \E i \in DOMAIN log : object_id[log[i]] = o
    BY <1>3, <2>1 DEF HeadsOf, Frontier, HeadRow, Committed
  <2>3. PICK i : LastChange(o, i)
    BY <2>2 DEF HeadsInv, LastChangeExists
  <2> QED BY <2>1, <2>3 DEF UpToDate, LastChange
<1>8. ASSUME UNCHANGED <<log, pulled, request>> PROVE HeadsOf(o)' \subseteq heads'
  <2>1. HeadsOf(o)' = HeadsOf(o) /\ UpToDate(o)
    BY <1>3, <1>8 DEF UpToDate
  <2>2. HeadsOf(o) \subseteq heads
    BY <1>2, <1>8, <2>1
  <2> QED BY <1>8, <2>1, <2>2
<1>9. ASSUME NEW s \in Schemas, OpenDatabase(s) PROVE UNCHANGED <<log, pulled, request>>
  BY <1>9 DEF OpenDatabase
<1> QED BY <1>1, <1>4, <1>5, <1>6, <1>7, <1>8, <1>9 DEF Next, vars

LEMMA HeadsInvariance == Spec => []HeadsInv
<1>1. Init => HeadsInv
  BY TypeInit, HeadsInit DEF HeadsInv
<1>2. HeadsInv /\ [Next]_vars => HeadsInv'
  BY TypeStep, LastChangeStep, MatchesStep DEF HeadsInv
<1> QED BY <1>1, <1>2, PTL DEF Spec

(* A conflict stays visible through a filter: of an object with a head     *)
(* that passes it, an up-to-date client has every head.                    *)
THEOREM MatchesArrive == Spec => []MatchesAreCurrent
BY HeadsInvariance, PTL DEF HeadsInv

(* A deletion reaches every up-to-date client that asked for the type.     *)
THEOREM TombstonesArrive == Spec => []DeletionsArrive
<1>1. HeadsInv => DeletionsArrive
  <2> SUFFICES ASSUME HeadsInv, NEW h \in Frontier(Committed),
                      content[h[2]] = Deleted, UpToDate(h[1]),
                      request.created_at_filters = {},
                      \A types \in request.object_types : object_type[h[2]] \in types
               PROVE  h \in get(h[1])
    BY DEF DeletionsArrive
  <2>1. HeadPasses(h[2], request)
    BY DEF HeadPasses, apply_created_at_filters
  <2>2. h[1] \in ObjectId /\ h \in HeadsOf(h[1])
    <3>1. Committed \subseteq RevisionId
      BY DEF HeadsInv, TypeOK, Committed
    <3> QED BY <3>1, FrontierRows DEF HeadsOf
  <2> QED BY <2>1, <2>2 DEF HeadsInv, MatchesAreCurrent
<1> QED BY <1>1, HeadsInvariance, PTL
-----------------------------------------------------------------------------
(* Numbers.  What Number::as_f64 gives for n, the significand rounded.     *)
Rounded(n) == IF n <= MaxSafe \/ n % 2 = 0 THEN n ELSE IF n % 4 = 1 THEN n - 1 ELSE n + 1

LEMMA RoundedMonotone ==
  ASSUME NEW m \in Nat, NEW n \in Nat, m <= n
  PROVE  Rounded(m) \in Nat /\ Rounded(n) \in Nat /\ Rounded(m) <= Rounded(n)
<1>0. MaxSafe \in Nat /\ MaxSafe >= 1 /\ MaxSafe % 4 = 0
  BY MaxSafeAssumption
<1>1. ASSUME NEW k \in Nat PROVE /\ Rounded(k) \in Nat
                                 /\ Rounded(k) = k \/ Rounded(k) = k - 1 \/ Rounded(k) = k + 1
                                 /\ Rounded(k) = k - 1 => k > MaxSafe /\ k % 4 = 1
                                 /\ Rounded(k) = k + 1 => k > MaxSafe /\ k % 4 = 3
  BY <1>0 DEF Rounded
<1>2. CASE m = n
  BY <1>1, <1>2
<1>3. CASE m < n
  <2>1. m + 1 <= n
    BY <1>3
  <2>2. CASE m + 2 <= n
    BY <1>1, <2>2
  <2>3. CASE n = m + 1
    <3>1. CASE Rounded(m) = m + 1
      <4>1. n % 4 = 0
        BY <1>1, <2>3, <3>1
      <4> QED BY <1>1, <2>3, <3>1, <4>1
    <3>2. CASE Rounded(m) # m + 1
      BY <1>1, <2>3, <3>2
    <3> QED BY <3>1, <3>2
  <2> QED BY <1>3, <2>2, <2>3
<1> QED BY <1>2, <1>3

(* Rounding keeps the order of integers.                                   *)
LEMMA AsF64Monotone ==
  ASSUME NEW v, NEW w, v[2] \in Int, w[2] \in Int, v[2] <= w[2]
  PROVE  AsF64(v) \in Int /\ AsF64(w) \in Int /\ AsF64(v) <= AsF64(w)
<1>1. ASSUME NEW x, x[2] \in Int
      PROVE  /\ x[2] >= 0 => AsF64(x) = Rounded(x[2])
             /\ x[2] < 0 => AsF64(x) = -Rounded(-x[2])
  BY <1>1 DEF AsF64, Rounded
<1>2. CASE v[2] >= 0
  BY <1>1, <1>2, RoundedMonotone
<1>3. CASE w[2] < 0
  <2>1. -v[2] \in Nat /\ -w[2] \in Nat /\ -w[2] <= -v[2]
    BY <1>3
  <2>2. /\ Rounded(-v[2]) \in Nat /\ Rounded(-w[2]) \in Nat
        /\ Rounded(-w[2]) <= Rounded(-v[2])
    BY <2>1, RoundedMonotone
  <2> QED BY <1>1, <1>3, <2>2
<1>4. CASE v[2] < 0 /\ w[2] >= 0
  <2>1. Rounded(-v[2]) \in Nat /\ Rounded(w[2]) \in Nat
    BY <1>4, RoundedMonotone
  <2> QED BY <1>1, <1>4, <2>1
<1> QED BY <1>2, <1>3, <1>4

(* The order of two numbers as the filter sees it.                         *)
LEMMA CompareNumbers ==
  ASSUME NEW v, NEW w, v[1] \in Number, w[1] \in Number, v[2] \in Int, w[2] \in Int
  PROVE  \E o \in {-1, 0, 1} :
           /\ compare(v, w) = {o}
           /\ o > 0 => v[2] > w[2]
           /\ o < 0 => v[2] < w[2]
           /\ v[2] >= w[2] => o >= 0
           /\ v[2] <= w[2] => o <= 0
<1>1. compare(v, w) = {Sign(AsF64(v) < AsF64(w), AsF64(w) < AsF64(v))}
  BY DEF compare, Number
<1>2. /\ AsF64(v) \in Int /\ AsF64(w) \in Int
      /\ v[2] <= w[2] => AsF64(v) <= AsF64(w)
      /\ w[2] <= v[2] => AsF64(w) <= AsF64(v)
  BY AsF64Monotone
<1> DEFINE o == Sign(AsF64(v) < AsF64(w), AsF64(w) < AsF64(v))
<1>3. /\ o \in {-1, 0, 1}
      /\ o > 0 <=> AsF64(w) < AsF64(v)
      /\ o < 0 <=> AsF64(v) < AsF64(w)
  BY <1>2 DEF Sign
<1> HIDE DEF o
<1>4. compare(v, w) = {o}
  BY <1>1 DEF o
<1> QED BY <1>2, <1>3, <1>4
-----------------------------------------------------------------------------
(* A path leads to one value at most.                                      *)
LEMMA OneValueAtPath ==
  ASSUME NEW data, NEW path \in Seq(STRING)
  PROVE  \A v, w \in resolve_path(data, path) : v = w
<1> DEFINE Body(f, n) == IF n = 0 THEN {data} ELSE UNION {Get(v, path[n]) : v \in f[n - 1]}
           Prefix(f, k) == f = [n \in 0 .. k |-> Body(f, n)]
           F == CHOOSE f : Prefix(f, Len(path))
           N == Len(path)
<1>0. N \in Nat
  OBVIOUS
<1>1. resolve_path(data, path) = F[N]
  BY DEF resolve_path
<1>2. \E f : Prefix(f, N)
  <2> DEFINE S == {k \in Nat : \E f : Prefix(f, k)}
  <2>1. 0 \in S
    <3>1. Prefix([n \in 0 .. 0 |-> {data}], 0)
      OBVIOUS
    <3> QED BY <3>1
  <2>2. ASSUME NEW k \in Nat, k \in S PROVE k + 1 \in S
    <3>1. PICK f : Prefix(f, k)
      BY <2>2
    <3> DEFINE g == [n \in 0 .. k + 1 |-> Body(f, n)]
    <3>2. \A n \in 0 .. k : g[n] = f[n]
      BY <3>1
    <3>3. \A n \in 0 .. k + 1 : Body(g, n) = Body(f, n)
      <4> SUFFICES ASSUME NEW n \in 0 .. k + 1, n # 0 PROVE g[n - 1] = f[n - 1]
        OBVIOUS
      <4>1. n - 1 \in 0 .. k
        OBVIOUS
      <4> HIDE DEF g
      <4> QED BY <3>2, <4>1
    <3>4. Prefix(g, k + 1)
      <4> HIDE DEF Body
      <4> QED BY <3>3
    <3> HIDE DEF g, Prefix
    <3> QED BY <3>4
  <2> HIDE DEF S
  <2>3. Nat \subseteq S
    BY <2>1, <2>2, NaturalsInSet
  <2> QED BY <1>0, <2>3 DEF S
<1>3. Prefix(F, N)
  <2> HIDE DEF Prefix
  <2> QED BY <1>2
<1> DEFINE One(n) == \A v, w \in F[n] : v = w
           S == {n \in Nat : n <= N => One(n)}
<1> HIDE DEF F, N
<1>4. 0 \in S
  BY <1>0, <1>3
<1>5. ASSUME NEW n \in Nat, n \in S PROVE n + 1 \in S
  <2> SUFFICES ASSUME n + 1 <= N PROVE One(n + 1)
    OBVIOUS
  <2>1. F[n + 1] = UNION {Get(v, path[n + 1]) : v \in F[n]}
    <3>1. n + 1 \in 0 .. N /\ n + 1 # 0 /\ (n + 1) - 1 = n
      BY <1>0
    <3>2. F[n + 1] = Body(F, n + 1)
      <4> HIDE DEF Body
      <4> QED BY <1>3, <3>1
    <3> QED BY <3>1, <3>2
  <2>2. One(n)
    BY <1>0, <1>5
  <2>3. \A v : \A x, y \in Get(v, path[n + 1]) : x = y
    BY DEF Get
  <2> QED BY <2>1, <2>2, <2>3
<1> HIDE DEF S
<1>6. Nat \subseteq S
  BY <1>4, <1>5, NaturalsInSet
<1> QED BY <1>0, <1>1, <1>6 DEF S

LEMMA BracketsHold == TypeOK => RangesBracket
<1> SUFFICES ASSUME TypeOK, NEW r \in Committed \ {x \in RevisionId : content[x] = Deleted},
                    NEW p \in Path,
                    NEW v \in resolve_path(content[r], p), NEW n \in 0 .. 2 * MaxSafe - 1,
                    v[1] \in Number
             PROVE  LET Holds(op) ==
                          evaluate_condition(content[r],
                            [path |-> p, operator |-> op, arg |-> <<"int", n>>])
                    IN  /\ Holds("Gt") => v[2] > n
                        /\ Holds("Lt") => v[2] < n
                        /\ v[2] >= n => Holds("Gte")
                        /\ v[2] <= n => Holds("Lte")
                        /\ Holds("Eq") => Holds("Gte") /\ Holds("Lte")
  BY DEF RangesBracket
<1> DEFINE w == <<"int", n>>
           value == resolve_path(content[r], p)
           Holds(op) == evaluate_condition(content[r], [path |-> p, operator |-> op, arg |-> w])
<1>1. r \in RevisionId \ {x \in RevisionId : content[x] = Deleted}
  BY DEF TypeOK, Committed
<1>2. v[2] \in Int /\ value = {v}
  <2>1. p \in Seq(STRING)
    BY ClientViewAssumption
  <2>2. \A x, y \in value : x = y
    BY <2>1, OneValueAtPath
  <2>3. v[2] \in Int
    BY <1>1, ClientViewAssumption
  <2> QED BY <2>2, <2>3
<1>3. w[1] \in Number /\ w[2] = n /\ n \in Int
  BY MaxSafeAssumption DEF Number
<1>4. PICK o \in {-1, 0, 1} :
        /\ compare(v, w) = {o}
        /\ o > 0 => v[2] > n
        /\ o < 0 => v[2] < n
        /\ v[2] >= n => o >= 0
        /\ v[2] <= n => o <= 0
  <2> HIDE DEF w
  <2> QED BY <1>2, <1>3, CompareNumbers
<1>5. /\ Holds("Gt") <=> o > 0
      /\ Holds("Gte") <=> o >= 0
      /\ Holds("Lt") <=> o < 0
      /\ Holds("Lte") <=> o <= 0
      /\ Holds("Eq") <=> v = w
  <2> HIDE DEF w
  <2> QED BY <1>2, <1>4 DEF evaluate_condition
<1>6. v = w => v[2] = n
  BY <1>3
<1> HIDE DEF w, Holds
<1>7. /\ Holds("Gt") => v[2] > n
      /\ Holds("Lt") => v[2] < n
      /\ v[2] >= n => Holds("Gte")
      /\ v[2] <= n => Holds("Lte")
      /\ Holds("Eq") => Holds("Gte") /\ Holds("Lte")
  BY <1>2, <1>3, <1>4, <1>5, <1>6
<1> QED BY <1>7 DEF Holds, w

(* Rounding to f64 never turns an order around: Gt and Lt select nothing   *)
(* they should not, Gte and Lte miss nothing, for every number of a body   *)
(* up to 2 * MaxSafe, whatever MaxSafe is.                                 *)
THEOREM RangesAreBracketed == Spec => []RangesBracket
BY TypeCorrect, BracketsHold, PTL
=============================================================================
