-------------------------- MODULE ClientHeadsProofs -------------------------
(***************************************************************************)
(* The local heads of a client that awaits each call before the next: no   *)
(* version disappears, and its cursor never runs ahead of its heads.       *)
(***************************************************************************)
EXTENDS ClientSyncProofs, FiniteSetTheorems

(* A revision anybody has heard of was written, with the object of its     *)
(* parents, and so was the root of its object.                             *)
Rooted(o) ==
  \E x \in RevisionId : /\ object_id[x] = o /\ lineage[x] = <<>>
                        /\ status[created_by[x]][x] # "absent"

Written(r) == status[created_by[r]][r] # "absent" /\ SameObject(r) /\ Rooted(object_id[r])

Good(h) == h = HeadRow(h[2]) /\ Written(h[2])

KnownToClient(c) ==
  /\ \A h \in heads[c] : Good(h)
  /\ \A r \in RevisionId : status[c][r] = "Pending" => Written(r)

KnownToSession(s) ==
  /\ wpc[s] # "idle" => /\ created_by[wrev[s]] = client_of[s] /\ SameObject(wrev[s])
                        /\ lineage[wrev[s]] = <<>> \/ Rooted(object_id[wrev[s]])
  /\ wpc[s] = "heads" => Written(wrev[s])
  /\ \A r \in batch[s] : Written(r)
  /\ \A h \in updates[s] : Good(h)
  /\ PullLocals(s)

KnownInv ==
  /\ TypeOK
  /\ \A r \in Committed : Written(r)
  /\ \A c \in ClientId : KnownToClient(c)
  /\ \A s \in Session : KnownToSession(s)

LEMMA StatusStays ==
  ASSUME TypeOK, NEW s \in Session, StepOf(s), NEW c \in ClientId, NEW r \in RevisionId,
         status[c][r] # "absent"
  PROVE  status'[c][r] # "absent"
<1>1. ASSUME NEW x \in rejected[s] PROVE x.reason # "absent"
  <2>1. x \in Rejections
    BY DEF TypeOK
  <2>2. x.reason \in RejectionReason
    BY <2>1 DEF Rejections
  <2> QED BY <2>2 DEF RejectionReason
<1>2. CASE c # client_of[s]
  BY <1>2, Frame DEF SameClient
<1>3. CASE c = client_of[s]
  BY <1>1, <1>3, StatusStep
<1> QED BY <1>2, <1>3

LEMMA RootedStays ==
  ASSUME TypeOK, NEW s \in Session, StepOf(s), NEW o, Rooted(o)
  PROVE  Rooted(o)'
BY StatusStays, RevisionAssumption DEF Rooted

LEMMA WrittenStays ==
  ASSUME TypeOK, NEW s \in Session, StepOf(s), NEW r \in RevisionId, Written(r)
  PROVE  Written(r)'
BY StatusStays, RootedStays, RevisionAssumption DEF Written

LEMMA GoodStays ==
  ASSUME TypeOK, NEW s \in Session, StepOf(s), NEW h \in Row, Good(h)
  PROVE  Good(h)'
BY WrittenStays DEF Good, Row

LEMMA CommittedStep ==
  ASSUME KnownInv, TypeOK', NEW s \in Session, StepOf(s), NEW r \in Committed'
  PROVE  Written(r)'
<1>0. TypeOK /\ KnownToSession(s)
  BY DEF KnownInv
<1>1. r \in RevisionId
  BY CommittedType DEF TypeOK, Committed
<1>2. r \in Committed \cup All(s)
  BY <1>0, LogGrows DEF Committed
<1>3. All(s) \subseteq batch[s]
  BY KeyFacts, AcceptedFacts DEF All
<1>4. Written(r)
  BY <1>2, <1>3 DEF KnownInv, KnownToSession
<1> QED BY <1>0, <1>1, <1>4, WrittenStays

LEMMA KnownToClientStep ==
  ASSUME KnownInv, TypeOK', NEW s \in Session, StepOf(s), NEW c \in ClientId
  PROVE  KnownToClient(c)'
<1>0. TypeOK /\ KnownToSession(s) /\ KnownToClient(c)
  BY DEF KnownInv
<1>1. heads[c] \subseteq Row /\ heads'[c] \subseteq Row /\ wrev[s] \in RevisionId
  BY <1>0 DEF TypeOK
<1>2. CASE c # client_of[s]
  <2>1. status'[c] = status[c] /\ heads'[c] = heads[c]
    BY <1>0, <1>2, Frame DEF SameClient
  <2>2. \A h \in heads'[c] : Good(h)'
    BY <1>0, <1>1, <2>1, GoodStays DEF KnownToClient
  <2>3. \A r \in RevisionId : status'[c][r] = "Pending" => Written(r)'
    BY <1>0, <2>1, WrittenStays DEF KnownToClient
  <2> QED BY <2>2, <2>3 DEF KnownToClient
<1>3. CASE c = client_of[s]
  <2>1. ASSUME NEW h \in heads'[c] PROVE Good(h)'
    <3>1. HeadRow(wrev[s])[2] = wrev[s]
      BY DEF HeadRow
    <3>2. Good(h)
      BY <1>0, <1>3, <3>1, HeadsStep DEF KnownToClient, KnownToSession, PullLocals, Good
    <3> QED BY <1>0, <1>1, <3>2, GoodStays
  <2>2. ASSUME NEW r \in RevisionId, status'[c][r] = "Pending" PROVE Written(r)'
    <3>1. ASSUME NEW x \in rejected[s] PROVE x.reason # "Pending"
      <4>1. x \in Rejections
        BY <1>0 DEF TypeOK
      <4>2. x.reason \in RejectionReason
        BY <4>1 DEF Rejections
      <4> QED BY <4>2 DEF RejectionReason
    <3>2. status[c][r] = "Pending" \/ (wpc[s] = "put" /\ wrev[s] = r)
      BY <1>0, <1>3, <2>2, <3>1, StatusStep
    <3>3. CASE status[c][r] = "Pending"
      BY <1>0, <3>3, WrittenStays DEF KnownToClient
    <3>4. CASE wpc[s] = "put" /\ wrev[s] = r
      <4>1. /\ created_by[r] = c /\ SameObject(r)
            /\ lineage[r] = <<>> \/ Rooted(object_id[r])
        BY <1>0, <1>3, <3>4 DEF KnownToSession
      <4>2. Rooted(object_id[r])'
        <5>1. CASE lineage[r] = <<>>
          BY <2>2, <4>1, <5>1 DEF Rooted
        <5>2. CASE Rooted(object_id[r])
          BY <1>0, <5>2, RootedStays
        <5> QED BY <4>1, <5>1, <5>2
      <4> QED BY <2>2, <4>1, <4>2 DEF Written
    <3> QED BY <3>2, <3>3, <3>4
  <2> QED BY <2>1, <2>2 DEF KnownToClient
<1> QED BY <1>2, <1>3

LEMMA KnownWriteStep ==
  ASSUME KnownInv, TypeOK', NEW s \in Session, StepOf(s)
  PROVE  /\ wpc'[s] # "idle" =>
              /\ created_by[wrev'[s]] = client_of[s] /\ SameObject(wrev'[s])
              /\ lineage[wrev'[s]] = <<>> \/ Rooted(object_id[wrev[s]])'
         /\ wpc'[s] = "heads" => Written(wrev[s])'
<1>0. TypeOK /\ KnownToSession(s) /\ client_of[s] \in ClientId
  BY ClientSyncAssumption DEF KnownInv
<1>1. KnownToClient(client_of[s])
  BY <1>0 DEF KnownInv
<1>2. PICK r \in RevisionId : r = wrev'[s]
  BY DEF TypeOK
<1>3. /\ Rooted(object_id[wrev[s]])' <=> Rooted(object_id[r])'
      /\ Written(wrev[s])' <=> Written(r)'
  BY <1>2 DEF Rooted, Written
<1>4. CASE wpc'[s] = wpc[s] /\ wrev'[s] = wrev[s]
  BY <1>0, <1>2, <1>3, <1>4, RootedStays, WrittenStays DEF KnownToSession
<1>5. CASE PutRevision(s) /\ wpc[s] = "put" /\ wpc'[s] = "heads" /\ wrev'[s] = wrev[s]
  <2>1. /\ created_by[r] = client_of[s] /\ SameObject(r)
        /\ lineage[r] = <<>> \/ Rooted(object_id[r])
    BY <1>0, <1>2, <1>5 DEF KnownToSession
  <2>2. status'[client_of[s]][r] = "Pending"
    BY <1>0, <1>2, <1>5 DEF PutRevision, TypeOK
  <2>3. KnownToClient(client_of[s])'
    BY <1>0, KnownToClientStep
  <2>4. Written(r)'
    BY <2>2, <2>3 DEF KnownToClient
  <2> QED BY <1>2, <1>3, <2>1, <2>4 DEF Written
<1>6. CASE wpc'[s] = "put" /\ StartWrite(s, r)
  <2>1. created_by[r] = client_of[s] /\ Parents(r) \subseteq HeadsOf(client_of[s], object_id[r])
    BY <1>6 DEF StartWrite, Asks, MayWrite
  <2>2. \A p \in Parents(r) : object_id[p] = object_id[r] /\ Written(p)
    <3>1. ASSUME NEW p \in Parents(r) PROVE object_id[p] = object_id[r] /\ Written(p)
      <4>1. PICK h \in heads[client_of[s]] : h[1] = object_id[r] /\ h[2] = p
        BY <2>1 DEF HeadsOf
      <4>2. Good(h)
        BY <1>1 DEF KnownToClient
      <4> QED BY <4>1, <4>2 DEF Good, HeadRow
    <3> QED BY <3>1
  <2>3. lineage[r] = <<>> \/ Rooted(object_id[r])
    <3>1. CASE Parents(r) = {}
      <4>1. lineage[r] \in Seq(RevisionId)
        BY RevisionAssumption
      <4>2. DOMAIN lineage[r] = {}
        BY <3>1 DEF Parents
      <4>3. Len(lineage[r]) \in Nat /\ DOMAIN lineage[r] = 1 .. Len(lineage[r])
        BY <4>1
      <4>4. Len(lineage[r]) = 0
        <5>1. Len(lineage[r]) # 0 => 1 \in 1 .. Len(lineage[r])
          BY <4>3
        <5> QED BY <4>2, <4>3, <5>1
      <4> QED BY <4>1, <4>4
    <3>2. CASE Parents(r) # {}
      BY <2>2, <3>2 DEF Written
    <3> QED BY <3>1, <3>2
  <2>4. lineage[r] = <<>> \/ Rooted(object_id[r])'
    BY <1>0, <2>3, RootedStays
  <2> QED BY <1>2, <1>3, <1>6, <2>1, <2>2, <2>4 DEF SameObject
<1> QED BY <1>0, <1>2, <1>4, <1>5, <1>6, WriterStep

LEMMA KnownToSessionStep ==
  ASSUME KnownInv, TypeOK', NEW s \in Session, StepOf(s), NEW t \in Session
  PROVE  KnownToSession(t)'
<1>0. TypeOK /\ KnownToSession(t) /\ client_of[t] \in ClientId
  BY ClientSyncAssumption DEF KnownInv
<1>1. /\ batch[t] \subseteq RevisionId /\ updates[t] \subseteq Row /\ updates'[t] \subseteq Row
      /\ wrev[t] \in RevisionId
  BY <1>0 DEF TypeOK
<1>2. CASE s # t
  <2>0. SameSession(t)
    BY <1>0, <1>2, Frame
  <2>1. PICK r \in RevisionId : r = wrev[t]
    BY <1>1
  <2>2. /\ wpc[t] # "idle" => lineage[r] = <<>> \/ Rooted(object_id[r])'
        /\ wpc[t] = "heads" => Written(r)'
    BY <1>0, <2>1, RootedStays, WrittenStays DEF KnownToSession
  <2>3. /\ Rooted(object_id[wrev[t]])' <=> Rooted(object_id[r])'
        /\ Written(wrev[t])' <=> Written(r)'
    BY <2>0, <2>1 DEF Rooted, Written, SameSession
  <2>4. (\A x \in batch'[t] : Written(x)') /\ \A h \in updates'[t] : Good(h)'
    BY <1>0, <1>1, <2>0, WrittenStays, GoodStays DEF KnownToSession, SameSession
  <2>5. PullLocals(t)'
    BY <1>0, <2>0 DEF KnownToSession, SameSession, PullLocals
  <2> QED BY <1>0, <2>0, <2>1, <2>2, <2>3, <2>4, <2>5 DEF KnownToSession, SameSession
<1>3. CASE s = t
  <2>1. ASSUME NEW r \in batch'[t] PROVE Written(r)'
    <3>1. r \in RevisionId
      BY DEF TypeOK
    <3>2. Written(r)
      BY <1>0, <1>3, PusherStep DEF KnownInv, KnownToSession, KnownToClient, PendingRevisions
    <3> QED BY <1>0, <3>1, <3>2, WrittenStays
  <2>2. /\ PullLocals(t)'
        /\ updates'[t] \subseteq updates[t] \/ updates'[t] = UpdatesSince(client_of[t], since[t])
    BY <1>0, <1>3, PullerStep DEF KnownToSession
  <2>3. ASSUME NEW h \in updates'[t] PROVE Good(h)'
    <3>1. \A g \in UpdatesSince(client_of[t], since[t]) : Good(g)
      BY DEF UpdatesSince, Frontier, HeadRow, Good, KnownInv
    <3>2. Good(h)
      BY <1>0, <2>2, <3>1 DEF KnownToSession
    <3> QED BY <1>0, <1>1, <3>2, GoodStays
  <2> QED BY <1>0, <1>3, <2>1, <2>2, <2>3, KnownWriteStep DEF KnownToSession
<1> QED BY <1>2, <1>3

LEMMA KnownStep == KnownInv /\ [Next]_vars => KnownInv'
<1> SUFFICES ASSUME KnownInv, [Next]_vars PROVE KnownInv'
  OBVIOUS
<1>0. TypeOK'
  BY TypeStep DEF KnownInv
<1>1. ASSUME NEW s \in Session, StepOf(s) PROVE KnownInv'
  BY <1>0, <1>1, CommittedStep, KnownToClientStep, KnownToSessionStep DEF KnownInv
<1>2. CASE UNCHANGED vars
  BY <1>0, <1>2 DEF vars, store, writer, pushing, pulling, KnownInv, KnownToClient,
                    KnownToSession, PullLocals, Good, Written, Rooted, Committed
<1> QED BY <1>1, <1>2 DEF Next, StepOf

LEMMA KnownInit == Init => KnownInv
<1> SUFFICES ASSUME Init PROVE KnownInv
  OBVIOUS
<1>1. Committed = {}
  BY DEF Init, Committed
<1>2. \A c \in ClientId : KnownToClient(c)
  BY DEF Init, KnownToClient
<1>3. \A s \in Session : KnownToSession(s)
  BY DEF Init, KnownToSession, PullLocals
<1> QED BY <1>1, <1>2, <1>3, TypeInit DEF KnownInv
-----------------------------------------------------------------------------
(* A client that awaits its calls has one of them in flight at most, and   *)
(* what that call read of the heads is still so.                           *)
Active(s) == wpc[s] # "idle" \/ spc[s] # "idle"

LocalHeads(c, o) == {h \in heads[c] : h[1] = o}

OneCall(s) ==
  /\ \A t \in Session : client_of[t] = client_of[s] /\ Active(t) => t = s
  /\ wpc[s] = "idle" \/ spc[s] = "idle"

CallOK(s) ==
  /\ Active(s) => OneCall(s)
  /\ wpc[s] # "idle" => HeadsOf(client_of[s], object_id[wrev[s]]) \subseteq Parents(wrev[s])
  /\ spc[s] = "replace" =>
       \A o \in ObjectId : AllStored(s, o) => existing[s] = LocalHeads(client_of[s], o)

SerialSession == {s \in Session : client_of[s] \in Serial}

SerialInv == KnownInv /\ \A s \in SerialSession : CallOK(s)

(* A step continues a call in flight or starts one.                        *)
LEMMA StepStarts ==
  ASSUME TypeOK, NEW s \in SerialSession, StepOf(s)
  PROVE  Active(s) \/ \A t \in Session : client_of[t] = client_of[s] => ~Active(t)
<1>1. ASSUME MayStart(s) PROVE \A t \in Session : client_of[t] = client_of[s] => ~Active(t)
  BY <1>1 DEF MayStart, SerialSession, Serial, Active
<1>2. (\E r \in RevisionId : StartWrite(s, r)) \/ StartSync(s) => MayStart(s)
  BY DEF StartWrite, StartSync
<1>3. WriteStep(s) => Active(s)
  BY DEF WriteStep, PutRevision, ReplaceHeads, Active
<1>4. SyncStep(s) => StartSync(s) \/ Active(s)
  BY DEF SyncStep, ReadPending, Push, MarkSynced, MarkError, Pull, Marked, PutPulled,
         ReadLocalHeads, ApplyConflict, ApplyReplace, WriteCursor, Active
<1>5. Lose(s) \/ Crash(s) => Active(s)
  BY DEF Lose, Crash, Marked, Active
<1> QED BY <1>1, <1>2, <1>3, <1>4, <1>5 DEF StepOf

LEMMA OneHead ==
  ASSUME NEW S \in SUBSET RevisionId, Cardinality(S) = 1, NEW x \in S
  PROVE  S = {x}
<1>1. IsFiniteSet(RevisionId)
  BY ClientSyncAssumption DEF IsFiniteSet
<1>2. IsFiniteSet(S)
  BY <1>1, FS_Subset
<1>3. \E y : S = {y}
  BY <1>2, FS_Singleton
<1> QED BY <1>3

(* The heads a write was allowed on are the ones it supersedes.            *)
LEMMA WriteSupersedes ==
  ASSUME ResolveAll = TRUE, KnownInv, NEW s \in Session, NEW r \in RevisionId, StartWrite(s, r)
  PROVE  HeadsOf(client_of[s], object_id[r]) \subseteq Parents(r)
<1> DEFINE c == client_of[s]
           H == HeadsOf(c, object_id[r])
<1>0. /\ c \in ClientId /\ TypeOK /\ KnownToClient(c)
  BY ClientSyncAssumption DEF KnownInv
<1>1. /\ created_by[r] = c /\ status[c][r] = "absent"
      /\ Len(lineage[r]) > 1 => Parents(r) = H
      /\ Parents(r) \subseteq H
      /\ Len(lineage[r]) = 1 => Cardinality(H) = 1
  BY DEF StartWrite, Asks, MayWrite
<1>2. lineage[r] \in Seq(RevisionId) /\ Len(lineage[r]) \in Nat
  BY RevisionAssumption
<1>3. CASE Len(lineage[r]) = 0
  <2>1. lineage[r] = <<>>
    BY <1>2, <1>3
  <2>2. ASSUME NEW h \in heads[c], h[1] = object_id[r] PROVE FALSE
    <3>1. Rooted(object_id[r])
      BY <1>0, <2>2 DEF KnownToClient, Good, Written, HeadRow
    <3>2. PICK x \in RevisionId : /\ object_id[x] = object_id[r] /\ lineage[x] = <<>>
                                  /\ status[created_by[x]][x] # "absent"
      BY <3>1 DEF Rooted
    <3>3. x = r
      BY <2>1, <3>2, ClientSyncAssumption
    <3> QED BY <1>1, <3>2, <3>3
  <2> QED BY <2>2 DEF HeadsOf
<1>4. CASE Len(lineage[r]) = 1
  <2>1. lineage[r][1] \in Parents(r)
    BY <1>2, <1>4 DEF Parents
  <2>2. H \in SUBSET RevisionId
    BY <1>0 DEF HeadsOf, TypeOK, Row
  <2> HIDE DEF H
  <2>3. H = {lineage[r][1]}
    BY <1>1, <1>4, <2>1, <2>2, OneHead
  <2> QED BY <2>1, <2>3 DEF H
<1>5. CASE Len(lineage[r]) > 1
  BY <1>1, <1>5
<1>6. Len(lineage[r]) = 0 \/ Len(lineage[r]) = 1 \/ Len(lineage[r]) > 1
  <2>1. \A n \in Nat : n = 0 \/ n = 1 \/ n > 1
    OBVIOUS
  <2> QED BY <1>2, <2>1, Zenon
<1> QED BY <1>3, <1>4, <1>5, <1>6

(* What a step of s makes of its own call.                                 *)
LEMMA OwnCallStep ==
  ASSUME ResolveAll = TRUE, SerialInv, TypeOK', NEW s \in SerialSession, StepOf(s)
  PROVE  /\ wpc'[s] = "idle" \/ spc'[s] = "idle"
         /\ wpc'[s] # "idle" =>
              HeadsOf(client_of[s], object_id[wrev[s]])' \subseteq Parents(wrev'[s])
         /\ spc'[s] = "replace" =>
              \A o \in ObjectId : AllStored(s, o)' => existing'[s] = LocalHeads(client_of[s], o)'
<1> USE DEF store, writer, pushing, pulling, GotoSync
<1> DEFINE c == client_of[s]
           Goal == /\ wpc'[s] = "idle" \/ spc'[s] = "idle"
                   /\ wpc'[s] # "idle" =>
                        HeadsOf(client_of[s], object_id[wrev[s]])' \subseteq Parents(wrev'[s])
                   /\ spc'[s] = "replace" =>
                        \A o \in ObjectId :
                          AllStored(s, o)' => existing'[s] = LocalHeads(client_of[s], o)'
<1>0. TypeOK /\ s \in Session /\ CallOK(s) /\ c \in ClientId
  BY ClientSyncAssumption DEF SerialInv, KnownInv, SerialSession
<1>1. ASSUME NEW r \in RevisionId, StartWrite(s, r) PROVE Goal
  <2>1. wpc'[s] = "put" /\ wrev'[s] = r /\ UNCHANGED <<spc, heads>> /\ MayStart(s)
    BY <1>0, <1>1 DEF StartWrite, TypeOK
  <2>2. spc'[s] = "idle"
    BY <1>0, <2>1 DEF MayStart, SerialSession, Serial
  <2>3. HeadsOf(c, object_id[r]) \subseteq Parents(r)
    BY <1>0, <1>1, WriteSupersedes DEF SerialInv
  <2> QED BY <2>1, <2>2, <2>3 DEF HeadsOf
<1>2. ASSUME PutRevision(s) PROVE Goal
  <2>1. wpc[s] = "put" /\ UNCHANGED <<wrev, spc, heads>>
    BY <1>2 DEF PutRevision
  <2>2. spc[s] = "idle" /\ HeadsOf(c, object_id[wrev[s]]) \subseteq Parents(wrev[s])
    BY <1>0, <2>1 DEF CallOK, OneCall, Active
  <2> QED BY <2>1, <2>2 DEF HeadsOf
<1>3. ASSUME ReplaceHeads(s) PROVE Goal
  <2>1. wpc[s] = "heads" /\ wpc'[s] = "idle" /\ UNCHANGED spc
    BY <1>0, <1>3 DEF ReplaceHeads, TypeOK
  <2>2. spc[s] = "idle"
    BY <1>0, <2>1 DEF CallOK, OneCall, Active
  <2> QED BY <2>1, <2>2
<1>4. ASSUME SyncStep(s), ~\E o \in ObjectId : ReadLocalHeads(s, o) PROVE Goal
  <2>1. UNCHANGED writer /\ wpc[s] = "idle"
    <3>1. UNCHANGED writer /\ (spc[s] # "idle" \/ MayStart(s))
      BY <1>4 DEF SyncStep, StartSync, ReadPending, Push, MarkSynced, MarkError, Pull, Marked,
                  PutPulled, ReadLocalHeads, ApplyConflict, ApplyReplace, WriteCursor
    <3>2. wpc[s] = "idle"
      BY <1>0, <3>1 DEF CallOK, OneCall, Active, MayStart, SerialSession, Serial
    <3> QED BY <3>1, <3>2
  <2>2. spc'[s] # "replace"
    <3>1. StartSync(s) \/ ReadPending(s) \/ Push(s) \/ Pull(s) => spc'[s] # "replace"
      BY <1>0 DEF StartSync, ReadPending, Push, Pull, TypeOK
    <3>2. ApplyReplace(s) \/ (\E o \in ObjectId : ApplyConflict(s, o)) => spc'[s] # "replace"
      BY <1>0 DEF ApplyReplace, ApplyConflict, NextUpdate, TypeOK
    <3>3. WriteCursor(s) => spc'[s] # "replace"
      BY <1>0 DEF WriteCursor, EndSync, TypeOK
    <3>4. \/ \E r \in RevisionId : MarkSynced(s, r)
          \/ \E x \in rejected[s] : MarkError(s, x)
          \/ \E h \in updates[s] : PutPulled(s, h)
          => spc'[s] # "replace"
      BY <1>0 DEF MarkSynced, MarkError, PutPulled
    <3> QED BY <1>4, <3>1, <3>2, <3>3, <3>4 DEF SyncStep
  <2> QED BY <2>1, <2>2
<1>5. ASSUME NEW o \in ObjectId, ReadLocalHeads(s, o) PROVE Goal
  <2>1. /\ spc[s] = "apply" /\ UNCHANGED <<wpc, heads, stored, updates>>
        /\ AllStored(s, o) /\ existing'[s] = LocalHeads(c, o)
    BY <1>0, <1>5 DEF ReadLocalHeads, LocalHeads, TypeOK
  <2>2. wpc[s] = "idle"
    BY <1>0, <2>1 DEF CallOK, OneCall, Active
  <2>3. ASSUME NEW o2 \in ObjectId, AllStored(s, o2)' PROVE o2 = o
    BY <2>1, <2>3 DEF AllStored, OfObject
  <2> QED BY <2>1, <2>2, <2>3 DEF LocalHeads
<1>6. ASSUME Lose(s) \/ Crash(s) PROVE Goal
  <2>1. spc'[s] = "idle"
    BY <1>0, <1>6 DEF Lose, Crash, EndSync, TypeOK
  <2>2. wpc'[s] = "idle"
    <3>1. ASSUME Crash(s) PROVE wpc'[s] = "idle"
      BY <1>0, <3>1 DEF Crash, TypeOK
    <3>2. ASSUME Lose(s) PROVE wpc'[s] = "idle"
      <4>1. spc[s] # "idle" /\ UNCHANGED wpc
        BY <3>2 DEF Lose, Marked
      <4> QED BY <1>0, <4>1 DEF CallOK, OneCall, Active
    <3> QED BY <1>6, <3>1, <3>2
  <2> QED BY <2>1, <2>2
<1> HIDE DEF Goal
<1>7. Goal
  BY <1>1, <1>2, <1>3, <1>4, <1>5, <1>6 DEF StepOf, WriteStep, SyncStep
<1> QED BY <1>7 DEF Goal

LEMMA CallStep ==
  ASSUME ResolveAll = TRUE, SerialInv, TypeOK', NEW s \in Session, StepOf(s), NEW t \in SerialSession
  PROVE  CallOK(t)'
<1>0. TypeOK /\ CallOK(t) /\ t \in Session /\ client_of[t] \in ClientId
  BY ClientSyncAssumption DEF SerialInv, KnownInv, SerialSession
<1>1. \A u \in Session \ {s} : SameSession(u) /\ (Active(u)' <=> Active(u))
  BY <1>0, Frame DEF SameSession, Active
<1>2. CASE client_of[s] # client_of[t]
  <2>1. SameSession(t) /\ SameClient(client_of[t])
    BY <1>0, <1>2, Frame
  <2>2. OneCall(t) => OneCall(t)'
    BY <1>1, <1>2, <2>1 DEF OneCall, SameSession
  <2> QED BY <1>0, <1>1, <1>2, <2>1, <2>2
          DEF CallOK, SameSession, SameClient, HeadsOf, AllStored, OfObject, LocalHeads
<1>3. CASE client_of[s] = client_of[t] /\ s # t
  <2>1. s \in SerialSession
    BY <1>3 DEF SerialSession
  <2>2. ~Active(t)
    <3>1. CASE Active(s)
      <4>1. OneCall(s)
        BY <2>1, <3>1 DEF SerialInv, CallOK
      <4> QED BY <1>0, <1>3, <4>1 DEF OneCall
    <3>2. CASE ~Active(s)
      BY <1>0, <1>3, <2>1, <3>2, StepStarts
    <3> QED BY <3>1, <3>2
  <2>3. ~Active(t)'
    BY <1>0, <1>1, <1>3, <2>2
  <2> QED BY <2>3 DEF CallOK, Active
<1>4. CASE s = t
  <2>1. \A u \in Session : client_of[u] = client_of[t] /\ Active(u)' => u = t
    <3>1. CASE Active(t)
      <4>1. OneCall(t)
        BY <1>0, <3>1 DEF CallOK
      <4> QED BY <1>1, <1>4, <4>1 DEF OneCall
    <3>2. CASE ~Active(t)
      BY <1>0, <1>1, <1>4, <3>2, StepStarts
    <3> QED BY <3>1, <3>2
  <2>2. OneCall(t)'
    BY <1>4, <2>1, OwnCallStep DEF OneCall
  <2> QED BY <1>4, <2>2, OwnCallStep DEF CallOK
<1> QED BY <1>2, <1>3, <1>4

LEMMA SerialStep == ResolveAll = TRUE /\ SerialInv /\ [Next]_vars => SerialInv'
<1> SUFFICES ASSUME ResolveAll = TRUE, SerialInv, [Next]_vars PROVE SerialInv'
  OBVIOUS
<1>0. KnownInv' /\ TypeOK'
  BY KnownStep DEF SerialInv, KnownInv
<1>1. ASSUME NEW s \in Session, StepOf(s) PROVE SerialInv'
  BY <1>0, <1>1, CallStep DEF SerialInv
<1>2. CASE UNCHANGED vars
  BY <1>0, <1>2 DEF vars, store, writer, pushing, pulling, SerialInv, CallOK, OneCall, Active,
                    HeadsOf, AllStored, OfObject, LocalHeads
<1> QED BY <1>1, <1>2 DEF Next, StepOf

LEMMA SerialInit == Init => SerialInv
<1> SUFFICES ASSUME Init PROVE SerialInv
  OBVIOUS
<1>1. \A s \in SerialSession : CallOK(s)
  BY DEF Init, CallOK, Active, SerialSession
<1> QED BY <1>1, KnownInit DEF SerialInv

LEMMA KeepsSerialHeads ==
  ASSUME SerialInv, NEW s \in Session, StepOf(s)
  PROVE  KeepsHeads(Serial)
<1> USE DEF store, writer, pushing, pulling
<1> SUFFICES ASSUME NEW c \in Serial, NEW h \in heads[c]
             PROVE  \E g \in heads'[c] : <<h[2], g[2]>> \in Ancestry
  BY DEF KeepsHeads
<1>0. TypeOK /\ c \in ClientId /\ h \in Row /\ h[2] \in RevisionId
  BY DEF SerialInv, KnownInv, TypeOK, Serial, Row
<1>1. ASSUME h \in heads'[c] PROVE \E g \in heads'[c] : <<h[2], g[2]>> \in Ancestry
  BY <1>0, <1>1, AncestrySteps
<1>2. CASE c # client_of[s]
  BY <1>0, <1>1, <1>2, Frame DEF SameClient
<1>3. ASSUME c = client_of[s], ReplaceHeads(s) PROVE \E g \in heads'[c] : <<h[2], g[2]>> \in Ancestry
  <2>1. /\ wpc[s] = "heads"
        /\ heads'[c] = {g \in heads[c] : g[1] # object_id[wrev[s]]} \cup {HeadRow(wrev[s])}
    BY <1>0, <1>3 DEF ReplaceHeads, ReplacedBy, TypeOK
  <2>2. CASE h[1] # object_id[wrev[s]]
    BY <1>1, <2>1, <2>2
  <2>3. CASE h[1] = object_id[wrev[s]]
    <3>1. h[2] \in Parents(wrev[s])
      BY <1>3, <2>1, <2>3 DEF SerialInv, CallOK, SerialSession, HeadsOf
    <3>2. HeadRow(wrev[s])[2] = wrev[s] /\ wrev[s] \in RevisionId
      BY <1>0 DEF HeadRow, TypeOK
    <3> QED BY <2>1, <3>1, <3>2, AncestrySteps
  <2> QED BY <2>2, <2>3
<1>4. ASSUME c = client_of[s], ApplyReplace(s) PROVE \E g \in heads'[c] : <<h[2], g[2]>> \in Ancestry
  <2>1. PICK o \in ObjectId :
          /\ AllStored(s, o)
          /\ heads' = [heads EXCEPT ![c] =
               IF Diverged(s) THEN @ \cup stored[s] ELSE ReplacedBy(c, o, stored[s])]
    BY <1>4 DEF ApplyReplace
  <2>2. spc[s] = "replace" /\ s \in SerialSession
    BY <1>4 DEF ApplyReplace, SerialSession
  <2>3. existing[s] = LocalHeads(c, o)
    BY <1>4, <2>1, <2>2 DEF SerialInv, CallOK
  <2>4. CASE Diverged(s)
    BY <1>0, <1>1, <2>1, <2>4 DEF TypeOK
  <2>5. CASE ~Diverged(s)
    <3>1. heads'[c] = {g \in heads[c] : g[1] # o} \cup stored[s]
      BY <1>0, <2>1, <2>5 DEF TypeOK, ReplacedBy
    <3>2. CASE h[1] # o
      BY <1>1, <3>1, <3>2
    <3>3. CASE h[1] = o
      <4>1. h \in existing[s]
        BY <2>3, <3>3 DEF LocalHeads
      <4>2. h \in stored[s] \/ \E g \in stored[s] : h[2] \in Parents(g[2])
        BY <2>5, <4>1 DEF Diverged
      <4>3. \A g \in stored[s] : g[2] \in RevisionId
        BY <1>0 DEF TypeOK, Row
      <4> QED BY <1>1, <3>1, <4>2, <4>3, AncestrySteps
    <3> QED BY <3>2, <3>3
  <2> QED BY <2>4, <2>5
<1>5. ASSUME NEW o \in ObjectId, ApplyConflict(s, o) PROVE heads[c] \subseteq heads'[c]
  BY <1>0, <1>5 DEF ApplyConflict, TypeOK
<1>6. ASSUME \/ StartSync(s) \/ ReadPending(s) \/ Push(s) \/ Pull(s) \/ WriteCursor(s)
             \/ \E o \in ObjectId : ReadLocalHeads(s, o)
             \/ \E r \in RevisionId : MarkSynced(s, r)
             \/ \E x \in rejected[s] : MarkError(s, x)
             \/ \E g \in updates[s] : PutPulled(s, g)
      PROVE heads' = heads
  BY <1>6 DEF StartSync, ReadPending, Push, Pull, WriteCursor, ReadLocalHeads, MarkSynced,
              MarkError, PutPulled
<1>7. ASSUME Lose(s) \/ Crash(s) \/ PutRevision(s) \/ \E y \in RevisionId : StartWrite(s, y)
      PROVE heads' = heads
  BY <1>7 DEF Lose, Crash, PutRevision, StartWrite
<1> QED BY <1>1, <1>2, <1>3, <1>4, <1>5, <1>6, <1>7 DEF StepOf, WriteStep, SyncStep

(* No version disappears at a client that awaits its calls, if it resolves *)
(* conflicts with the heads as they are: a local head gives way only to a  *)
(* revision that builds on it, with conflicts, merges, crashes, phantoms   *)
(* and whatever the other clients do.                                      *)
THEOREM SerialHeadsKept ==
  ASSUME ResolveAll = TRUE
  PROVE  Spec => SerialHeadsNeverLost
<1>1. SerialInv /\ [Next]_vars => [KeepsHeads(Serial)]_vars
  BY KeepsSerialHeads DEF Next, StepOf
<1>2. SerialInv /\ [Next]_vars => SerialInv'
  BY SerialStep
<1> QED BY <1>1, <1>2, SerialInit, PTL DEF Spec, SerialHeadsNeverLost
-----------------------------------------------------------------------------
(* Every committed revision has a descendant among the heads of its object.*)
TopOf(S, r) ==
  \E x \in S : /\ \A y \in S : x \notin Parents(y)
               /\ object_id[x] = object_id[r] /\ <<r, x>> \in Ancestry

Topped(S) ==
  /\ S \subseteq RevisionId
  /\ \A r \in S : Parents(r) \subseteq S
  /\ \A r \in S : TopOf(S, r)

LEMMA ToppedByOne ==
  ASSUME NEW S, Topped(S), NEW x \in RevisionId, Parents(x) \subseteq S, SameObject(x)
  PROVE  Topped(S \cup {x})
<1>1. CASE x \in S
  <2>1. S \cup {x} = S
    BY <1>1
  <2> QED BY <2>1
<1>2. CASE x \notin S
  <2> DEFINE T == S \cup {x}
  <2>1. \A y \in T : x \notin Parents(y)
    BY <1>2 DEF Topped
  <2>2. TopOf(T, x)
    BY <2>1, AncestrySteps DEF TopOf
  <2>3. ASSUME NEW r \in S PROVE TopOf(T, r)
    <3>1. PICK y \in S : /\ \A z \in S : y \notin Parents(z)
                         /\ object_id[y] = object_id[r] /\ <<r, y>> \in Ancestry
      BY DEF Topped, TopOf
    <3>2. CASE y \notin Parents(x)
      BY <3>1, <3>2 DEF TopOf
    <3>3. CASE y \in Parents(x)
      <4>1. object_id[x] = object_id[r]
        BY <3>1, <3>3 DEF SameObject
      <4>2. <<r, x>> \in Ancestry
        BY <3>1, <3>3, AncestrySteps DEF Topped
      <4> QED BY <2>1, <4>1, <4>2 DEF TopOf
    <3> QED BY <3>2, <3>3
  <2>4. T \subseteq RevisionId /\ \A r \in T : Parents(r) \subseteq T
    BY DEF Topped
  <2> HIDE DEF T
  <2>5. \A r \in T : TopOf(T, r)
    BY <2>2, <2>3 DEF T
  <2> QED BY <2>4, <2>5 DEF Topped, T
<1> QED BY <1>1, <1>2

LEMMA ToppedByBatch ==
  ASSUME NEW K, Topped(K), NEW c, NEW B, \A r \in B : SameObject(r)
  PROVE  Topped(K \cup AcceptedOf(K, c, B)[KeyCount])
<1> DEFINE acc == AcceptedOf(K, c, B)
           N == KeyCount
           S == {n \in Nat : n <= N => Topped(K \cup acc[n])}
<1>0. N \in Nat
  BY KeyFacts
<1>1. acc[0] = {} /\ \A n \in 1 .. N : acc[n] = AcceptedStep(K, c, B, n, acc[n - 1])
  BY AcceptedRecursion
<1> HIDE DEF acc, N
<1>2. 0 \in S
  <2>1. K \cup acc[0] = K
    BY <1>1
  <2> QED BY <2>1
<1>3. ASSUME NEW n \in Nat, n \in S PROVE n + 1 \in S
  <2> SUFFICES ASSUME n + 1 <= N PROVE Topped(K \cup acc[n + 1])
    OBVIOUS
  <2>1. n + 1 \in 1 .. N /\ (n + 1) - 1 = n /\ n <= N
    BY <1>0
  <2>2. acc[n + 1] = AcceptedStep(K, c, B, n + 1, acc[n])
    BY <1>1, <2>1
  <2>3. Topped(K \cup acc[n])
    BY <1>3, <2>1
  <2>4. CASE Key(n + 1) \in B /\ Verdict(K, c, Key(n + 1), acc[n]) = "ok"
    <3>1. Parents(Key(n + 1)) \subseteq K \cup acc[n] /\ SameObject(Key(n + 1))
      BY <2>4 DEF Verdict
    <3>2. Key(n + 1) \in RevisionId
      BY <2>1, KeyFacts DEF N
    <3>3. Topped((K \cup acc[n]) \cup {Key(n + 1)})
      BY <2>3, <3>1, <3>2, ToppedByOne
    <3>4. (K \cup acc[n]) \cup {Key(n + 1)} = K \cup acc[n + 1]
      BY <2>2, <2>4 DEF AcceptedStep
    <3> QED BY <3>3, <3>4
  <2>5. CASE ~(Key(n + 1) \in B /\ Verdict(K, c, Key(n + 1), acc[n]) = "ok")
    <3>1. acc[n + 1] = acc[n]
      BY <2>2, <2>5 DEF AcceptedStep
    <3> QED BY <2>3, <3>1
  <2> QED BY <2>4, <2>5
<1> HIDE DEF S
<1>4. N \in S
  BY <1>0, <1>2, <1>3, NaturalsInSet
<1> QED BY <1>0, <1>4 DEF S, acc, N

LEMMA ToppedStep ==
  ASSUME KnownInv, Topped(Committed), NEW s \in Session, StepOf(s)
  PROVE  Topped(Committed)'
<1>0. TypeOK /\ \A r \in batch[s] : SameObject(r)
  BY DEF KnownInv, KnownToSession, Written
<1>1. Topped(Committed \cup All(s))
  BY <1>0, ToppedByBatch DEF All
<1>2. Committed' = Committed \/ Committed' = Committed \cup All(s)
  BY <1>0, LogGrows DEF Committed
<1> QED BY <1>1, <1>2 DEF Topped, TopOf
-----------------------------------------------------------------------------
(* What others committed in the first n transactions is visible to c.      *)
Visible(c, n) ==
  \A i \in 1 .. n : \A r \in log[i] : created_by[r] # c => Covered(c, r)

(* The answer to a pull: what it does not carry is visible already.        *)
Arriving(s) ==
  \A i \in 1 .. up_to[s] : \A r \in log[i] :
    created_by[r] # client_of[s] =>
      \/ Covered(client_of[s], r)
      \/ \E h \in updates[s] : <<r, h[2]>> \in Ancestry

PullOK(s) ==
  /\ Visible(client_of[s], since[s])
  /\ spc[s] \in {"apply", "replace"} => Arriving(s)

CursorInv ==
  /\ SerialInv
  /\ Topped(Committed)
  /\ \A c \in Serial : Visible(c, cursor[c])
  /\ \A s \in SerialSession : PullOK(s)

LEMMA CoveredStays ==
  ASSUME SerialInv, TypeOK', NEW s \in Session, StepOf(s), NEW c \in Serial, NEW r, Covered(c, r)
  PROVE  Covered(c, r)'
<1>0. TypeOK /\ c \in ClientId
  BY DEF SerialInv, KnownInv, Serial
<1>1. PICK h \in heads[c] : <<r, h[2]>> \in Ancestry
  BY DEF Covered
<1>2. PICK g \in heads'[c] : <<h[2], g[2]>> \in Ancestry
  BY KeepsSerialHeads DEF KeepsHeads
<1>3. r \in RevisionId /\ h[2] \in RevisionId /\ g[2] \in RevisionId
  BY <1>1, <1>2 DEF Ancestry
<1>4. <<r, g[2]>> \in Ancestry
  BY <1>1, <1>2, <1>3, AncestrySteps
<1> QED BY <1>4 DEF Covered

LEMMA VisibleStays ==
  ASSUME SerialInv, TypeOK', NEW s \in Session, StepOf(s), NEW c \in Serial,
         NEW n \in 0 .. Len(log), Visible(c, n)
  PROVE  \A i \in 1 .. n : \A r \in log'[i] : created_by[r] # c => Covered(c, r)'
<1>0. TypeOK
  BY DEF SerialInv, KnownInv
<1>1. Len(log) \in Nat /\ \A i \in 1 .. Len(log) : log'[i] = log[i]
  BY <1>0, LogGrows
<1>2. \A i \in 1 .. n : i \in 1 .. Len(log)
  BY <1>1
<1> QED BY <1>1, <1>2, CoveredStays DEF Visible

LEMMA PullAnswers ==
  ASSUME CursorInv, NEW s \in SerialSession, Pull(s)
  PROVE  Arriving(s)'
<1> DEFINE c == client_of[s]
<1>0. TypeOK /\ s \in Session /\ PullOK(s)
  BY DEF CursorInv, SerialInv, KnownInv, SerialSession
<1>1. /\ up_to'[s] = Len(log) /\ updates'[s] = UpdatesSince(c, since[s])
      /\ UNCHANGED <<log, heads>>
  BY <1>0 DEF Pull, TypeOK, store
<1>2. since[s] \in Nat /\ Len(log) \in Nat /\ DOMAIN log = 1 .. Len(log)
  BY <1>0 DEF TypeOK
<1>3. ASSUME NEW i \in 1 .. Len(log), NEW r \in log[i], created_by[r] # c
      PROVE  Covered(c, r) \/ \E h \in UpdatesSince(c, since[s]) : <<r, h[2]>> \in Ancestry
  <2>1. CASE i \in 1 .. since[s]
    BY <1>0, <1>3, <2>1 DEF PullOK, Visible
  <2>2. CASE i \notin 1 .. since[s]
    <3>1. i \in since[s] + 1 .. Len(log)
      BY <1>2, <2>2
    <3>2. r \in Committed
      BY <1>2 DEF Committed
    <3>3. PICK x \in Committed : /\ \A y \in Committed : x \notin Parents(y)
                                 /\ object_id[x] = object_id[r] /\ <<r, x>> \in Ancestry
      BY <3>2 DEF CursorInv, Topped, TopOf
    <3>4. HeadRow(x) \in Frontier(Committed) /\ HeadRow(x)[1] = object_id[r] /\ HeadRow(x)[2] = x
      BY <3>3 DEF Frontier, HeadRow
    <3>5. r \in {y \in UNION {log[k] : k \in since[s] + 1 .. Len(log)} : created_by[y] # c}
      BY <1>3, <3>1
    <3>6. HeadRow(x) \in UpdatesSince(c, since[s])
      BY <3>4, <3>5 DEF UpdatesSince
    <3> QED BY <3>3, <3>4, <3>6
  <2> QED BY <2>1, <2>2
<1> QED BY <1>1, <1>3 DEF Arriving, Covered

(* What a step of s makes of the pull it is in.                            *)
LEMMA OwnPullStep ==
  ASSUME CursorInv, TypeOK', NEW s \in SerialSession, StepOf(s)
  PROVE  /\ since'[s] \in {0, since[s], cursor[client_of[s]]}
         /\ cursor'[client_of[s]] \in {cursor[client_of[s]], up_to[s]}
         /\ cursor'[client_of[s]] # cursor[client_of[s]] => spc[s] = "apply" /\ updates[s] = {}
         /\ spc'[s] \in {"apply", "replace"} =>
              \/ Arriving(s)'
              \/ /\ spc[s] \in {"apply", "replace"} /\ up_to'[s] = up_to[s]
                 /\ updates[s] \subseteq updates'[s] \cup heads'[client_of[s]]
<1> USE DEF store, writer, pushing, pulling, GotoSync
<1> DEFINE c == client_of[s]
           Goal == /\ since'[s] \in {0, since[s], cursor[c]}
                   /\ cursor'[c] \in {cursor[c], up_to[s]}
                   /\ cursor'[c] # cursor[c] => spc[s] = "apply" /\ updates[s] = {}
                   /\ spc'[s] \in {"apply", "replace"} =>
                        \/ Arriving(s)'
                        \/ /\ spc[s] \in {"apply", "replace"} /\ up_to'[s] = up_to[s]
                           /\ updates[s] \subseteq updates'[s] \cup heads'[c]
<1>0. TypeOK /\ s \in Session /\ c \in ClientId
  BY ClientSyncAssumption DEF CursorInv, SerialInv, KnownInv, SerialSession
<1>1. ASSUME StartSync(s) \/ ReadPending(s) \/ Push(s) PROVE Goal
  BY <1>0, <1>1 DEF StartSync, ReadPending, Push, TypeOK
<1>2. ASSUME \/ \E r \in RevisionId : MarkSynced(s, r)
             \/ \E x \in rejected[s] : MarkError(s, x)
             \/ \E h \in updates[s] : PutPulled(s, h)
      PROVE Goal
  BY <1>2 DEF MarkSynced, MarkError, PutPulled
<1>3. ASSUME Pull(s) PROVE Goal
  <2>1. Arriving(s)'
    BY <1>3, PullAnswers
  <2>2. since'[s] = 0 /\ UNCHANGED cursor
    BY <1>0, <1>3 DEF Pull, TypeOK
  <2> HIDE DEF c
  <2> QED BY <2>1, <2>2
<1>4. ASSUME NEW o \in ObjectId, ReadLocalHeads(s, o) PROVE Goal
  BY <1>4 DEF ReadLocalHeads
<1>5. ASSUME ApplyReplace(s) \/ \E o \in ObjectId : ApplyConflict(s, o) PROVE Goal
  <2>1. /\ spc[s] \in {"apply", "replace"} /\ UNCHANGED <<since, cursor, up_to>>
        /\ updates'[s] = updates[s] \ stored[s]
    BY <1>0, <1>5 DEF ApplyReplace, ApplyConflict, NextUpdate, TypeOK
  <2>2. stored[s] \subseteq heads'[c]
    <3>1. ApplyReplace(s) => \E H : stored[s] \subseteq H /\ heads' = [heads EXCEPT ![c] = H]
      BY DEF ApplyReplace, ReplacedBy
    <3>2. ASSUME NEW o \in ObjectId, ApplyConflict(s, o)
          PROVE  \E H : stored[s] \subseteq H /\ heads' = [heads EXCEPT ![c] = H]
      BY <3>2 DEF ApplyConflict
    <3>3. PICK H : stored[s] \subseteq H /\ heads' = [heads EXCEPT ![c] = H]
      BY <1>5, <3>1, <3>2
    <3> QED BY <1>0, <3>3 DEF TypeOK
  <2> QED BY <2>1, <2>2
<1>6. ASSUME EndSync(s), cursor' = cursor \/ WriteCursor(s) PROVE Goal
  <2>1. since'[s] = 0 /\ spc'[s] = "idle"
    BY <1>0, <1>6 DEF EndSync, TypeOK
  <2>2. cursor'[c] = cursor[c] \/ (cursor'[c] = up_to[s] /\ spc[s] = "apply" /\ updates[s] = {})
    BY <1>0, <1>6 DEF WriteCursor, TypeOK
  <2> QED BY <2>1, <2>2
<1>7. WriteCursor(s) \/ Lose(s) \/ Crash(s) => EndSync(s) /\ (cursor' = cursor \/ WriteCursor(s))
  BY DEF WriteCursor, Lose, Crash
<1>8. ASSUME UNCHANGED <<cursor, spc, since, up_to, updates>> PROVE Goal
  BY <1>8
<1> HIDE DEF Goal
<1>9. Goal
  BY <1>0, <1>1, <1>2, <1>3, <1>4, <1>5, <1>6, <1>7, <1>8, WriteKeepsSync DEF StepOf, SyncStep
<1> QED BY <1>9 DEF Goal

LEMMA ArrivingStays ==
  ASSUME SerialInv, TypeOK', NEW s \in Session, StepOf(s), NEW t \in SerialSession, Arriving(t),
         up_to'[t] = up_to[t], updates[t] \subseteq updates'[t] \cup heads'[client_of[t]]
  PROVE  Arriving(t)'
<1>0. TypeOK /\ t \in Session /\ client_of[t] \in Serial
  BY DEF SerialInv, KnownInv, SerialSession
<1>1. Len(log) \in Nat /\ \A i \in 1 .. Len(log) : log'[i] = log[i]
  BY <1>0, LogGrows
<1>2. \A i \in 1 .. up_to[t] : log'[i] = log[i]
  <2>1. up_to[t] \in 0 .. Len(log)
    BY <1>0 DEF TypeOK
  <2> QED BY <1>1, <2>1
<1>3. ASSUME NEW i \in 1 .. up_to[t], NEW r \in log[i], created_by[r] # client_of[t]
      PROVE  Covered(client_of[t], r)' \/ \E h \in updates'[t] : <<r, h[2]>> \in Ancestry
  <2>1. CASE Covered(client_of[t], r)
    BY <1>0, <2>1, CoveredStays
  <2>2. CASE \E h \in updates[t] : <<r, h[2]>> \in Ancestry
    BY <2>2 DEF Covered
  <2> QED BY <1>3, <2>1, <2>2 DEF Arriving
<1> QED BY <1>2, <1>3 DEF Arriving

LEMMA PullStep ==
  ASSUME CursorInv, TypeOK', NEW s \in Session, StepOf(s), NEW t \in SerialSession
  PROVE  PullOK(t)'
<1>0. /\ TypeOK /\ t \in Session /\ client_of[t] \in Serial /\ client_of[t] \in ClientId
      /\ PullOK(t) /\ SerialInv
  BY DEF CursorInv, SerialInv, KnownInv, SerialSession, Serial
<1>1. /\ Len(log) \in Nat /\ since[t] \in 0 .. Len(log) /\ cursor[client_of[t]] \in 0 .. Len(log)
      /\ Visible(client_of[t], cursor[client_of[t]]) /\ Visible(client_of[t], since[t])
  BY <1>0 DEF TypeOK, CursorInv, PullOK
<1>2. CASE s # t
  <2>1. since'[t] = since[t] /\ spc'[t] = spc[t] /\ up_to'[t] = up_to[t] /\ updates'[t] = updates[t]
    BY <1>0, <1>2, Frame DEF SameSession
  <2>2. Visible(client_of[t], since[t])'
    BY <1>0, <1>1, <2>1, VisibleStays DEF Visible
  <2>3. spc'[t] \in {"apply", "replace"} => Arriving(t)'
    BY <1>0, <2>1, ArrivingStays DEF PullOK
  <2> QED BY <2>2, <2>3 DEF PullOK
<1>3. CASE s = t
  <2>1. Visible(client_of[t], since[t])'
    <3>1. CASE since'[t] = 0
      BY <3>1 DEF Visible
    <3>2. CASE since'[t] = since[t]
      BY <1>0, <1>1, <3>2, VisibleStays DEF Visible
    <3>3. CASE since'[t] = cursor[client_of[t]]
      BY <1>0, <1>1, <3>3, VisibleStays DEF Visible
    <3> QED BY <1>3, <3>1, <3>2, <3>3, OwnPullStep
  <2>2. spc'[t] \in {"apply", "replace"} => Arriving(t)'
    BY <1>0, <1>3, OwnPullStep, ArrivingStays DEF PullOK
  <2> QED BY <2>1, <2>2 DEF PullOK
<1> QED BY <1>2, <1>3

LEMMA CursorStep ==
  ASSUME CursorInv, TypeOK', NEW s \in Session, StepOf(s), NEW c \in Serial
  PROVE  Visible(c, cursor[c])'
<1>0. TypeOK /\ c \in ClientId /\ SerialInv /\ Visible(c, cursor[c])
  BY DEF CursorInv, SerialInv, KnownInv, Serial
<1>1. cursor[c] \in 0 .. Len(log) /\ up_to[s] \in 0 .. Len(log)
  BY <1>0 DEF TypeOK
<1>2. CASE cursor'[c] = cursor[c]
  BY <1>0, <1>1, <1>2, VisibleStays DEF Visible
<1>3. CASE cursor'[c] # cursor[c]
  <2>1. c = client_of[s] /\ s \in SerialSession
    BY <1>0, <1>3, Frame DEF SameClient, SerialSession
  <2>2. cursor'[c] = up_to[s] /\ spc[s] = "apply" /\ updates[s] = {}
    BY <1>3, <2>1, OwnPullStep
  <2>3. Visible(c, up_to[s])
    BY <2>1, <2>2 DEF CursorInv, PullOK, Arriving, Visible
  <2> QED BY <1>0, <1>1, <2>2, <2>3, VisibleStays DEF Visible
<1> QED BY <1>2, <1>3

(* The cursor never runs ahead of the data at a client that awaits its     *)
(* calls: what others committed up to last_server_txn_id is visible in its *)
(* heads, wherever the page was closed between the transactions of a sync. *)
THEOREM CursorsAreCovered ==
  ASSUME ResolveAll = TRUE
  PROVE  Spec => []CursorCovered
<1>1. Init => CursorInv
  <2> SUFFICES ASSUME Init PROVE CursorInv
    OBVIOUS
  <2>1. Topped(Committed)
    BY DEF Init, Committed, Topped
  <2>2. \A c \in Serial : Visible(c, cursor[c])
    BY DEF Init, Visible, Serial
  <2>3. \A s \in SerialSession : PullOK(s)
    BY DEF Init, PullOK, Visible, SerialSession
  <2> QED BY <2>1, <2>2, <2>3, SerialInit DEF CursorInv
<1>2. CursorInv /\ [Next]_vars => CursorInv'
  <2> SUFFICES ASSUME CursorInv, [Next]_vars PROVE CursorInv'
    OBVIOUS
  <2>0. SerialInv' /\ TypeOK'
    BY SerialStep DEF CursorInv, SerialInv, KnownInv
  <2>1. ASSUME NEW s \in Session, StepOf(s) PROVE CursorInv'
    <3>1. Topped(Committed)'
      BY <2>1, ToppedStep DEF CursorInv, SerialInv
    <3> QED BY <2>0, <2>1, <3>1, PullStep, CursorStep DEF CursorInv
  <2>2. CASE UNCHANGED vars
    <3>1. UNCHANGED <<log, heads, cursor, spc, since, up_to, updates>>
      BY <2>2 DEF vars, store, pulling
    <3>2. Topped(Committed)'
      BY <3>1 DEF CursorInv, Topped, TopOf, Committed
    <3> QED BY <2>0, <3>1, <3>2 DEF CursorInv, PullOK, Visible, Arriving, Covered
  <2> QED BY <2>1, <2>2 DEF Next, StepOf
<1>3. CursorInv => CursorCovered
  BY DEF CursorInv, CursorCovered, Visible
<1> QED BY <1>1, <1>2, <1>3, PTL DEF Spec
=============================================================================
