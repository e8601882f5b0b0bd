----------------------------- MODULE ClientSync -----------------------------
(***************************************************************************)
(* The client repositories: save, update, delete, resolve_conflict and     *)
(* sync, each on its own IndexedDB, against one server.                    *)
(*                                                                         *)
(* A session is a page that has a repository open: one thread, so the      *)
(* steps are the stretches between two awaits, one IndexedDB transaction   *)
(* (atomic) or one HTTP exchange each.  A client may have several sessions *)
(* on its IndexedDB, and a session may start a call before another one has *)
(* ended (Overlap).  A page may be closed at any await, which keeps        *)
(* IndexedDB and forgets its calls in flight (Crash), and a request or its *)
(* answer may be lost (Lose).                                              *)
(*                                                                         *)
(* The server is taken at its word: by the theorems of ServerPushProofs    *)
(* its tables are a log of transactions and the frontier of what it holds, *)
(* so a log is all the state it has here.  Requests are served one at a    *)
(* time, so that the log's order is the order of commits.                  *)
(*                                                                         *)
(* A revision's id stands for its content (module Revision): writing r     *)
(* means writing a revision with that object, author and lineage whose     *)
(* fresh UUID is r.  KeyOrder is the order of the UUIDs, which is random.  *)
(***************************************************************************)
EXTENDS Revision, FiniteSets

CONSTANTS
  Session,     \* the pages that have a repository open
  client_of,   \* the client whose IndexedDB a session works on
  KeyOrder,    \* the revisions in the order of their primary keys
  Overlap,     \* the clients whose calls run at the same time, in one session or several
  ResolveAll,  \* TRUE if resolve_conflict is given the heads as they are, not as they were
  Unreliable   \* the clients whose pages may be closed and whose messages may be lost

(* save makes a new object of every root; a primary key is one revision's. *)
ASSUME ClientSyncAssumption ==
  /\ client_of \in [Session -> ClientId]
  /\ RevisionId # {}
  /\ \A r, x \in RevisionId :
       lineage[r] = <<>> /\ lineage[x] = <<>> /\ object_id[r] = object_id[x] => r = x
  /\ KeyOrder \in Seq(RevisionId)
  /\ \A r \in RevisionId : \E n \in DOMAIN KeyOrder : KeyOrder[n] = r
  /\ \A m, n \in DOMAIN KeyOrder : KeyOrder[m] = KeyOrder[n] => m = n
  /\ Overlap \subseteq ClientId
  /\ ResolveAll \in BOOLEAN
  /\ Unreliable \subseteq ClientId

VARIABLES
  log,        \* server: the committed transactions, in order; ids are 1, 2, ...
  status,     \* status[c][r]: sync_status in store revisions; a SyncError is its reason
  heads,      \* heads[c]: the rows of store object_heads
  cursor,     \* cursor[c]: last_server_txn_id in store sync_state, None is 0
  wpc, wrev,  \* wpc[s], wrev[s]: the write in flight: where it is, and its revision
  spc,        \* spc[s], ...: the sync in flight: where it is,
  since,      \* its pull_params.since,
  batch,      \* what it pushes,
  accepted,   \* the accepted and the rejected revisions it has still to mark,
  rejected,
  up_to,      \* the answer to its pull: up_to_transaction
  updates,    \* and the head rows it has still to apply,
  stored,     \* those of the current object put into store revisions,
  existing    \* and the local heads read for the current object

store == <<status, heads, cursor>>
writer == <<wpc, wrev>>
pushing == <<batch, accepted, rejected>>
pulling == <<up_to, updates, stored, existing>>
vars == <<log, store, writer, spc, since, pushing, pulling>>

RejectionReason == {"UnknownParent", "DuplicateRevisionId", "MalformedData"}

SyncStatus == {"absent", "Pending", "Synced"} \cup RejectionReason

Row == ObjectId \X RevisionId

Rejections == [revision_id : RevisionId, reason : RejectionReason]

(* Every store and every local of a call ranges over what it can hold.     *)
TypeOK ==
  /\ log \in Seq(SUBSET RevisionId)
  /\ status \in [ClientId -> [RevisionId -> SyncStatus]]
  /\ heads \in [ClientId -> SUBSET Row]
  /\ cursor \in [ClientId -> 0 .. Len(log)]
  /\ wpc \in [Session -> {"idle", "put", "heads"}]
  /\ wrev \in [Session -> RevisionId]
  /\ spc \in [Session -> {"idle", "pending", "push", "mark", "apply", "replace"}]
  /\ since \in [Session -> 0 .. Len(log)]
  /\ batch \in [Session -> SUBSET RevisionId]
  /\ accepted \in [Session -> SUBSET RevisionId]
  /\ rejected \in [Session -> SUBSET Rejections]
  /\ up_to \in [Session -> 0 .. Len(log)]
  /\ updates \in [Session -> SUBSET Row]
  /\ stored \in [Session -> SUBSET Row]
  /\ existing \in [Session -> SUBSET Row]

NoRevision == CHOOSE r \in RevisionId : TRUE

Init ==
  /\ log = <<>>
  /\ status = [c \in ClientId |-> [r \in RevisionId |-> "absent"]]
  /\ heads = [c \in ClientId |-> {}]
  /\ cursor = [c \in ClientId |-> 0]
  /\ wpc = [s \in Session |-> "idle"]
  /\ wrev = [s \in Session |-> NoRevision]
  /\ spc = [s \in Session |-> "idle"]
  /\ since = [s \in Session |-> 0]
  /\ batch = [s \in Session |-> {}]
  /\ accepted = [s \in Session |-> {}]
  /\ rejected = [s \in Session |-> {}]
  /\ up_to = [s \in Session |-> 0]
  /\ updates = [s \in Session |-> {}]
  /\ stored = [s \in Session |-> {}]
  /\ existing = [s \in Session |-> {}]
-----------------------------------------------------------------------------
(* The server.                                                             *)
Committed == UNION {log[i] : i \in DOMAIN log}

(* RejectionReason for r, the revisions S being committed and A accepted   *)
(* before it in the batch; "ok" if it is accepted.  A parent of another    *)
(* object cannot occur: the client takes parents from the heads of the     *)
(* object it writes to.                                                    *)
Verdict(S, c, r, A) ==
  IF created_by[r] # c THEN "MalformedData"
  ELSE IF r \in S THEN "DuplicateRevisionId"
  ELSE IF RepeatsParent(r) THEN "MalformedData"
  ELSE IF ~(Parents(r) \subseteq S \cup A) THEN "UnknownParent"
  ELSE "ok"

(* Mutant of Key: the keys are listed in descending order.                 *)
KeyDescending(n) == KeyOrder[Len(KeyOrder) + 1 - n]

(* get_pending_revisions lists equal index keys by primary key: of the     *)
(* revisions pushed, Key(n) comes before Key(n + 1).                       *)
Key(n) == KeyOrder[n]

(* AcceptedOf(S, c, B)[n]: what is accepted of the batch B up to Key(n).   *)
AcceptedOf(S, c, B) ==
  LET acc[n \in 0 .. Len(KeyOrder)] ==
        IF n = 0 THEN {}
        ELSE IF Key(n) \in B /\ Verdict(S, c, Key(n), acc[n - 1]) = "ok"
        THEN acc[n - 1] \cup {Key(n)} ELSE acc[n - 1]
  IN  acc

(* Mutant of UpdatesSince: the first transaction after the cursor is left  *)
(* out.                                                                    *)
UpdatesSinceSkippingOne(c, n) ==
  LET changed == {object_id[r] : r \in {x \in UNION {log[i] : i \in n + 2 .. Len(log)} :
                                          created_by[x] # c}}
  IN  {h \in Frontier(Committed) : h[1] \in changed}

(* The heads of every object somebody else changed after transaction n.    *)
UpdatesSince(c, n) ==
  LET changed == {object_id[r] : r \in {x \in UNION {log[i] : i \in n + 1 .. Len(log)} :
                                          created_by[x] # c}}
  IN  {h \in Frontier(Committed) : h[1] \in changed}
-----------------------------------------------------------------------------
(* Writes of the application.                                              *)
HeadsOf(c, o) == {h[2] : h \in {g \in heads[c] : g[1] = o}}

(* A call of a client that does not overlap its calls waits for the one in *)
(* flight.                                                                 *)
MayStart(s) ==
  \/ client_of[s] \in Overlap
  \/ \A t \in Session : client_of[t] = client_of[s] => wpc[t] = "idle" /\ spc[t] = "idle"

(* Mutant of MayWrite: any revision stored locally will do as a parent.    *)
MayWriteOnAnyRevision(c, r) == \A p \in Parents(r) : status[c][p] # "absent"

(* check_parents_are_heads; update and delete (one parent) refuse to       *)
(* choose among several heads, resolve_conflict does not ask for all of    *)
(* them.                                                                   *)
MayWrite(c, r) ==
  /\ Parents(r) \subseteq HeadsOf(c, object_id[r])
  /\ Len(lineage[r]) = 1 => Cardinality(HeadsOf(c, object_id[r])) = 1

(* What the application asks for: a revision nobody has written, as its    *)
(* client.                                                                 *)
Asks(s, r) ==
  LET c == client_of[s]
  IN  /\ created_by[r] = c /\ status[c][r] = "absent"
      /\ \A t \in Session : wpc[t] = "idle" \/ wrev[t] # r
      /\ ResolveAll /\ Len(lineage[r]) > 1 => Parents(r) = HeadsOf(c, object_id[r])

(* save (a root), update or delete (one parent), resolve_conflict (more):  *)
(* get_heads and the checks on it.  A refused call changes nothing.        *)
StartWrite(s, r) ==
  /\ wpc[s] = "idle" /\ MayStart(s)
  /\ Asks(s, r)
  /\ MayWrite(client_of[s], r)
  /\ wpc' = [wpc EXCEPT ![s] = "put"]
  /\ wrev' = [wrev EXCEPT ![s] = r]
  /\ UNCHANGED <<log, store, spc, since, pushing, pulling>>

PutRevision(s) ==
  /\ wpc[s] = "put"
  /\ status' = [status EXCEPT ![client_of[s]][wrev[s]] = "Pending"]
  /\ wpc' = [wpc EXCEPT ![s] = "heads"]
  /\ UNCHANGED <<log, heads, cursor, wrev, spc, since, pushing, pulling>>

(* replace_heads: whatever the heads of the object are by now, rows are    *)
(* the only ones afterwards.                                               *)
ReplacedBy(c, o, rows) == {h \in heads[c] : h[1] # o} \cup rows

ReplaceHeads(s) ==
  LET c == client_of[s]
  IN  /\ wpc[s] = "heads"
      /\ heads' = [heads EXCEPT ![c] = ReplacedBy(c, object_id[wrev[s]], {HeadRow(wrev[s])})]
      /\ wpc' = [wpc EXCEPT ![s] = "idle"]
      /\ wrev' = [wrev EXCEPT ![s] = NoRevision]
      /\ UNCHANGED <<log, status, cursor, spc, since, pushing, pulling>>
-----------------------------------------------------------------------------
(* sync                                                                    *)
GotoSync(s, label) == spc' = [spc EXCEPT ![s] = label]

(* Repository::sync fills since from the stored cursor.                    *)
StartSync(s) ==
  /\ spc[s] = "idle" /\ MayStart(s)
  /\ GotoSync(s, "pending")
  /\ since' = [since EXCEPT ![s] = cursor[client_of[s]]]
  /\ UNCHANGED <<log, store, writer, pushing, pulling>>

PendingRevisions(c) == {r \in RevisionId : status[c][r] = "Pending"}

(* Mutant of ReadPending: revisions count as synced once they are sent.    *)
ReadPendingOptimistic(s) ==
  LET c == client_of[s]
  IN  /\ spc[s] = "pending"
      /\ batch' = [batch EXCEPT ![s] = PendingRevisions(c)]
      /\ status' = [status EXCEPT ![c] = [r \in RevisionId |->
                      IF status[c][r] = "Pending" THEN "Synced" ELSE status[c][r]]]
      /\ GotoSync(s, IF PendingRevisions(c) = {} THEN "mark" ELSE "push")
      /\ UNCHANGED <<log, heads, cursor, writer, since, accepted, rejected, pulling>>

ReadPending(s) ==
  LET pending == PendingRevisions(client_of[s])
  IN  /\ spc[s] = "pending"
      /\ batch' = [batch EXCEPT ![s] = pending]
      /\ GotoSync(s, IF pending = {} THEN "mark" ELSE "push")
      /\ UNCHANGED <<log, store, writer, since, accepted, rejected, pulling>>

(* The request reaches the server, which stores what it accepts.           *)
StorePush(s) ==
  LET all == AcceptedOf(Committed, client_of[s], batch[s])[Len(KeyOrder)]
  IN  log' = IF all = {} THEN log ELSE Append(log, all)

ServePush(s) ==
  LET c == client_of[s]
      acc == AcceptedOf(Committed, c, batch[s])
      all == acc[Len(KeyOrder)]
  IN  /\ StorePush(s)
      /\ accepted' = [accepted EXCEPT ![s] = all]
      /\ rejected' = [rejected EXCEPT ![s] =
           {[revision_id |-> Key(n), reason |-> Verdict(Committed, c, Key(n), acc[n - 1])] :
              n \in {m \in DOMAIN KeyOrder : Key(m) \in batch[s] \ all}}]

Push(s) ==
  /\ spc[s] = "push"
  /\ ServePush(s)
  /\ batch' = [batch EXCEPT ![s] = {}]
  /\ GotoSync(s, "mark")
  /\ UNCHANGED <<store, writer, since, pulling>>

(* The accepted are marked one by one, then the rejected.                  *)
MarkSynced(s, r) ==
  /\ spc[s] = "mark" /\ r \in accepted[s]
  /\ status' = [status EXCEPT ![client_of[s]][r] = "Synced"]
  /\ accepted' = [accepted EXCEPT ![s] = @ \ {r}]
  /\ UNCHANGED <<log, heads, cursor, writer, spc, since, batch, rejected, pulling>>

MarkError(s, x) ==
  /\ spc[s] = "mark" /\ accepted[s] = {} /\ x \in rejected[s]
  /\ status' = [status EXCEPT ![client_of[s]][x.revision_id] = x.reason]
  /\ rejected' = [rejected EXCEPT ![s] = @ \ {x}]
  /\ UNCHANGED <<log, heads, cursor, writer, spc, since, batch, accepted, pulling>>

(* The answer to the push is dealt with: the pull is sent.                 *)
Marked(s) == spc[s] = "mark" /\ accepted[s] = {} /\ rejected[s] = {}

(* Mutant of Pull: the answer names the next transaction as its bound.     *)
PullNamingNext(s) ==
  /\ Marked(s)
  /\ up_to' = [up_to EXCEPT ![s] = Len(log) + 1]
  /\ updates' = [updates EXCEPT ![s] = UpdatesSince(client_of[s], since[s])]
  /\ since' = [since EXCEPT ![s] = 0]
  /\ GotoSync(s, "apply")
  /\ UNCHANGED <<log, store, writer, pushing, stored, existing>>

Pull(s) ==
  /\ Marked(s)
  /\ up_to' = [up_to EXCEPT ![s] = Len(log)]
  /\ updates' = [updates EXCEPT ![s] = UpdatesSince(client_of[s], since[s])]
  /\ since' = [since EXCEPT ![s] = 0]
  /\ GotoSync(s, "apply")
  /\ UNCHANGED <<log, store, writer, pushing, stored, existing>>

(* The heads of the object the loop is at.                                 *)
OfObject(s, o) == {h \in updates[s] : h[1] = o}

(* put_revision of one received head, object by object.                    *)
PutPulled(s, h) ==
  /\ spc[s] = "apply"
  /\ h \in updates[s] \ stored[s]
  /\ stored[s] \subseteq OfObject(s, h[1])
  /\ status' = [status EXCEPT ![client_of[s]][h[2]] = "Synced"]
  /\ stored' = [stored EXCEPT ![s] = @ \cup {h}]
  /\ UNCHANGED <<log, heads, cursor, writer, spc, since, pushing, up_to, updates, existing>>

AllStored(s, o) == stored[s] # {} /\ stored[s] = OfObject(s, o)

(* HeadAction::Replace: the local heads are read first.                    *)
ReadLocalHeads(s, o) ==
  /\ spc[s] = "apply" /\ AllStored(s, o) /\ Cardinality(stored[s]) = 1
  /\ existing' = [existing EXCEPT ![s] = {h \in heads[client_of[s]] : h[1] = o}]
  /\ GotoSync(s, "replace")
  /\ UNCHANGED <<log, store, writer, since, pushing, up_to, updates, stored>>

NextUpdate(s) ==
  /\ updates' = [updates EXCEPT ![s] = @ \ stored[s]]
  /\ stored' = [stored EXCEPT ![s] = {}]
  /\ existing' = [existing EXCEPT ![s] = {}]
  /\ GotoSync(s, "apply")

(* has_diverged: a local head is neither received nor a parent of what is. *)
Diverged(s) ==
  \E h \in existing[s] :
    h \notin stored[s] /\ \A g \in stored[s] : h[2] \notin Parents(g[2])

(* add_heads or replace_heads, on what the heads are by now.               *)
ApplyReplace(s) ==
  LET c == client_of[s]
  IN  /\ spc[s] = "replace"
      /\ \E o \in ObjectId :
           /\ AllStored(s, o)
           /\ heads' = [heads EXCEPT ![c] =
                IF Diverged(s) THEN @ \cup stored[s] ELSE ReplacedBy(c, o, stored[s])]
      /\ NextUpdate(s)
      /\ UNCHANGED <<log, status, cursor, writer, since, pushing, up_to>>

(* HeadAction::Conflict: add_heads.                                        *)
ApplyConflict(s, o) ==
  /\ spc[s] = "apply" /\ AllStored(s, o) /\ Cardinality(stored[s]) > 1
  /\ heads' = [heads EXCEPT ![client_of[s]] = @ \cup stored[s]]
  /\ NextUpdate(s)
  /\ UNCHANGED <<log, status, cursor, writer, since, pushing, up_to>>

(* The call in flight is over and its locals are forgotten.                *)
EndSync(s) ==
  /\ GotoSync(s, "idle")
  /\ since' = [since EXCEPT ![s] = 0]
  /\ batch' = [batch EXCEPT ![s] = {}]
  /\ accepted' = [accepted EXCEPT ![s] = {}]
  /\ rejected' = [rejected EXCEPT ![s] = {}]
  /\ up_to' = [up_to EXCEPT ![s] = 0]
  /\ updates' = [updates EXCEPT ![s] = {}]
  /\ stored' = [stored EXCEPT ![s] = {}]
  /\ existing' = [existing EXCEPT ![s] = {}]

(* Mutant of WriteCursor: the cursor is stored before the updates are.     *)
WriteCursorEarly(s) ==
  /\ spc[s] = "apply"
  /\ cursor' = [cursor EXCEPT ![client_of[s]] = up_to[s]]
  /\ EndSync(s)
  /\ UNCHANGED <<log, status, heads, writer>>

WriteCursor(s) ==
  /\ spc[s] = "apply" /\ updates[s] = {}
  /\ cursor' = [cursor EXCEPT ![client_of[s]] = up_to[s]]
  /\ EndSync(s)
  /\ UNCHANGED <<log, status, heads, writer>>
-----------------------------------------------------------------------------
(* A request is lost, or the answer to a push: RustendClientError::Network.*)
(* In the second case the server has stored what it accepted.              *)
Lose(s) ==
  /\ client_of[s] \in Unreliable
  /\ \/ (spc[s] = "push" \/ Marked(s)) /\ UNCHANGED log
     \/ spc[s] = "push" /\ StorePush(s)
  /\ EndSync(s)
  /\ UNCHANGED <<store, writer>>

(* The page is closed and opened again.                                    *)
Crash(s) ==
  /\ client_of[s] \in Unreliable
  /\ spc[s] # "idle" \/ wpc[s] # "idle"
  /\ wpc' = [wpc EXCEPT ![s] = "idle"]
  /\ wrev' = [wrev EXCEPT ![s] = NoRevision]
  /\ EndSync(s)
  /\ UNCHANGED <<log, store>>

WriteStep(s) == PutRevision(s) \/ ReplaceHeads(s)

SyncStep(s) ==
  \/ StartSync(s) \/ ReadPending(s) \/ Push(s)
  \/ \E r \in RevisionId : MarkSynced(s, r)
  \/ \E x \in rejected[s] : MarkError(s, x)
  \/ Pull(s)
  \/ \E h \in updates[s] : PutPulled(s, h)
  \/ \E o \in ObjectId : ReadLocalHeads(s, o) \/ ApplyConflict(s, o)
  \/ ApplyReplace(s)
  \/ WriteCursor(s)

Next ==
  \E s \in Session :
    \/ \E r \in RevisionId : StartWrite(s, r)
    \/ WriteStep(s) \/ SyncStep(s) \/ Lose(s) \/ Crash(s)

Spec == Init /\ [][Next]_vars

(* A page that is closed with something still to do.  (Closing it when     *)
(* only an unchanged cursor is left to be stored is the same step as       *)
(* WriteCursor.)                                                           *)
Interrupts(s) == Crash(s) /\ ~WriteCursor(s)

(* Calls in flight go on, the application calls sync again and again, and  *)
(* from some point on neither the page nor the network fails.              *)
Fairness ==
  /\ \A s \in Session : WF_vars(WriteStep(s)) /\ WF_vars(SyncStep(s))
  /\ <>[][\A s \in Session : ~(Lose(s) \/ Interrupts(s))]_vars

FairSpec == Spec /\ Fairness
-----------------------------------------------------------------------------
(* The clients that await each call before the next.                       *)
Serial == ClientId \ Overlap

(* r is visible to client c: a local head is r or builds on it.            *)
Covered(c, r) == \E h \in heads[c] : <<r, h[2]>> \in Ancestry

(* No write is forgotten: whatever an application wrote is either still    *)
(* queued (Pending, so the next sync pushes it) or held by the server,     *)
(* through lost answers and closed pages.  A revision the server refused   *)
(* is never pushed again (get_pending_revisions selects Pending only).     *)
WritesSurvive ==
  \A c \in ClientId : \A r \in RevisionId :
    status[c][r] \in {"absent", "Pending"} \/ r \in Committed

(* The server may refuse r for good: r names a parent twice, or its random *)
(* key puts it before a parent that the same client wrote.                 *)
Misplaced(r) ==
  \/ RepeatsParent(r)
  \/ \E k, n \in DOMAIN KeyOrder :
       /\ k <= n /\ KeyOrder[k] = r
       /\ KeyOrder[n] \in Parents(r) /\ created_by[KeyOrder[n]] = created_by[r]

(* r is a write of c that is misplaced, or builds on one.                  *)
Misordered(c, r) ==
  \E x \in RevisionId : <<x, r>> \in Ancestry /\ created_by[x] = c /\ Misplaced(x)

(* The only writes that can be forgotten are those that are misplaced and  *)
(* those that build on one the client misplaced itself: not a root, not a  *)
(* write on what others made, whatever their keys, and not through lost    *)
(* answers, closed pages, writes during a sync or two syncs of one client  *)
(* that push the same revisions.                                           *)
OnlyMisplacedLost ==
  \A c \in ClientId : \A r \in RevisionId :
    status[c][r] \in {"absent", "Pending"} \/ r \in Committed \/ Misordered(c, r)

(* The cursor never runs ahead of the data: what others committed up to    *)
(* last_server_txn_id is visible locally, although the cursor is written   *)
(* by a transaction of its own, after those of the heads.                  *)
CursorCovered ==
  \A c \in Serial : \A i \in 1 .. cursor[c] : \A r \in log[i] :
    created_by[r] # c => Covered(c, r)

(* A local head of a client in C only gives way to a revision that builds  *)
(* on it.                                                                  *)
KeepsHeads(C) ==
  \A c \in C : \A h \in heads[c] : \E g \in heads'[c] : <<h[2], g[2]>> \in Ancestry

(* No version disappears, whoever writes heads, the application or a pull. *)
HeadsNeverLost == [][KeepsHeads(ClientId)]_vars

(* No version disappears at a client that awaits its calls, with conflicts *)
(* of two and three heads, merges, crashes and phantoms.                   *)
SerialHeadsNeverLost == [][KeepsHeads(Serial)]_vars

(* Local heads are a conflict only if they are unrelated: no local head is *)
(* an ancestor of another one.                                             *)
HeadsUnrelated ==
  \A c \in ClientId : \A g, h \in heads[c] : <<g[2], h[2]>> \in Ancestry => g = h

(* Retrying a push is safe: no revision the server holds is recorded as a  *)
(* SyncError.                                                              *)
RetryIsSafe ==
  \A c \in ClientId : \A r \in Committed :
    status[c][r] \in {"absent", "Pending", "Synced"}

(* Every write reaches the server: in the end it holds them all, and none  *)
(* is left pending.  Only a misplaced write, or one on top of it, may have *)
(* ended as a SyncError instead.                                           *)
WritesArrive ==
  <>[](\A c \in ClientId : \A r \in RevisionId :
         \/ status[c][r] = "absent" \/ r \in Committed
         \/ status[c][r] \in RejectionReason /\ Misordered(c, r))

(* Every committed revision becomes visible, and stays so, at every other  *)
(* client that awaits its calls.                                           *)
OthersSeeWrites ==
  <>[](\A c \in Serial : \A r \in Committed : created_by[r] # c => Covered(c, r))
=============================================================================
