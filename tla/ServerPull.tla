----------------------------- MODULE ServerPull -----------------------------
(***************************************************************************)
(* POST /changes/query (pull_changes, fetch_object_updates) and            *)
(* GET /objects/{id} (get_object), next to the concurrent pushes of        *)
(* ServerPush.                                                             *)
(*                                                                         *)
(* A pull is a chain of separate statements on pooled connections, in no   *)
(* common snapshot: pushes commit between the reading of the cursor bound, *)
(* of the changed objects and of their heads.  An object lookup reads      *)
(* heads and rows in the same way.                                         *)
(*                                                                         *)
(* The pages of a client share one IndexedDB, reduced to the cursor        *)
(* (last_server_txn_id) and a history of what was received, and each has   *)
(* a request of its own in flight.  Nothing orders their writes of the     *)
(* cursor: a slow pull stores its bound after a faster one, an open writes *)
(* back the cursor it read earlier and open_offline forgets it, so that    *)
(* the cursor may go back.                                                 *)
(***************************************************************************)
EXTENDS ServerPush

CONSTANTS
  Puller,     \* the pages that pull or look up
  client_of,  \* the client a page belongs to
  Match       \* revisions that satisfy the puller's types, dates and content filter

ASSUME ServerPullAssumption ==
  /\ client_of \in [Puller -> ClientId]
  /\ Match \subseteq RevisionId

VARIABLES
  pull,      \* pull[p]: where the request of page p is
  since,     \* its req.since, or the existing_txn of an open (None is 0)
  up_to,     \* its up_to, read first
  changed,   \* its changed_objects
  head_rows, \* its head_rows: the heads of those objects
  updates,   \* the head rows its answer carries
  seen,      \* history: what was committed when its up_to was read or its lookup began
  cursor,    \* cursor[c]: the cursor stored at client c
  delivered  \* history: the revisions client c has received

pullVars == <<pull, since, up_to, changed, head_rows, updates, seen, cursor, delivered>>
allVars == <<vars, pullVars>>

PullPC ==
  {"idle", "upto", "changed", "heads", "rows", "answered", "lookup", "found", "row",
   "missing", "open"}

(* Every local of a pull, and the cursor, is what its table can yield.     *)
PullTypeOK ==
  /\ pull \in [Puller -> PullPC]
  /\ since \in [Puller -> 0 .. MaxTransactionId + 1]
  /\ up_to \in [Puller -> 0 .. MaxTransactionId]
  /\ changed \in [Puller -> SUBSET ObjectId]
  /\ head_rows \in [Puller -> SUBSET Row]
  /\ updates \in [Puller -> SUBSET Row]
  /\ seen \in [Puller -> SUBSET RevisionId]
  /\ cursor \in [ClientId -> 0 .. MaxTransactionId]
  /\ delivered \in [ClientId -> SUBSET RevisionId]

PullInit ==
  /\ Init
  /\ pull = [p \in Puller |-> "idle"]
  /\ since = [p \in Puller |-> 0]
  /\ up_to = [p \in Puller |-> 0]
  /\ changed = [p \in Puller |-> {}]
  /\ head_rows = [p \in Puller |-> {}]
  /\ updates = [p \in Puller |-> {}]
  /\ seen = [p \in Puller |-> {}]
  /\ cursor = [c \in ClientId |-> 0]
  /\ delivered = [c \in ClientId |-> {}]
-----------------------------------------------------------------------------
GotoPull(p, label) == pull' = [pull EXCEPT ![p] = label]

(* The puller asks for what follows n: its cursor, as Repository::sync     *)
(* fills it in, or a number no transaction can have.                       *)
StartPull(p, n) ==
  /\ pull[p] = "idle"
  /\ GotoPull(p, "upto")
  /\ since' = [since EXCEPT ![p] = n]
  /\ UNCHANGED <<vars, up_to, changed, head_rows, updates, seen, cursor, delivered>>

(* Mutant of LatestTransactionId: the id the next transaction would get.   *)
NextTransactionId ==
  1 + (CHOOSE n \in {0} \cup {t.id : t \in transactions} : \A t \in transactions : t.id <= n)

(* SELECT COALESCE(MAX(id), 0): the largest id that is committed by now.   *)
LatestTransactionId ==
  CHOOSE n \in {0} \cup {t.id : t \in transactions} :
    \A t \in transactions : t.id <= n

ReadUpTo(p) ==
  /\ pull[p] = "upto" /\ FreeConnection
  /\ since[p] <= MaxTransactionId
  /\ GotoPull(p, "changed")
  /\ up_to' = [up_to EXCEPT ![p] = LatestTransactionId]
  /\ seen' = [seen EXCEPT ![p] = revisions]
  /\ UNCHANGED <<vars, since, changed, head_rows, updates, cursor, delivered>>

(* Mutant of ChangedObjects: the cursor is compared with >=, < instead of  *)
(* >, <=.                                                                  *)
ChangedObjectsOffByOne(p) ==
  {object_id[r] : r \in
     {x \in UNION {t.revision_ids : t \in {u \in transactions :
        since[p] <= u.id /\ u.id < up_to[p]}} : created_by[x] # client_of[p]}}

(* Objects with a revision by somebody else in (since, up_to].             *)
ChangedObjects(p) ==
  {object_id[r] : r \in
     {x \in UNION {t.revision_ids : t \in {u \in transactions :
        since[p] < u.id /\ u.id <= up_to[p]}} : created_by[x] # client_of[p]}}

(* Nothing changed: answered without reading heads.                        *)
ReadChanged(p) ==
  /\ pull[p] = "changed" /\ FreeConnection
  /\ changed' = [changed EXCEPT ![p] = ChangedObjects(p)]
  /\ GotoPull(p, IF ChangedObjects(p) = {} THEN "answered" ELSE "heads")
  /\ UNCHANGED <<vars, since, up_to, head_rows, updates, seen, cursor, delivered>>

(* The heads as they are now, possibly newer than up_to.                   *)
ReadHeads(p) ==
  /\ pull[p] = "heads" /\ FreeConnection
  /\ head_rows' = [head_rows EXCEPT ![p] = {h \in object_heads : h[1] \in changed[p]}]
  /\ GotoPull(p, "rows")
  /\ UNCHANGED <<vars, since, up_to, changed, updates, seen, cursor, delivered>>

(* Mutant of Passing: the heads that fail the filter are left out.         *)
PassingHeadsOnly(rows) == {h \in rows : h[2] \in Match}

(* If one head of an object passes the filter, all its heads are returned. *)
Passing(rows) == {h \in rows : \E g \in rows : g[1] = h[1] /\ g[2] \in Match}

(* The statements for the revision rows of the heads and for their parents *)
(* follow; both are immutable once committed, so one step does for both.   *)
ReadRows(p) ==
  /\ pull[p] = "rows" /\ FreeConnection
  /\ updates' = [updates EXCEPT ![p] = Passing({h \in head_rows[p] : h[2] \in revisions})]
  /\ GotoPull(p, "answered")
  /\ UNCHANGED <<vars, since, up_to, changed, head_rows, seen, cursor, delivered>>

ResetPull(p) ==
  /\ GotoPull(p, "idle")
  /\ since' = [since EXCEPT ![p] = 0]
  /\ up_to' = [up_to EXCEPT ![p] = 0]
  /\ changed' = [changed EXCEPT ![p] = {}]
  /\ head_rows' = [head_rows EXCEPT ![p] = {}]
  /\ updates' = [updates EXCEPT ![p] = {}]
  /\ seen' = [seen EXCEPT ![p] = {}]
  /\ UNCHANGED vars

(* The puller has applied the answer and stores its up_to_transaction,     *)
(* whatever the cursor has become since the pull began.                    *)
Deliver(p) ==
  /\ pull[p] = "answered"
  /\ cursor' = [cursor EXCEPT ![client_of[p]] = up_to[p]]
  /\ delivered' = [delivered EXCEPT ![client_of[p]] = @ \cup {h[2] : h \in updates[p]}]
  /\ ResetPull(p)

(* since does not fit an i64: MalformedData.                               *)
RejectSince(p) ==
  /\ pull[p] = "upto"
  /\ since[p] > MaxTransactionId
  /\ ResetPull(p)
  /\ UNCHANGED <<cursor, delivered>>

(* A statement fails or the answer is lost: the cursor stays.              *)
PullFails(p) ==
  /\ pull[p] # "idle"
  /\ ResetPull(p)
  /\ UNCHANGED <<cursor, delivered>>

-----------------------------------------------------------------------------
(* get_object                                                              *)
StartLookup(p, o) ==
  /\ pull[p] = "idle"
  /\ GotoPull(p, "lookup")
  /\ changed' = [changed EXCEPT ![p] = {o}]
  /\ seen' = [seen EXCEPT ![p] = revisions]
  /\ UNCHANGED <<vars, since, up_to, head_rows, updates, cursor, delivered>>

(* Mutant of StoredHeads: one head is enough.                              *)
StoredHeadsFirst(p) ==
  {h \in object_heads : h[1] \in changed[p] /\ h = CHOOSE g \in object_heads : g[1] = h[1]}

(* get_heads, in a transaction of its own.                                 *)
StoredHeads(p) == {h \in object_heads : h[1] \in changed[p]}

(* No heads: NotFound.                                                     *)
LookupHeads(p) ==
  /\ pull[p] = "lookup" /\ FreeConnection
  /\ head_rows' = [head_rows EXCEPT ![p] = StoredHeads(p)]
  /\ GotoPull(p, IF StoredHeads(p) = {} THEN "missing" ELSE "row")
  /\ UNCHANGED <<vars, since, up_to, changed, updates, seen, cursor, delivered>>

(* The rows and their parents, as in ReadRows; no filter.                  *)
LookupRows(p) ==
  /\ pull[p] = "row" /\ FreeConnection
  /\ updates' = [updates EXCEPT ![p] = {h \in head_rows[p] : h[2] \in revisions}]
  /\ GotoPull(p, "found")
  /\ UNCHANGED <<vars, since, up_to, changed, head_rows, seen, cursor, delivered>>

EndLookup(p) ==
  /\ pull[p] \in {"found", "missing"}
  /\ ResetPull(p)
  /\ UNCHANGED <<cursor, delivered>>

-----------------------------------------------------------------------------
(* Repository::open reads the cursor with the cached identity and asks the *)
(* server who it is.                                                       *)
Open(p) ==
  /\ pull[p] = "idle"
  /\ GotoPull(p, "open")
  /\ since' = [since EXCEPT ![p] = cursor[client_of[p]]]
  /\ UNCHANGED <<vars, up_to, changed, head_rows, updates, seen, cursor, delivered>>

(* Mutant of EndOpen: the new identity is stored with the bound of the     *)
(* server's log for a cursor.                                              *)
EndOpenLatest(p) ==
  /\ pull[p] = "open"
  /\ \E n \in {since[p], LatestTransactionId} : cursor' = [cursor EXCEPT ![client_of[p]] = n]
  /\ ResetPull(p)
  /\ UNCHANGED delivered

(* If the identity has changed it is stored, with the cursor read before.  *)
EndOpen(p) ==
  /\ pull[p] = "open"
  /\ \E n \in {cursor[client_of[p]], since[p]} : cursor' = [cursor EXCEPT ![client_of[p]] = n]
  /\ ResetPull(p)
  /\ UNCHANGED delivered

(* open_offline stores its identity without a cursor.                      *)
OpenOffline(p) ==
  /\ pull[p] = "idle"
  /\ cursor' = [cursor EXCEPT ![client_of[p]] = 0]
  /\ UNCHANGED <<vars, pull, since, up_to, changed, head_rows, updates, seen, delivered>>
-----------------------------------------------------------------------------
OtherStep(p) == LookupHeads(p) \/ LookupRows(p) \/ EndLookup(p) \/ EndOpen(p)

PullStep(p) ==
  \/ StartPull(p, cursor[client_of[p]]) \/ RejectSince(p)
  \/ ReadUpTo(p) \/ ReadChanged(p) \/ ReadHeads(p) \/ ReadRows(p) \/ Deliver(p)

PullNext ==
  \/ Next /\ UNCHANGED pullVars
  \/ \E p \in Puller :
       \/ PullStep(p) \/ StartPull(p, MaxTransactionId + 1) \/ PullFails(p)
       \/ OtherStep(p) \/ \E o \in ObjectId : StartLookup(p, o)
       \/ Open(p) \/ OpenOffline(p)

PullSpec == PullInit /\ [][PullNext]_allVars

(* A failure that is not also the delivery of an answer with nothing new   *)
(* or the end of a lookup or of an open.                                   *)
Interrupts(p) == PullFails(p) /\ ~Deliver(p) /\ ~EndLookup(p) /\ ~EndOpen(p)

(* Requests make progress as in ServerPush; a page keeps pulling from its  *)
(* client's cursor between its lookups and opens, and from some point on   *)
(* its pulls get through.                                                  *)
PullFairness ==
  /\ \A q \in Request : SF_allVars(Step(q) /\ UNCHANGED pullVars)
  /\ \A p \in Puller : SF_allVars(PullStep(p)) /\ SF_allVars(OtherStep(p))
  /\ <>[][\A p \in Puller : ~(Interrupts(p) \/ StartPull(p, MaxTransactionId + 1))]_allVars

FairPullSpec == PullSpec /\ PullFairness
-----------------------------------------------------------------------------
Covered(c, r) == \E d \in delivered[c] : <<r, d>> \in Ancestry

(* The answer, though read in several statements while pushes commit, has  *)
(* for every foreign revision after since that was committed when up_to    *)
(* was read a head that is that revision or a successor; only an object    *)
(* none of whose heads passes the filter is left out.                      *)
AnswerCoversChanges ==
  \A p \in Puller : pull[p] = "answered" =>
    \A t \in transactions : since[p] < t.id =>
      \A r \in t.revision_ids \cap seen[p] : created_by[r] # client_of[p] =>
        LET heads == {h \in head_rows[p] : h[1] = object_id[r]}
        IN  \/ \E h \in updates[p] : <<r, h[2]>> \in Ancestry
            \/ heads # {} /\ \A h \in heads : h[2] \notin Match

(* A lookup never misses what was there: its heads, read while pushes      *)
(* delete and insert head rows, cover every revision of the object that    *)
(* was committed when it began, and it answers NotFound only if there was  *)
(* none.                                                                   *)
LookupIsComplete ==
  \A p \in Puller : pull[p] \in {"found", "missing"} =>
    \A r \in seen[p] : object_id[r] \in changed[p] =>
      \E h \in updates[p] : <<r, h[2]>> \in Ancestry

(* Whatever a cursor is at, its owner has received what is before it: no   *)
(* foreign revision with an id up to the cursor is missing, although the   *)
(* pages of a client overtake each other and write the cursor back.        *)
NothingSkipped ==
  \A c \in ClientId : \A t \in transactions : t.id <= cursor[c] =>
    \A r \in t.revision_ids : created_by[r] # c => Covered(c, r)

(* Whatever is committed reaches every client that pulls, though its       *)
(* cursor is never safe from being written back.                           *)
EverythingArrives ==
  <>[](\A p \in Puller : \A r \in revisions :
         created_by[r] # client_of[p] => Covered(client_of[p], r))
=============================================================================
