----------------------------- MODULE ClientView -----------------------------
(***************************************************************************)
(* What one client's application sees: filtered pulls into its local       *)
(* heads, the indexes of its IndexedDB across schema upgrades, and the     *)
(* queries over them.                                                      *)
(*                                                                         *)
(* The others commit one revision at a time.  A sync is one step: its      *)
(* interleavings and crashes are module ClientSync's, its statements on    *)
(* the server module ServerPull's.  Here a sync has its filter and a       *)
(* revision its body.                                                      *)
(***************************************************************************)
EXTENDS Revision, JsonFilter, FiniteSets

CONSTANTS
  object_type, created_at,   \* Revision::object_type, created_at
  content,     \* Revision::content: the JSON body, or Deleted
  Path,        \* the paths at which bodies hold values
  Requests,    \* the pull requests of the application, but for since
  Schemas,     \* the index schemas of its releases
  Ranges       \* the index ranges it asks for

Deleted == <<"deleted">>

(* object_types and filter are Options: the empty set is None.             *)
PullRequest(q) ==
  /\ Cardinality(q.object_types) <= 1 /\ Cardinality(q.filter) <= 1
  /\ q.created_at_filters \subseteq CreatedAtFilter
  /\ \A filter \in q.filter : \A and_group \in filter : \A c \in and_group : FilterCondition(c)

(* The entries of a schema, by name.                                       *)
IndexEntry == [object_type : STRING, json_path : Path]

IndexSchema(s) ==
  /\ s.version \in Nat \ {0}
  /\ \A n \in DOMAIN s.entries : s.entries[n] \in IndexEntry

EmptyEntries == [n \in {} |-> {}]

(* A change of the entries comes with a new version, as the design asks    *)
(* ("Adding or removing indices requires a database version bump").        *)
(* Numbers stay in the range where AsF64 is what as_f64 does.              *)
ASSUME ClientViewAssumption ==
  /\ \A f \in {DOMAIN object_type, DOMAIN created_at, DOMAIN content} : f = RevisionId
  /\ Path \subseteq Seq(STRING)
  /\ \A r \in RevisionId \ {x \in RevisionId : content[x] = Deleted} : \A path \in Path :
       \A v \in resolve_path(content[r], path) :
         v[1] \in Number => v[2] \in -(2 * MaxSafe) .. 2 * MaxSafe
  /\ \A q \in Requests : PullRequest(q)
  /\ \A s \in Schemas : IndexSchema(s)
  /\ \A s, t \in Schemas : s.version = t.version => s = t

VARIABLES
  log,       \* server: the committed revisions, one transaction each
  heads,     \* the rows of store object_heads
  cursor,    \* last_server_txn_id, None is 0
  request,   \* the filter the application syncs with
  asked,     \* history: the transactions pulled with that filter
  version,   \* the version of the IndexedDB database, 0 before it exists
  indexes,   \* its application indexes: the path of each name
  schema     \* the schema of the open repository

server == log
pulled == <<heads, cursor, asked>>
database == <<version, indexes, schema>>
vars == <<server, pulled, request, database>>

(* Every store ranges over what it can hold, and the cursor names a        *)
(* transaction.                                                            *)
TypeOK ==
  /\ log \in Seq(RevisionId)
  /\ heads \subseteq ObjectId \X RevisionId
  /\ cursor \in 0 .. Len(log)
  /\ request \in Requests
  /\ asked \subseteq 1 .. cursor
  /\ version \in {0} \cup {s.version : s \in Schemas}
  /\ \A n \in DOMAIN indexes : indexes[n] \in Path
  /\ schema \in Schemas \cup {[version |-> 0, entries |-> EmptyEntries]}

Init ==
  /\ log = <<>>
  /\ heads = {} /\ cursor = 0 /\ asked = {}
  /\ request \in Requests
  /\ version = 0 /\ indexes = EmptyEntries
  /\ schema = [version |-> 0, entries |-> EmptyEntries]

Opened == schema.version > 0
-----------------------------------------------------------------------------
(* The server.                                                             *)
Committed == {log[i] : i \in DOMAIN log}

HeadsOf(o) == {h \in Frontier(Committed) : h[1] = o}

(* Another client's push of r.                                             *)
Commit(r) ==
  /\ r \notin Committed /\ Parents(r) \subseteq Committed
  /\ log' = Append(log, r)
  /\ UNCHANGED <<pulled, request, database>>

(* Mutant of HeadPasses: a tombstone has no body to match a filter.        *)
HeadPassesActiveOnly(r, q) ==
  /\ \A types \in q.object_types : object_type[r] \in types
  /\ apply_created_at_filters(created_at[r], q.created_at_filters)
  /\ \A filter \in q.filter : content[r] # Deleted /\ apply_content_filter(content[r], filter)

(* A tombstone passes every content filter.                                *)
HeadPasses(r, q) ==
  /\ \A types \in q.object_types : object_type[r] \in types
  /\ apply_created_at_filters(created_at[r], q.created_at_filters)
  /\ \A filter \in q.filter : content[r] # Deleted => apply_content_filter(content[r], filter)

(* Mutant of Updates: the heads that fail the filter are left out.         *)
UpdatesPassingOnly(since) ==
  {h \in Frontier(Committed) :
     /\ \E i \in since + 1 .. Len(log) : object_id[log[i]] = h[1]
     /\ HeadPasses(h[2], request)}

(* All heads of every object changed after transaction since, if one of    *)
(* them passes.                                                            *)
Updates(since) ==
  {h \in Frontier(Committed) :
     /\ \E i \in since + 1 .. Len(log) : object_id[log[i]] = h[1]
     /\ \E g \in HeadsOf(h[1]) : HeadPasses(g[2], request)}
-----------------------------------------------------------------------------
(* Syncs.                                                                  *)

(* to_js: an integer JavaScript has no number for cannot be stored.        *)
Storable(r) ==
  content[r] = Deleted \/
    \A path \in Path : \A v \in resolve_path(content[r], path) :
      v[1] = "int" => -MaxSafe < v[2] /\ v[2] < MaxSafe

(* The local heads after the updates rows: a single head that supersedes   *)
(* every local one replaces them, otherwise all are kept.                  *)
Applied(rows) ==
  LET Of(o) == {h \in rows : h[1] = o}
      Superseded(o) == Of(o) \cup {<<o, p>> : p \in UNION {Parents(h[2]) : h \in Of(o)}}
      Replaces(o) == Cardinality(Of(o)) = 1 /\ {h \in heads : h[1] = o} \subseteq Superseded(o)
  IN  {h \in heads : ~Replaces(h[1])} \cup rows

(* Mutant of StoreCursor: the next transaction counts as seen.             *)
StoreCursorNext == cursor' = Len(log) + 1

StoreCursor == cursor' = Len(log)

(* since is left out, and filled from the cursor, or is 0: all over again. *)
Since == {cursor, 0}

Sync(since) ==
  /\ Opened
  /\ \A h \in Updates(since) : Storable(h[2])
  /\ heads' = Applied(Updates(since))
  /\ StoreCursor
  /\ asked' = asked \cup (since + 1 .. Len(log))
  /\ UNCHANGED <<server, request, database>>

(* put_revision fails for a row h: the objects before its own have been    *)
(* applied, and the cursor is not stored.                                  *)
SyncFails(since) ==
  /\ Opened
  /\ \E h \in Updates(since) :
       /\ ~Storable(h[2])
       /\ \E before \in SUBSET {g[1] : g \in Updates(since)} :
            LET rows == {g \in Updates(since) : g[1] \in before}
            IN  /\ h[1] \notin before /\ \A g \in rows : Storable(g[2])
                /\ heads' = Applied(rows)
  /\ UNCHANGED <<server, cursor, asked, request, database>>

(* From now on the application passes another filter to sync.              *)
ChangeRequest(q) ==
  /\ q # request
  /\ request' = q
  /\ asked' = {}
  /\ UNCHANGED <<server, heads, cursor, database>>
-----------------------------------------------------------------------------
(* Indexes.                                                                *)

(* Mutant of Recreated: an index that exists is left as it is.             *)
RecreatedIfMissing(s) ==
  [n \in DOMAIN indexes \cup DOMAIN s.entries |->
     IF n \in DOMAIN indexes THEN indexes[n] ELSE s.entries[n].json_path]

(* on_upgrade_needed: the indexes the schema names are dropped and created *)
(* again; one it no longer names stays.  An index IndexedDB creates covers *)
(* the records its store already has.                                      *)
Recreated(s) ==
  [n \in DOMAIN indexes \cup DOMAIN s.entries |->
     IF n \in DOMAIN s.entries THEN s.entries[n].json_path ELSE indexes[n]]

(* open_database by a release with schema s.  IndexedDB upgrades to a      *)
(* higher version only, and refuses to open with a lower one.              *)
OpenDatabase(s) ==
  /\ s.version >= version
  /\ version' = s.version
  /\ indexes' = IF s.version > version THEN Recreated(s) ELSE indexes
  /\ schema' = s
  /\ UNCHANGED <<server, pulled, request>>

(* What the repository's get returns of object o: every local head.        *)
get(o) == {h \in heads : h[1] = o}

(* The order of IndexedDB keys: numbers before strings.  An array, which   *)
(* the design does not allow at an indexed path, is left out.              *)
IsKey(v) == v[1] \in Number \cup {"str"}

KeyLess(v, w) ==
  \/ v[1] \in Number /\ w[1] = "str"
  \/ v[1] \in Number /\ w[1] \in Number /\ v[2] < w[2]
  \/ v[1] = "str" /\ w[1] = "str" /\ LexLess(v[2], w[2])

(* A range is a set of at most one pair of bounds: All has none, and Eq(v) *)
(* is bounded by v on both sides.  IDBKeyRange::bound refuses bounds that  *)
(* leave nothing between them.                                             *)
ValidRange(range) ==
  \A b \in range :
    /\ IsKey(b.lower) /\ IsKey(b.upper) /\ ~KeyLess(b.upper, b.lower)
    /\ KeyLess(b.lower, b.upper) \/ (b.lower_inclusive /\ b.upper_inclusive)

Within(v, range) ==
  \A b \in range :
    /\ KeyLess(b.lower, v) \/ (b.lower_inclusive /\ ~KeyLess(v, b.lower))
    /\ KeyLess(v, b.upper) \/ (b.upper_inclusive /\ ~KeyLess(b.upper, v))

(* What index n holds of revision r: a key if its body has one at the path.*)
IndexKeys(n, r) ==
  IF content[r] = Deleted THEN {}
  ELSE {v \in resolve_path(content[r], indexes[n]) : IsKey(v)}

(* The heads a query returns, or none at all (not even an empty set) if it *)
(* fails.  Keys begin with the type, so that a range is within one type;   *)
(* All is filtered afterwards.                                             *)
query_by_index(n, range) ==
  IF n \notin DOMAIN schema.entries \cap DOMAIN indexes \/ ~ValidRange(range) THEN {}
  ELSE {{h \in heads : /\ object_type[h[2]] = schema.entries[n].object_type
                       /\ \E v \in IndexKeys(n, h[2]) : Within(v, range)}}
-----------------------------------------------------------------------------
Next ==
  \/ \E r \in RevisionId : Commit(r)
  \/ \E since \in Since : Sync(since) \/ SyncFails(since)
  \/ \E q \in Requests : ChangeRequest(q)
  \/ \E s \in Schemas : OpenDatabase(s)

Spec == Init /\ [][Next]_vars
-----------------------------------------------------------------------------
(* Rounding to f64 never turns an order around: at every path of every     *)
(* body, Gt and Lt select no number they should not, Gte and Lte miss none *)
(* they should select, and what is equal to a number is within its bounds. *)
RangesBracket ==
  \A r \in Committed \ {x \in RevisionId : content[x] = Deleted} : \A p \in Path :
    \A v \in resolve_path(content[r], p) : \A n \in 0 .. 2 * MaxSafe - 1 :
      LET Holds(op) ==
            evaluate_condition(content[r], [path |-> p, operator |-> op, arg |-> <<"int", n>>])
      IN  v[1] \in Number =>
            /\ Holds("Gt") => v[2] > n
            /\ Holds("Lt") => v[2] < n
            /\ v[2] >= n => Holds("Gte")
            /\ v[2] <= n => Holds("Lte")
            /\ Holds("Eq") => Holds("Gte") /\ Holds("Lte")

(* The last change of object o was pulled with the present filter.         *)
UpToDate(o) ==
  \A i \in DOMAIN log :
    object_id[log[i]] = o /\ (\A j \in i + 1 .. Len(log) : object_id[log[j]] # o) => i \in asked

(* A conflict stays visible through a filter: of an object with a head     *)
(* that passes it, the client has every head, whatever the filter and the  *)
(* cursor were before and whichever syncs failed.                          *)
MatchesAreCurrent ==
  \A o \in ObjectId :
    UpToDate(o) /\ (\E g \in HeadsOf(o) : HeadPasses(g[2], request)) => HeadsOf(o) \subseteq get(o)

(* A deletion reaches every client that asked for the type, with no filter *)
(* on the creation time, although a tombstone has no body that could match *)
(* the content filter.                                                     *)
DeletionsArrive ==
  \A h \in Frontier(Committed) :
    /\ content[h[2]] = Deleted /\ UpToDate(h[1])
    /\ request.created_at_filters = {}
    /\ \A types \in request.object_types : object_type[h[2]] \in types
    => h \in get(h[1])

(* A query by any index of the open schema finds exactly the local active  *)
(* heads of its type whose value lies in the range, whichever schemas, by  *)
(* the same names or others, the database was opened with before.  Heads   *)
(* stored before the upgrade that adds an index are found by it at once: a *)
(* comment in rustend-client/tests/repository.rs (line 236) denies it.     *)
QueryIsExact ==
  \A n \in DOMAIN schema.entries : \A range \in Ranges :
    LET e == schema.entries[n]
        Found(r) ==
          /\ object_type[r] = e.object_type /\ content[r] # Deleted
          /\ \E v \in resolve_path(content[r], e.json_path) : IsKey(v) /\ Within(v, range)
    IN  ValidRange(range) => query_by_index(n, range) = {{h \in heads : Found(h[2])}}
=============================================================================
