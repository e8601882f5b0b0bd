# A TLA+ model of rustend

rustend is a pair of libraries for offline-first applications: a browser client
that keeps objects as immutable revisions in IndexedDB, and a server that keeps
every revision in PostgreSQL. Clients write locally, push what is pending, and
pull the heads of objects that others have changed. This directory models the
protocol, model-checks it with TLC and proves its safety properties with
TLAPS. Paths below are relative to the repository.

## 1. Inventory

| part | state | operations | hard behaviour | what makes it correct |
|---|---|---|---|---|
| core data model (`rustend-core/src`) | none: revisions are immutable values | `Lineage::parents` | – | heads are the revisions without a known successor |
| server push (`rustend-server/src/db/push.rs`, `revisions.rs`, `object_heads.rs`, `transactions.rs`) | tables `revisions`, `revision_parents`, `object_heads`, `transactions`, `transaction_revisions`, the id sequence | `POST /changes` | concurrent requests; validation outside the transaction; row locks; deadlock victims; rollback; a lost commit acknowledgement | the head table is the frontier; lineage is closed, acyclic and within one object; every revision is in one transaction; answers are true; every push ends |
| server pull (`db/pull.rs`, `handlers/pull.rs`) | none of its own; the client keeps a cursor | `POST /changes/query` | several statements in no common snapshot; ids visible out of order | the answer covers its window; no cursor passes an undelivered revision, wherever the pages of a client set it; everything arrives |
| pull filter (`db/pull.rs:130-203`, `core/src/filter.rs`) | none | pure functions on JSON | missing paths, mixed types, float comparison | rounding never turns an order around; a matching object is current with all its heads; deletions arrive |
| object lookup (`handlers/objects.rs`) | none | `GET /objects/:id` | several statements beside pushes | no head is missed |
| authentication (`auth.rs`, `db/clients.rs`, `handlers/whoami.rs`) | table `clients` | middleware on every route | registration outside the handler; requests that overtake each other; a provider that changes its mind | every author is registered; the users follow the provider |
| files (`handlers/files.rs`, `db/files.rs`, client `idb/files.rs`) | table and store `files` | put, get, delete | none | – |
| client writes (`rustend-client/src/repository.rs`) | stores `revisions`, `object_heads` | `save`, `update`, `delete`, `resolve_conflict` | two IndexedDB transactions per write, with awaits and possibly a closed page between | no write is forgotten, no version disappears |
| client sync (`rustend-client/src/sync.rs`) | the same stores, and `sync_state` | `sync` = `push_pending`, `pull_updates` | lost requests and answers, retries, crashes, overlap with writes | pushed revisions are stored; the cursor never runs ahead of the heads; clients converge |
| client open and identity (`repository.rs:42-108`, `idb/sync_state.rs`) | `sync_state`, the identity in memory | `open`, `open_offline`, the write-back of `sync` | several pages, a cached identity that is out of date | the cache holds a whole identity the device has had; only a new client id costs a write |
| client reads and indexes (`repository.rs:193-290`, `idb/open.rs`, `schema.rs`) | the indexes and version of the database | `get`, `query_by_index` | schema upgrades | a query is exact |

The components meet in two places: the client's HTTP calls to push and pull,
whose shared state is the transaction id used as cursor, and the PostgreSQL
tables, shared by all requests in flight. `PROJECT.json` lists the hazards of
each at its line, with the properties that watch it.

## 2. Modules

```
Revision ── RevisionStore            what the store promises (abstract)
   │             ▲ refined by
   ├──────── ServerPush ── ServerPull        the server's handlers
   ├──────── ClientSync                      clients against a serial server
   └──────── ClientView ── JsonFilter        one client's filters, heads and indexes
DeviceIdentity                               authentication, open, cached identity
MCServerPush, MCServerPull, MCClientSync, MCClientView, MCDeviceIdentity
                                             small instances for TLC

theorems:
ServerPushProofs ── ServerLineageProofs ── ServerPullProofs
SetInduction ─┬─ ClientSyncProofs ── ClientHeadsProofs
              └─ ClientViewProofs
DeviceIdentityProofs
```

**Revision.** An id stands for its revision, so `object_id`, `lineage` and
`created_by` are constant functions. `Parents` is `Lineage::parents`; a lineage
is the list of its parents (`Root` empty, `Update` one, `Merge` two or more).
Lineages are arbitrary: refusing bad ones is the server's task.

**RevisionStore.** The abstract store: one action, `CommitTransaction`, adds a
whole transaction of new, well-formed revisions with a fresh id larger than
those of its parents' transactions, and sets the head table to the frontier.

**ServerPush.** Each slot of `Request` runs `push_revisions`. `pc` names the
next statement, `pos` the loop index, `accepted`, `rejected` and `txid` are the
locals of the same names; `ins`, `del` and `add` are the uncommitted writes of
the open transaction. One action per statement or decision:

| action | code |
|---|---|
| `Receive`, `Finish` | `handlers/push.rs` |
| `RejectForeign`, `RejectExisting`, `PassExists` | `push.rs:19-33` |
| `RejectRepeatedParent`, `RejectParent`, `Accept` | `push.rs:35-80` |
| `RespondNothingAccepted` | `push.rs:87-93` |
| `BeginTransaction`, `SkipRejected`, `InsertRevision`, `InsertViolation` | `push.rs:83-97`, `revisions.rs:13-47`, the keys of `001_initial.sql` |
| `DeleteHead` (one row at a time), `InsertHead` | `object_heads.rs:4-29` |
| `CreateTransaction`, `SequenceExhausted` | `transactions.rs:5-31` |
| `Commit` (answered, or failed when the acknowledgement is lost) | `push.rs:106` |
| `Fail`, `DeadlockVictim` | any `?`, a dropped handler, PostgreSQL's deadlock detector |

PostgreSQL is external and runs at READ COMMITTED, its default: a statement
sees what is committed plus its own transaction's writes; an insert of a key
another open transaction has inserted waits for it; so does a delete of a row
another one has deleted. An object's parents are looked up in one step, which
loses nothing because committed revisions never disappear. The bound
`MaxTransactionId` stands for the end of the `BIGSERIAL` sequence.

**ServerPull.** Adds pulls to ServerPush, one action per statement
(`ReadUpTo`, `ReadChanged`, `ReadHeads`, `ReadRows`), refusal of an oversized
`since`, failures, and `Deliver`, where the client stores the cursor
(`sync.rs:120-125`). A member of `Puller` is a page; the pages of a client
(`client_of`) share its cursor, and nothing orders their writes of it. `Open` and
`EndOpen` are `Repository::open` around its `whoami`: if the identity has changed,
the cursor read before is written back (`repository.rs:49-57`). `OpenOffline`
writes none (`repository.rs:106`). So the cursor goes back, and what has to hold
is that it is never past something its owner has not received. `Match` is the set
of revisions that pass the request's filters. `get_object` (`StartLookup`,
`LookupHeads`, `LookupRows`, `EndLookup`) reads the heads of one object and then
their rows. `delivered` and `seen` (what was committed when `up_to` was read, or a
lookup began) are history variables.

**ClientSync.** The clients, with a step for each stretch between two awaits:
one IndexedDB transaction or one HTTP exchange. A `Session` is a page with an
open repository; several sessions may share a client's IndexedDB.

| action | code |
|---|---|
| `StartWrite`, `PutRevision`, `ReplaceHeads` | `repository.rs:110-191`, `292-330` |
| `StartSync` | `repository.rs:354-364` |
| `ReadPending`, `Push`, `MarkSynced`, `MarkError` | `sync.rs:19-59` |
| `Pull`, `PutPulled`, `ReadLocalHeads`, `ApplyReplace`, `ApplyConflict`, `WriteCursor` | `sync.rs:61-126` |
| `Lose` | a request or an answer lost: `sync.rs:32-48`, `67-83` |
| `Crash` | the page is closed; IndexedDB stays |

Its server is the sequential one that `RefinesStore` and `HeadsCorrect` justify:
a log of transactions whose frontier is the head table. Serving requests one at
a time is an assumption here (the cursor anomaly of section 4 needs concurrent
pushes and is studied in ServerPull). A request that is slow rather than lost is
taken to arrive at once. `KeyOrder` is the order of the UUIDs that key the
store: `batch` is the set of what is pushed, and `Key(n)` the order in which the
server meets it. `Overlap` is the set of clients whose calls run at the same time (a write
during a sync, or two syncs), `ResolveAll` says that the application gives
`resolve_conflict` the heads as they are, and `Unreliable` is the set of clients
that crash and lose messages. `ClientSyncAssumption` says that `save` makes a new
object of every root, and that a primary key belongs to one revision.

**JsonFilter.** The filter of a pull as operators with the names of
`db/pull.rs:130-203`. A JSON value is a tuple of its kind and what it holds, so
that 3 and 3.0 stay different values, as in serde_json, and a path is its list
of keys. `AsF64` rounds to nearest, ties to even, above `MaxSafe`, which stands
for 2^53; numbers stay below 2 * `MaxSafe`, where the distance of two floats
doubles again.

**ClientView.** One client that reads: others commit revisions with bodies,
types and times; the client pulls with a filter (`Sync`, with the cursor or from
0), a pull may meet a number it cannot store (`SyncFails`: the objects before it
are applied, the cursor is not), the application changes its filter
(`ChangeRequest`) or is released with another index schema (`OpenDatabase`, the
upgrade included). `get` and `query_by_index` are operators on the local heads
and the indexes. A sync is one step, because its interleavings are ClientSync's.
`asked`, the transactions pulled with the present filter, is a history variable.
IndexedDB is external: an upgrade for a higher version only, an index entry for
every record of the store with a valid key at the path, the records that were
there when the index was created included, numbers before strings.

**DeviceIdentity.** Pages of a device and their requests.

| action | code |
|---|---|
| `Authenticate`, `Unauthenticated`, `ProviderError` | `auth.rs:100-114`, with `extract_ip` and the provider (external) |
| `upsert_client`, `UpsertFails` | `auth.rs:116-121`, `db/clients.rs` |
| `whoami`, `push_changes`, `pull_changes` | the handlers, for the client the layer has found |
| `Open`, `Identify`, `NetworkDown`, `OpenOffline` | `repository.rs:42-108` |
| `Save`, `StartSync` | `repository.rs:110-131`, `sync.rs:19-29` |
| `ReadState`, `WriteState` | `sync.rs:120-123`, two IndexedDB transactions |
| `PushUnanswered`, `Close` | a lost answer, a closed page |
| `Reprovision` | the provider names another identity, or none, for an address |

A request is authenticated, registered and handled in three steps, between which
other requests run. `written_on` is the device a revision is written on, so that
a refusal can be held against the identities that device has had: `had` is a
history variable that grows when a request of the device is authenticated and when
it is opened offline. The bodies of push and pull are reduced to what depends on
the caller: whose revisions are accepted, and the cursor. The commit of a push and
the marking of its revisions at the client (`sync.rs:50-56`) are one step here,
and the foreign key of `revisions.created_by` is not in the model: it is
`AuthorsRegistered` that says it would never fire.

## 3. Runs that pass

| run | instance | shows |
|---|---|---|
| `push_lineage` | 2 slots, 2 connections, 2 clients, 7 revisions of 2 objects, 3 ids | `TypeOK`, `HeadsAreFrontier`, `LineageSound`, `EveryObjectHasHead`, `EveryRevisionLogged`, `CausalTransactions`, `AnswersAreTruthful`, `RefinesStore` |
| `push_crossing` | two pushes over the same two objects in opposite orders, 2 connections, with fairness | `EveryPushEnds` and `HeadsAreFrontier` in spite of the deadlock |
| `pull_covers` | one page beside 2 pushes on 2 connections, a branch, a filter, lookups, openings | `AnswerCoversChanges`, `LookupIsComplete`, `PullTypeOK` |
| `pull_pages` | two pages of one client beside one push at a time, on one connection; a root and its update, no filter; with fairness | `NothingSkipped`, `EverythingArrives` |
| `client_arrives` | 2 clients, conflicts of two and (with a phantom) three heads, a merge of two, one client unreliable, some keys before those of a parent, with fairness | `OnlyMisplacedLost`, `CursorCovered`, `SerialHeadsNeverLost`, `WritesArrive`, `OthersSeeWrites`, `TypeOK` |
| `queries` | 2 objects with 5 revisions: a branch of three with a tombstone, ints, floats, strings, null and arrays, a number above `MaxSafe`; 4 requests, 2 schemas, 5 ranges | `RangesBracket`, `MatchesAreCurrent`, `DeletionsArrive`, `QueryIsExact`, `TypeOK` |
| `identity` | a device with two pages behind a proxy, 2 clients, 2 users, one change by the provider, one revision, with fairness | `AuthorsRegistered`, `RefusedOnlyIfMoved`, `CachedIdentityIssued`, `SyncsAreRecorded`, `UsersFollow`, `TypeOK` |

*Bounds.* Two requests are enough for every wait and every deadlock the code can
produce between two objects; the batches of `push_lineage` contain a child
before its parent, a repeated id, foreign, malformed, cross-object and self-parent
revisions, a branch and a merge, and three ids let the sequence run out. `pull_covers` has
a revision that fails the filter beside one that passes. `NothingSkipped` is about
ids and bounds, so its runs have no branch and no filter (what a filter leaves out
is not delivered by design); two pages are enough for one to store a smaller bound
after the other, and two transactions for a cursor to stand between. `pull_pages`
has one push at a time, so that its ids commit in order; that several pushes on one
connection do so too is the theorem `OneConnectionSkipsNothing`, and that two
connections break it is `pull_skips`. In `push_crossing` there are as many
connections as requests, or the deadlock could not happen; in `pull_pages` a push
and two pages share one. In `client_arrives` the keys of r3 and m sort before those
of parents the other client wrote, which does no harm, and that of r4 before its own
client's r2, which costs r4 if both are pushed together; calls do not overlap there,
and `OnlyMisplacedLost` with overlapping calls is left to its theorem. `client_arrives` has a
conflict of two heads and one of three (with a superseded head kept by a client
that is behind), a merge of two, and a page that can close at every await.
In `queries` the requests use every operator, an empty disjunction and every
kind of filter; `MaxSafe` is 4, so that 5 and 7 are rounded, down and up; the
second schema reuses a name for another path, drops one and adds one. In
`identity` the initial identity and the one after the change are any two of
three (two clients, two users) or none, and two pages are enough for one to undo
what the other wrote. Slots are interchangeable, so the safety runs of the server use
symmetry; the liveness runs do not.

*Fairness.* ServerPush: a handler that can take its next step takes it (tokio
polls it); strong fairness, because connections and locks are granted first
come, first served; the deadlock detector runs eventually. ServerPull: in
addition a page keeps pulling, its lookups and openings end, and from some point
on its pulls get through; it may be opened again, online or offline, for ever.
ClientSync: calls in flight continue, the application calls `sync` again and
again, and from some point on neither the network nor the page fails.
DeviceIdentity: requests and calls in flight continue, a closed page is opened
and an open one synced again, and from some point on nothing fails; the provider
changes its mind finitely often (`MaxMoves`). Nothing
obliges a failure, a new request or a write. A failure that changes nothing a
completed call would not also change (`Interrupts` excludes it, and in DeviceIdentity the implication in `Fairness`)
does not count
as one, or the assumption would forbid calls that end with nothing new.

*Mutants.* Every property of every passing run has a mutant in
`PROJECT.json`: an operator commented "Mutant of ..." that changes one
definition the way a bug would, under which TLC finds the property violated.

## 4. Runs that find a disagreement

| run | property | what happens |
|---|---|---|
| `pull_skips` | `NothingSkipped` | Push A draws id 1, push B draws id 2 and commits, a pull answers up to 2, A commits: id 1 is never pulled. With a pool of one connection this cannot happen (theorem `OneConnectionSkipsNothing`). |
| `client_key_order` | `WritesSurvive` | Two offline writes of one object; the child's UUID sorts first, the server refuses it as `UnknownParent`, and a `SyncError` revision is never pushed again. Which writes can be lost at all is `OnlyMisplacedLost` (`client_arrives`, and its theorem). |
| `client_retry` | `RetryIsSafe` | A retried push ends as `SyncError(DuplicateRevisionId)` although the revision is stored. |
| `client_phantom` | `HeadsUnrelated` | A client two updates behind keeps its old head beside the one that supersedes it. |
| `client_overlap` | `HeadsNeverLost` | A client has two pages; a write and a pull of one object, or two pulls, overlap, and one replaces the other's head. For clients that await their calls the property holds (`SerialHeadsNeverLost` in `client_arrives`). |

Four relatives, met while modelling, have no run of their own.
`resolve_conflict` accepts a subset of the heads and then replaces all of them,
so a head pulled after the application read the conflict is dropped; the design
(`docs/superpowers/specs/2026-05-16-rustend-design.md:274`) says the merge has
"all conflicting heads as parents". With `ResolveAll = FALSE` and three heads both `CursorCovered` and
`SerialHeadsNeverLost` fail. The design's line 733 says an index change needs "a
database version bump (handled by the library)"; the version is the
application's (`IndexSchema::version`), and without a new one the change is not
applied: `ClientViewAssumption` asks for it. A comment in
`rustend-client/tests/repository.rs:236` says that "existing records don't
auto-index" when an upgrade adds an index. `on_upgrade_needed` creates it on the
store that has the records, and IndexedDB (external here) fills it: `QueryIsExact`
finds heads stored before the upgrade right after it, the test's second save is not
needed, and its assertion (some result) holds either way. And line 580 says `get_file_data`
"fetches from the server if not locally cached", which it does not.

The findings in `PROJECT.json` quote what the documentation says of each.

## 5. Proofs

Every safety property of a passing run is proved for every value of the
constants: any number of clients, pages, requests, revisions and transactions,
any lineages, any schedule. The hypotheses are the `ASSUME`s of the models
(types of the constants, and what is said of them in section 2) and those named
below.

| module | theorems |
|---|---|
| `ServerPushProofs` | `TypeCorrect`, `HeadsCorrect` (`HeadsAreFrontier`), `LogCorrect` (`EveryRevisionLogged`), `LogCausal` (`CausalTransactions`), `PushRefinesStore` (`RefinesStore`) |
| `ServerLineageProofs` | `LineageCorrect` (`LineageSound`), `HeadsExist` (`EveryObjectHasHead`), `AnswersCorrect` (`AnswersAreTruthful`) |
| `ServerPullProofs` | `PullTypeCorrect`, `AnswersCover` (`AnswerCoversChanges`), `LookupsComplete` (`LookupIsComplete`), `OneConnectionSkipsNothing` (`NothingSkipped`) |
| `ClientSyncProofs` | `TypeCorrect`, `OnlyMisplacedWritesLost` (`OnlyMisplacedLost`) |
| `ClientHeadsProofs` | `SerialHeadsKept` (`SerialHeadsNeverLost`), `CursorsAreCovered` (`CursorCovered`) |
| `ClientViewProofs` | `TypeCorrect`, `RangesAreBracketed` (`RangesBracket`), `MatchesArrive` (`MatchesAreCurrent`), `TombstonesArrive` (`DeletionsArrive`), `QueriesAreExact` (`QueryIsExact`) |
| `DeviceIdentityProofs` | `TypeCorrect`, `AuthorsAreRegistered`, `RefusalsAreMoves` (`RefusedOnlyIfMoved`), `CacheIsIssued` (`CachedIdentityIssued`), `SyncsRecorded` (`SyncsAreRecorded`) |

**The push.** The inductive invariant is `IInv`. The committed tables alone are
not inductive: `Commit` adds whatever the open transaction has written, so the
invariant says what each one has written so far. `LocalsOK`: the accepted
revisions are the client's own and well formed. `InsertsOK`: a transaction's
inserts are new, their parents are committed or inserted before them, and at
commit they are all that was accepted. `HeadWritesOK`: its new head rows are the
frontier of its inserts, and it has deleted exactly the committed heads they
supersede. `Apart`: the unique index and the row locks keep the inserts and
deletes of two open transactions disjoint. `DrawnOK`: a drawn id is unused and
larger than those of the parents. The heart is `FrontierUnion`: the frontier of a
closed graph and new revisions on top of it is the old frontier without the
superseded heads plus the frontier of the new ones. One lemma per action shows
the invariant preserved; `Frame` and `LocalStep` dispose of the slots an action
leaves alone. The refinement maps the tables to themselves: `Commit` is a
`CommitTransaction`, every other step a stutter.

**Lineage and answers.** Acyclicity is carried as `Ordered(R)`: every part of `R`
has a revision without a parent, and one without a child, in that part. It holds
of the committed graph and of each open transaction's inserts, one revision on
top keeps it (`OrderedOne`) and so does one ordered set on top of another
(`OrderedUnion`); its second half gives every object a head without assuming
finitely many revisions. `VerdictsOK` follows a batch through validation, insert
and commit for `AnswersCorrect`.

**The pull.** `PullInv` relates what each statement has read to the tables as
they have become since: `WindowOK` (what was committed when the bound was read is
not above it, and its objects are among the changed ones), `HeadsOK` (the head
rows read later cover it, by `HeadsCover`), `UpdatesOK`.
`OneConnectionSkipsNothing` has the hypotheses `PoolSize = 1` and `Match =
RevisionId`, those of its run. Since the cursor goes back, the invariant is not
about the cursor alone: a value is safe for a client (`SafeCursor`) if everything
of others up to it has been delivered and every id still to be drawn or committed
is above it, and every value a page holds and might store is safe (`HeldOK`,
`BoundOK`), the `since` of a pull and the cursor an open has read included. A pull
reads its bound while no transaction is open, so every id drawn later is above it.

**Which writes are lost.** `SafeInv`: whatever a client holds as a head, a pending
revision, a parent of one or a batch is committed, pending or misordered: the
client has, at or below it, a write of its own that names a parent twice
(`resolve_conflict` does not check this, and the server refuses such a revision as
`MalformedData`) or whose key sorts before that of a parent the same client wrote.
It needs `AllAccepted`, by induction over the keys: what is refused of a batch is
a duplicate or misordered. There is no hypothesis on the keys, which are random
UUIDs, nor on schedules: overlapping calls, crashes and lost messages are all
allowed. A client keeps its id in ClientSync; that a new one costs the writes
still pending is in DeviceIdentity (`RefusedOnlyIfMoved`).

**Heads and cursor of a client that awaits its calls.** `KnownInv`: a revision
anybody has heard of was written, with its root before it. `SerialInv`: one call
at most is in flight, and what it read of the heads is still so; a write
supersedes all heads of its object (`WriteSupersedes`). `CursorInv`: every
committed revision has a descendant among the heads of its object (`Topped`, by
induction over a batch), what is before `since` and before the cursor is visible,
and what an answer does not carry is visible already. Both theorems have the
hypothesis `ResolveAll = TRUE`, without which they are false (section 4).

**What a client shows.** `IndexesOK`: an open repository has the version of its
database and every index of its schema is on its path. `MatchesAreCurrent` is
inductive together with `LastChangeExists`. `RangesAreBracketed` comes down to
`AsF64Monotone`, and to `OneValueAtPath` by induction over the path.

**Identity.** An identity passes through a request, a page and IndexedDB before
it signs a revision, and each may be stale when the next takes it over; what
holds of all is that the device has had it at some time (`had`). `PageOK` and
`WrittenOK` say so for pages and revisions.

`SetInduction` states induction over the naturals for a set, not for a
predicate, because the provers cannot instantiate an operator. It is used to show
what the recursive functions `AcceptedOf` and `resolve_path` compute.

*What the proofs changed in the models.* Three definitions used `CASE` with
guards that overlap, where TLA+ leaves the choice open and TLC takes the first:
they are nested `IF`s now. An earlier form of `AnswerCoversChanges`, for every
transaction in the window `(since, up_to]`, was true of the run and false in
general: a push with a smaller id may commit after the heads are read, which is
the anomaly of `pull_skips`. It now speaks of what was committed when `up_to` was
read.

*Only model-checked:* liveness (`EveryPushEnds`, `EverythingArrives`,
`WritesArrive`, `OthersSeeWrites`, `UsersFollow`), which needs fairness and
ENABLED and is beyond the prover. The runs of section 4 are counterexamples.

## 6. Not modelled, and the plan

Not modelled:

- files: put, get and delete of a blob by id, each one statement or one IndexedDB
  transaction on a table and a store nothing else reads;
- serialisation (but for the numbers JavaScript cannot hold), logging, CI, the
  status an error becomes where the client does not tell statuses apart, roles;
- arrays as index keys, which the design rules out (line 733);
- eviction of the browser's storage, and an upgrade blocked by another page;
- the clients against the concurrent server: ClientSync and ServerPull meet in
  the log and the cursor, and their product is out of TLC's reach.

To do: `OneConnectionSkipsNothing` for any filter, with what a filter leaves out
stated in the property; the positive sides of `client_retry`, `client_phantom` and
`client_overlap` (under which schedules `RetryIsSafe`, `HeadsUnrelated` and
`HeadsNeverLost` do hold); the log of ClientSync as a refinement of
`RevisionStore`, which would tie the clients' server to the proved one; and the
safety half of the liveness properties, that a fair schedule always has a next
step to take.
