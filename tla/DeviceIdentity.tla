--------------------------- MODULE DeviceIdentity ---------------------------
(***************************************************************************)
(* Who a device is: the authentication layer of the server, which asks an  *)
(* external provider who is behind an address, and the client, which       *)
(* caches the answer and signs its revisions with it.                      *)
(*                                                                         *)
(* A page of a device has one repository and one request in flight.  Pages *)
(* of one device share its IndexedDB.  A request is authenticated, its     *)
(* client registered, and then handled: three awaits, between which other  *)
(* requests run and the provider may change its mind.  Requests of the     *)
(* client library are whoami, and the push and the pull of a sync.  The    *)
(* handlers of push and pull are modules ServerPush and ServerPull; what   *)
(* matters here is the client they act for.                                *)
(***************************************************************************)
EXTENDS Naturals, Sequences

CONSTANTS
  Device, Page, device_of,     \* device_of[p]: whose IndexedDB page p works on
  ip_source,                   \* ServerStore::ip_source
  peer, forwarded_for, real_ip,  \* what a request of a device carries
  Address, Client, User,
  Identities,       \* Identities[i]: what the provider may say of address i
  OfflineIdentity,  \* OfflineIdentity[d]: what its application passes to open_offline
  RevisionId, written_on,   \* written_on[w]: the device that writes revision w, if it is written
  MaxMoves          \* bound: how often the provider changes its mind

(* AuthInfo, without the roles.                                            *)
Identity == [client_id : Client, user_id : User]

IpSource == {"ConnectInfo", "ForwardedFor", "RealIp"}

(* An Option is a set of at most one element.                              *)
Option(S) == {{}} \cup {{x} : x \in S}

ASSUME DeviceIdentityAssumption ==
  /\ device_of \in [Page -> Device]
  /\ ip_source \in IpSource
  /\ peer \in [Device -> Address]
  /\ forwarded_for \in [Device -> Seq(Address)]
  /\ real_ip \in [Device -> Option(Address)]
  /\ Identities \in [Address -> SUBSET Identity]
  /\ OfflineIdentity \in [Device -> Identity]
  /\ written_on \in [RevisionId -> Device]
  /\ MaxMoves \in Nat

VARIABLES
  assigned,   \* provider: assigned[i], the identity behind address i, if any
  moves,      \* how often it has changed
  had,        \* history: had[d], the identities device d has had, from the server or the application
  users,      \* server, table clients: users[c], the user of client c, if registered
  committed,  \* table revisions
  latest,     \* MAX(id) of table transactions
  stored,     \* stored[d]: client_id and user_id in store sync_state, if any
  cursor,     \* cursor[d]: last_server_txn_id beside them, None is 0
  status,     \* status[w]: sync_status of revision w in store revisions
  author,     \* author[w]: its created_by, if it is written
  pc,         \* pc[p]: what page p is doing; its request in flight is named by it
  stage,      \* stage[p]: how far the server is with that request
  info,       \* info[p]: the AuthInfo in the request's extensions, if any
  self,       \* self[p]: Repository::client_id and user_id, if it is open
  kept,       \* kept[p]: the identity and cursor page p read from sync_state
  batch       \* batch[p]: the revisions page p pushes

naming == <<assigned, moves, had>>
tables == <<users, committed, latest>>
idb == <<stored, cursor, status, author>>
request == <<pc, stage, info>>
vars == <<naming, tables, idb, request, self, kept, batch>>

Asking == {"whoami", "push", "pull"}

(* Every table, store and local ranges over what it can hold.              *)
TypeOK ==
  /\ assigned \in [Address -> Option(Identity)]
  /\ moves \in 0 .. MaxMoves
  /\ had \in [Device -> SUBSET Identity]
  /\ users \in [Client -> Option(User)]
  /\ committed \subseteq RevisionId
  /\ latest \in Nat
  /\ stored \in [Device -> Option(Identity)]
  /\ cursor \in [Device -> 0 .. latest]
  /\ status \in [RevisionId -> {"absent", "Pending", "Synced", "Duplicate", "Malformed"}]
  /\ author \in [RevisionId -> Option(Client)]
  /\ pc \in [Page -> {"closed", "ready", "identify", "read", "write"} \cup Asking]
  /\ stage \in [Page -> {"none", "auth", "upsert", "handle"}]
  /\ info \in [Page -> Option(Identity)]
  /\ self \in [Page -> Option(Identity)]
  /\ kept \in [Page -> [identity : Option(Identity), txn : 0 .. latest]]
  /\ batch \in [Page -> SUBSET RevisionId]

Nothing == [identity |-> {}, txn |-> 0]

Init ==
  /\ assigned \in [Address -> Option(Identity)]
  /\ \A i \in Address : assigned[i] \subseteq Identities[i]
  /\ moves = 0
  /\ had = [d \in Device |-> {}]
  /\ users = [c \in Client |-> {}]
  /\ committed = {} /\ latest = 0
  /\ stored = [d \in Device |-> {}]
  /\ cursor = [d \in Device |-> 0]
  /\ status = [w \in RevisionId |-> "absent"]
  /\ author = [w \in RevisionId |-> {}]
  /\ pc = [p \in Page |-> "closed"]
  /\ stage = [p \in Page |-> "none"]
  /\ info = [p \in Page |-> {}]
  /\ self = [p \in Page |-> {}]
  /\ kept = [p \in Page |-> Nothing]
  /\ batch = [p \in Page |-> {}]

(* The provider is told that another device, or another user, or nobody is *)
(* behind address i.                                                       *)
Reprovision(i, identity) ==
  /\ moves < MaxMoves
  /\ identity \subseteq Identities[i] /\ identity # assigned[i]
  /\ assigned' = [assigned EXCEPT ![i] = identity]
  /\ moves' = moves + 1
  /\ UNCHANGED <<had, tables, idb, request, self, kept, batch>>
-----------------------------------------------------------------------------
(* Requests.  Page p goes on at label; a label in Asking sends a request.  *)
Goto(p, label) ==
  /\ pc' = [pc EXCEPT ![p] = label]
  /\ stage' = [stage EXCEPT ![p] = IF label \in Asking THEN "auth" ELSE "none"]
  /\ info' = [info EXCEPT ![p] = {}]

(* The first address of X-Forwarded-For; none if the header is missing.    *)
extract_ip(d) ==
  CASE ip_source = "ConnectInfo"  -> {peer[d]}
    [] ip_source = "ForwardedFor" -> {forwarded_for[d][i] : i \in {1} \cap DOMAIN forwarded_for[d]}
    [] ip_source = "RealIp"       -> real_ip[d]

(* Who the provider says is asking: nobody without an address.             *)
Caller(p) == UNION {assigned[i] : i \in extract_ip(device_of[p])}

Authenticate(p) ==
  /\ stage[p] = "auth" /\ Caller(p) # {}
  /\ info' = [info EXCEPT ![p] = Caller(p)]
  /\ stage' = [stage EXCEPT ![p] = "upsert"]
  /\ had' = [had EXCEPT ![device_of[p]] = @ \cup Caller(p)]
  /\ UNCHANGED <<assigned, moves, tables, idb, pc, self, kept, batch>>

(* Mutant of Register: ON CONFLICT DO NOTHING.                             *)
RegisterOnce(p) ==
  users' = [c \in Client |->
              IF users[c] = {} THEN {i.user_id : i \in {j \in info[p] : j.client_id = c}}
              ELSE users[c]]

(* The row of the client is inserted, or its user updated.                 *)
Register(p) ==
  users' = [c \in Client |->
              IF \E i \in info[p] : i.client_id = c THEN {i.user_id : i \in info[p]} ELSE users[c]]

upsert_client(p) ==
  /\ stage[p] = "upsert"
  /\ Register(p)
  /\ stage' = [stage EXCEPT ![p] = "handle"]
  /\ UNCHANGED <<naming, committed, latest, idb, pc, info, self, kept, batch>>

(* An error status: to whoami it is an Unauthenticated error, and open     *)
(* fails; to a sync it is a Network error, and the repository stays open.  *)
Refused(p) ==
  /\ Goto(p, IF pc[p] = "whoami" THEN "closed" ELSE "ready")
  /\ kept' = [kept EXCEPT ![p] = Nothing]
  /\ batch' = [batch EXCEPT ![p] = {}]
  /\ UNCHANGED <<naming, tables, idb, self>>

(* 401: no address, or nobody known behind it.                             *)
Unauthenticated(p) == stage[p] = "auth" /\ Caller(p) = {} /\ Refused(p)

(* 500: the provider fails.                                                *)
ProviderError(p) == stage[p] = "auth" /\ Refused(p)

(* Mutant of UpsertFails: the error is logged and the request handled.     *)
UpsertFailsIgnored(p) ==
  /\ stage[p] = "upsert"
  /\ stage' = [stage EXCEPT ![p] = "handle"]
  /\ UNCHANGED <<naming, tables, idb, pc, info, self, kept, batch>>

(* 500: the client could not be registered.                                *)
UpsertFails(p) == stage[p] = "upsert" /\ Refused(p)

(* The client a handler acts for.                                          *)
ActsFor(p) == {i.client_id : i \in info[p]}
-----------------------------------------------------------------------------
(* Opening a repository.                                                   *)
Become(p, identity) == self' = [self EXCEPT ![p] = identity]

Keep(p, what) == kept' = [kept EXCEPT ![p] = what]

(* open, up to whoami.                                                     *)
Open(p) ==
  LET d == device_of[p]
  IN  /\ pc[p] = "closed"
      /\ Keep(p, [identity |-> stored[d], txn |-> cursor[d]])
      /\ Goto(p, "whoami")
      /\ UNCHANGED <<naming, tables, idb, self, batch>>

whoami(p) ==
  /\ pc[p] = "whoami" /\ stage[p] = "handle"
  /\ Become(p, info[p])
  /\ Goto(p, "identify")
  /\ UNCHANGED <<naming, tables, idb, kept, batch>>

(* Mutant of StoreIdentity: a first identity is not written.               *)
StoreIdentityIfCached(p) ==
  LET d == device_of[p]
  IN  IF kept[p].identity \in {{}, self[p]} THEN UNCHANGED <<stored, cursor>>
      ELSE /\ stored' = [stored EXCEPT ![d] = self[p]]
           /\ cursor' = [cursor EXCEPT ![d] = kept[p].txn]

(* write_sync_state, unless the answer is what was cached; with it goes    *)
(* the cursor that was read before the request.                            *)
StoreIdentity(p) ==
  LET d == device_of[p]
  IN  IF kept[p].identity = self[p] THEN UNCHANGED <<stored, cursor>>
      ELSE /\ stored' = [stored EXCEPT ![d] = self[p]]
           /\ cursor' = [cursor EXCEPT ![d] = kept[p].txn]

(* The end of open.                                                        *)
Identify(p) ==
  /\ pc[p] = "identify"
  /\ StoreIdentity(p)
  /\ Keep(p, Nothing)
  /\ Goto(p, "ready")
  /\ UNCHANGED <<naming, tables, status, author, self, batch>>

(* Mutant of CachedIdentity: without a cached identity one is made up.     *)
CachedIdentityOrNew(p) ==
  IF kept[p].identity # {} THEN kept[p].identity
  ELSE {CHOOSE i \in Identity : i.client_id # OfflineIdentity[device_of[p]].client_id}

(* What open goes on with if whoami cannot be reached, if anything.        *)
CachedIdentity(p) == kept[p].identity

(* No answer: the request got nowhere, or its answer was lost.             *)
NetworkDown(p) ==
  /\ pc[p] \in Asking
  /\ IF pc[p] = "whoami" THEN /\ Become(p, CachedIdentity(p))
                              /\ Goto(p, IF CachedIdentity(p) = {} THEN "closed" ELSE "ready")
     ELSE Goto(p, "ready") /\ UNCHANGED self
  /\ Keep(p, Nothing)
  /\ batch' = [batch EXCEPT ![p] = {}]
  /\ UNCHANGED <<naming, tables, idb>>

(* open_offline: the identity is the application's, and the cursor None.   *)
OpenOffline(p) ==
  LET d == device_of[p]
  IN  /\ pc[p] = "closed"
      /\ stored' = [stored EXCEPT ![d] = {OfflineIdentity[d]}]
      /\ cursor' = [cursor EXCEPT ![d] = 0]
      /\ Become(p, {OfflineIdentity[d]})
      /\ had' = [had EXCEPT ![d] = @ \cup {OfflineIdentity[d]}]
      /\ Goto(p, "ready")
      /\ UNCHANGED <<assigned, moves, tables, status, author, kept, batch>>

(* The page is closed; the server drops its request.                       *)
Close(p) ==
  /\ pc[p] # "closed"
  /\ Become(p, {})
  /\ Keep(p, Nothing)
  /\ batch' = [batch EXCEPT ![p] = {}]
  /\ Goto(p, "closed")
  /\ UNCHANGED <<naming, tables, idb>>
-----------------------------------------------------------------------------
(* Using it.                                                               *)

(* save, signed with the identity of this repository.                      *)
Save(p, w) ==
  /\ pc[p] = "ready" /\ status[w] = "absent" /\ written_on[w] = device_of[p]
  /\ author' = [author EXCEPT ![w] = {i.client_id : i \in self[p]}]
  /\ status' = [status EXCEPT ![w] = "Pending"]
  /\ UNCHANGED <<naming, tables, stored, cursor, request, self, kept, batch>>

(* push_pending: nothing is sent if nothing is pending.                    *)
StartSync(p) ==
  LET pending == {w \in RevisionId : status[w] = "Pending" /\ written_on[w] = device_of[p]}
  IN  /\ pc[p] = "ready"
      /\ batch' = [batch EXCEPT ![p] = pending]
      /\ Goto(p, IF pending = {} THEN "pull" ELSE "push")
      /\ UNCHANGED <<naming, tables, idb, self, kept>>

(* What the server accepts of the push of page p: the caller's own new     *)
(* revisions.                                                              *)
Accepted(p) == {w \in batch[p] \ committed : author[w] = ActsFor(p)}

StorePush(p) ==
  /\ committed' = committed \cup Accepted(p)
  /\ latest' = IF Accepted(p) = {} THEN latest ELSE latest + 1

push_changes(p) ==
  /\ pc[p] = "push" /\ stage[p] = "handle"
  /\ StorePush(p)
  /\ status' = [w \in RevisionId |->
                  IF w \notin batch[p] THEN status[w]
                  ELSE IF w \in Accepted(p) THEN "Synced"
                  ELSE IF author[w] # ActsFor(p) THEN "Malformed" ELSE "Duplicate"]
  /\ batch' = [batch EXCEPT ![p] = {}]
  /\ Goto(p, "pull")
  /\ UNCHANGED <<naming, users, stored, cursor, author, self, kept>>

(* The push is stored, and its answer lost.                                *)
PushUnanswered(p) ==
  /\ pc[p] = "push" /\ stage[p] = "handle"
  /\ StorePush(p)
  /\ batch' = [batch EXCEPT ![p] = {}]
  /\ Goto(p, "ready")
  /\ UNCHANGED <<naming, users, idb, self, kept>>

(* Mutant of UpTo: the transaction to come.                                *)
UpToNext == latest + 1

(* up_to_transaction of a pull.                                            *)
UpTo == latest

(* The updates are applied; up_to_transaction is kept until it is stored.  *)
pull_changes(p) ==
  /\ pc[p] = "pull" /\ stage[p] = "handle"
  /\ Keep(p, [identity |-> {}, txn |-> UpTo])
  /\ Goto(p, "read")
  /\ UNCHANGED <<naming, tables, idb, self, batch>>

(* The end of pull_updates: the identity is read in one transaction ...    *)
ReadState(p) ==
  /\ pc[p] = "read"
  /\ Keep(p, [kept[p] EXCEPT !.identity = stored[device_of[p]]])
  /\ Goto(p, "write")
  /\ UNCHANGED <<naming, tables, idb, self, batch>>

(* Mutant of WriteBack: the user is the one this repository was opened as. *)
WriteBackOwnUser(p) ==
  {[client_id |-> i.client_id, user_id |-> j.user_id] : i \in kept[p].identity, j \in self[p]}

WriteBack(p) == kept[p].identity

(* ... and written back with the cursor in another, if there was one.      *)
WriteState(p) ==
  LET d == device_of[p]
  IN  /\ pc[p] = "write"
      /\ IF kept[p].identity = {} THEN UNCHANGED <<stored, cursor>>
         ELSE /\ stored' = [stored EXCEPT ![d] = WriteBack(p)]
              /\ cursor' = [cursor EXCEPT ![d] = kept[p].txn]
      /\ Keep(p, Nothing)
      /\ Goto(p, "ready")
      /\ UNCHANGED <<naming, tables, status, author, self, batch>>

-----------------------------------------------------------------------------
ServerStep(p) ==
  \/ Authenticate(p) \/ Unauthenticated(p) \/ upsert_client(p)
  \/ whoami(p) \/ push_changes(p) \/ pull_changes(p)

PageStep(p) == Open(p) \/ Identify(p) \/ StartSync(p) \/ ReadState(p) \/ WriteState(p)

Fault(p) ==
  ProviderError(p) \/ UpsertFails(p) \/ NetworkDown(p) \/ PushUnanswered(p) \/ Close(p)

Next ==
  \/ \E i \in Address : \E identity \in Option(Identities[i]) : Reprovision(i, identity)
  \/ \E p \in Page :
       \/ ServerStep(p) \/ PageStep(p) \/ Fault(p)
       \/ OpenOffline(p) \/ \E w \in RevisionId : Save(p, w)

Spec == Init /\ [][Next]_vars

(* Requests and pages go on, a closed page is opened again and an open one *)
(* synced again, and from some point on nothing fails.  (A request that is *)
(* lost may leave what its refusal would have left.)                       *)
Fairness ==
  /\ \A p \in Page : WF_vars(ServerStep(p)) /\ WF_vars(PageStep(p))
  /\ <>[][\A p \in Page : Fault(p) => ServerStep(p)]_vars

FairSpec == Spec /\ Fairness
-----------------------------------------------------------------------------
(* The clients table knows everybody who ever wrote: revisions.created_by  *)
(* references it, so a push by an unregistered client would fail as a      *)
(* whole.                                                                  *)
AuthorsRegistered == \A w \in committed : \A c \in author[w] : users[c] # {}

(* A revision is refused as somebody else's only on a device that has had  *)
(* more than one client id: its requests were authenticated as two, or as  *)
(* one and it was opened offline as another, whichever way the identity    *)
(* went through cache, pages and requests.  What the provider said while   *)
(* nobody asked, and a change of the user alone, cost nothing.             *)
RefusedOnlyIfMoved ==
  \A w \in RevisionId : status[w] = "Malformed" =>
    \E i, j \in had[written_on[w]] : i.client_id # j.client_id

(* The cached identity is one that a request of this device was            *)
(* authenticated as or the application opened it offline as, never a       *)
(* mixture of two, although pages write it back without looking at what it *)
(* has become.  It may be an old one.                                      *)
CachedIdentityIssued ==
  \A d \in Device : stored[d] \subseteq had[d]

(* An open repository has a cached identity: without one pull_updates      *)
(* would not store the cursor, and every sync would pull everything again. *)
SyncsAreRecorded ==
  \A p \in Page : pc[p] \notin {"closed", "whoami", "identify"} => stored[device_of[p]] # {}

(* The clients table ends up with the user the provider names, although    *)
(* requests that were authenticated before a change may register after it. *)
UsersFollow ==
  <>[](\A d \in Device : \A a \in extract_ip(d) : \A i \in assigned[a] :
         users[i.client_id] = {i.user_id})
=============================================================================
