------------------------ MODULE DeviceIdentityProofs ------------------------
(***************************************************************************)
(* Proofs about DeviceIdentity, for any devices, pages, addresses and      *)
(* identities, however often the naming changes its mind.                *)
(***************************************************************************)
EXTENDS DeviceIdentity, TLAPS

LEMMA OptionOf ==
  ASSUME NEW S, NEW T \in Option(S)
  PROVE  T \subseteq S /\ (T = {} \/ \E x \in S : T = {x})
BY DEF Option

(* Projections of an optional identity.                                    *)
LEMMA OptionParts ==
  ASSUME NEW T \in Option(Identity)
  PROVE  /\ {i.client_id : i \in T} \in Option(Client)
         /\ {i.user_id : i \in T} \in Option(User)
         /\ T # {} => {i.client_id : i \in T} # {} /\ {i.user_id : i \in T} # {}
<1>1. CASE T = {}
  BY <1>1 DEF Option
<1>2. ASSUME NEW x \in Identity, T = {x}
      PROVE /\ {i.client_id : i \in T} \in Option(Client)
            /\ {i.user_id : i \in T} \in Option(User)
            /\ T # {} => {i.client_id : i \in T} # {} /\ {i.user_id : i \in T} # {}
  <2>1. x.client_id \in Client /\ x.user_id \in User
    BY DEF Identity
  <2>2. {i.client_id : i \in T} = {x.client_id} /\ {i.user_id : i \in T} = {x.user_id}
    BY <1>2
  <2> QED BY <2>1, <2>2 DEF Option
<1> QED BY <1>1, <1>2, OptionOf

LEMMA ExtractIp ==
  ASSUME NEW d \in Device
  PROVE  extract_ip(d) \in Option(Address)
<1> USE DeviceIdentityAssumption DEF extract_ip, Option
<1>1. CASE ip_source = "ConnectInfo"
  BY <1>1
<1>2. CASE ip_source = "RealIp"
  BY <1>2
<1>3. CASE ip_source = "ForwardedFor"
  <2>1. forwarded_for[d] \in Seq(Address)
    OBVIOUS
  <2>2. CASE 1 \in DOMAIN forwarded_for[d]
    <3>1. {forwarded_for[d][i] : i \in {1} \cap DOMAIN forwarded_for[d]} = {forwarded_for[d][1]}
      BY <2>2
    <3>2. forwarded_for[d][1] \in Address
      BY <2>1, <2>2
    <3> QED BY <1>3, <3>1, <3>2
  <2>3. CASE 1 \notin DOMAIN forwarded_for[d]
    BY <1>3, <2>3
  <2> QED BY <2>2, <2>3
<1> QED BY <1>1, <1>2, <1>3 DEF IpSource

LEMMA CallerType ==
  ASSUME TypeOK, NEW p \in Page
  PROVE  Caller(p) \in Option(Identity)
<1> DEFINE A == extract_ip(device_of[p])
<1>1. A \in Option(Address)
  BY ExtractIp, DeviceIdentityAssumption
<1>2. CASE A = {}
  BY <1>2 DEF Caller, Option
<1>3. ASSUME NEW a \in Address, A = {a} PROVE Caller(p) \in Option(Identity)
  <2>1. Caller(p) = assigned[a]
    BY <1>3 DEF Caller
  <2> QED BY <2>1 DEF TypeOK
<1> QED BY <1>1, <1>2, <1>3, OptionOf
-----------------------------------------------------------------------------
LEMMA GotoType ==
  ASSUME TypeOK, NEW p \in Page, NEW label, Goto(p, label),
         label \in {"closed", "ready", "identify", "read", "write"} \cup Asking
  PROVE  /\ pc' \in [Page -> {"closed", "ready", "identify", "read", "write"} \cup Asking]
         /\ stage' \in [Page -> {"none", "auth", "upsert", "handle"}]
         /\ info' \in [Page -> Option(Identity)]
BY DEF Goto, TypeOK, Option

LEMMA RefusedType ==
  ASSUME TypeOK, NEW p \in Page, Refused(p)
  PROVE  TypeOK'
<1>1. Nothing \in [identity : Option(Identity), txn : 0 .. latest]
  BY DEF TypeOK, Nothing, Option
<1>2. PICK label : Goto(p, label) /\ label \in {"closed", "ready"}
  BY DEF Refused
<1> QED BY <1>1, <1>2, GotoType DEF Refused, TypeOK, naming, tables, idb

LEMMA TypeStep == TypeOK /\ [Next]_vars => TypeOK'
<1> SUFFICES ASSUME TypeOK, [Next]_vars PROVE TypeOK'
  OBVIOUS
<1> USE DEF naming, tables, idb, request, Become, Keep
<1>0. /\ Nothing \in [identity : Option(Identity), txn : 0 .. latest]
      /\ latest \in Nat /\ device_of \in [Page -> Device]
      /\ OfflineIdentity \in [Device -> Identity]
      /\ \A x \in Identity : {x} \in Option(Identity)
      /\ {} \in Option(Identity)
  BY DeviceIdentityAssumption DEF TypeOK, Nothing, Option
<1>1. ASSUME NEW i \in Address, NEW identity \in Option(Identities[i]), Reprovision(i, identity)
      PROVE TypeOK'
  <2>1. identity \in Option(Identity) /\ identity \subseteq Identity
    BY DeviceIdentityAssumption, OptionOf DEF Option
  <2> QED BY <1>1, <2>1, DeviceIdentityAssumption DEF Reprovision, TypeOK
<1>2. ASSUME NEW p \in Page, Authenticate(p) PROVE TypeOK'
  <2>1. Caller(p) \in Option(Identity) /\ Caller(p) \subseteq Identity
    BY CallerType, OptionOf
  <2> QED BY <1>2, <2>1 DEF Authenticate, TypeOK
<1>3. ASSUME NEW p \in Page,
             Unauthenticated(p) \/ ProviderError(p) \/ UpsertFails(p)
      PROVE TypeOK'
  BY <1>3, RefusedType DEF Unauthenticated, ProviderError, UpsertFails
<1>4. ASSUME NEW p \in Page, upsert_client(p) PROVE TypeOK'
  <2>1. {i.user_id : i \in info[p]} \in Option(User)
    BY OptionParts DEF TypeOK
  <2> QED BY <1>4, <2>1 DEF upsert_client, Register, TypeOK
<1>5. ASSUME NEW p \in Page, Open(p) PROVE TypeOK'
  BY <1>0, <1>5, GotoType DEF Open, TypeOK, Asking
<1>6. ASSUME NEW p \in Page, whoami(p) PROVE TypeOK'
  BY <1>6, GotoType DEF whoami, TypeOK
<1>7. ASSUME NEW p \in Page, Identify(p) PROVE TypeOK'
  <2>1. stored' \in [Device -> Option(Identity)] /\ cursor' \in [Device -> 0 .. latest]
    BY <1>0, <1>7 DEF Identify, StoreIdentity, TypeOK
  <2> QED BY <1>0, <1>7, <2>1, GotoType DEF Identify, TypeOK
<1>8. ASSUME NEW p \in Page, NetworkDown(p) PROVE TypeOK'
  <2>1. PICK label : Goto(p, label) /\ label \in {"closed", "ready"}
    BY <1>8 DEF NetworkDown
  <2>2. self' \in [Page -> Option(Identity)]
    BY <1>8 DEF NetworkDown, CachedIdentity, TypeOK
  <2> QED BY <1>0, <1>8, <2>1, <2>2, GotoType DEF NetworkDown, TypeOK
<1>9. ASSUME NEW p \in Page, OpenOffline(p) PROVE TypeOK'
  <2>1. {OfflineIdentity[device_of[p]]} \in Option(Identity)
    BY <1>0
  <2> QED BY <1>0, <1>9, <2>1, GotoType DEF OpenOffline, TypeOK
<1>10. ASSUME NEW p \in Page, Close(p) PROVE TypeOK'
  BY <1>0, <1>10, GotoType DEF Close, TypeOK
<1>11. ASSUME NEW p \in Page, NEW w \in RevisionId, Save(p, w) PROVE TypeOK'
  <2>1. {i.client_id : i \in self[p]} \in Option(Client)
    BY OptionParts DEF TypeOK
  <2> QED BY <1>11, <2>1 DEF Save, TypeOK
<1>12. ASSUME NEW p \in Page, StartSync(p) PROVE TypeOK'
  <2>1. PICK label : Goto(p, label) /\ label \in Asking
    BY <1>12 DEF StartSync, Asking
  <2> QED BY <1>12, <2>1, GotoType DEF StartSync, TypeOK
<1>13. ASSUME NEW p \in Page, push_changes(p) \/ PushUnanswered(p) PROVE TypeOK'
  <2>1. PICK label : Goto(p, label) /\ label \in {"pull", "ready"}
    BY <1>13 DEF push_changes, PushUnanswered
  <2>2. /\ committed' \subseteq RevisionId /\ latest' \in Nat
        /\ cursor' \in [Device -> 0 .. latest']
        /\ kept' \in [Page -> [identity : Option(Identity), txn : 0 .. latest']]
    <3>1. 0 .. latest \subseteq 0 .. latest' /\ latest' \in Nat
      BY <1>0, <1>13 DEF push_changes, PushUnanswered, StorePush
    <3>2. committed' \subseteq RevisionId
      BY <1>13 DEF push_changes, PushUnanswered, StorePush, Accepted, TypeOK
    <3> QED BY <1>13, <3>1, <3>2 DEF push_changes, PushUnanswered, TypeOK
  <2>3. status' \in [RevisionId -> {"absent", "Pending", "Synced", "Duplicate", "Malformed"}]
    BY <1>13 DEF push_changes, PushUnanswered, TypeOK
  <2> QED BY <1>13, <2>1, <2>2, <2>3, GotoType DEF push_changes, PushUnanswered, TypeOK, Asking
<1>14. ASSUME NEW p \in Page, pull_changes(p) PROVE TypeOK'
  BY <1>0, <1>14, GotoType DEF pull_changes, UpTo, TypeOK
<1>15. ASSUME NEW p \in Page, ReadState(p) PROVE TypeOK'
  BY <1>0, <1>15, GotoType DEF ReadState, TypeOK
<1>16. ASSUME NEW p \in Page, WriteState(p) PROVE TypeOK'
  <2>1. /\ kept[p].identity \in Option(Identity) /\ kept[p].txn \in 0 .. latest
        /\ device_of[p] \in Device
    BY <1>0 DEF TypeOK
  <2>2. stored' \in [Device -> Option(Identity)]
    BY <1>16, <2>1 DEF WriteState, WriteBack, TypeOK
  <2>3. cursor' \in [Device -> 0 .. latest]
    BY <1>16, <2>1 DEF WriteState, TypeOK
  <2> QED BY <1>0, <1>16, <2>2, <2>3, GotoType DEF WriteState, TypeOK
<1>17. CASE UNCHANGED vars
  BY <1>17 DEF vars, TypeOK
<1> QED
  BY <1>1, <1>2, <1>3, <1>4, <1>5, <1>6, <1>7, <1>8, <1>9, <1>10, <1>11, <1>12, <1>13, <1>14,
     <1>15, <1>16, <1>17
  DEF Next, ServerStep, PageStep, Fault

LEMMA TypeInit == Init => TypeOK
<1> SUFFICES ASSUME Init PROVE TypeOK
  OBVIOUS
<1>2. had \in [Device -> SUBSET Identity]
  BY DEF Init
<1>3. \A S : {} \in Option(S)
  BY DEF Option
<1>4. Nothing \in [identity : Option(Identity), txn : 0 .. latest]
  BY <1>3 DEF Init, Nothing
<1> QED BY <1>2, <1>3, <1>4, DeviceIdentityAssumption DEF Init, TypeOK

(* Every table, store and local keeps its type; of an identity, a client   *)
(* and a user there is never more than one.                                *)
THEOREM TypeCorrect == Spec => []TypeOK
BY TypeInit, TypeStep, PTL DEF Spec
-----------------------------------------------------------------------------
(***************************************************************************)
(* The inductive invariant.  An identity passes through a request, a page  *)
(* and IndexedDB before it signs a revision, and each of them may be stale *)
(* when the next one takes it over; what holds of all of them is that the  *)
(* device had it at some time.                                             *)
(***************************************************************************)
(* What page p holds: identities its device has had, a registered client   *)
(* once its request is handled, and, once it is open, an identity that is  *)
(* also cached.                                                            *)
PageOK(p) ==
  LET d == device_of[p]
  IN  /\ info[p] \subseteq had[d]
      /\ self[p] \subseteq had[d]
      /\ kept[p].identity \subseteq had[d]
      /\ stage[p] # "none" => pc[p] \in Asking
      /\ stage[p] \in {"upsert", "handle"} => info[p] # {}
      /\ stage[p] = "handle" => \A i \in info[p] : users[i.client_id] # {}
      /\ pc[p] \notin {"closed", "whoami"} => self[p] # {}
      /\ pc[p] \notin {"closed", "whoami", "identify"} => stored[d] # {}
      /\ kept[p].identity # {} => stored[d] # {}
      /\ \A w \in batch[p] : written_on[w] = d /\ status[w] # "absent"

Moved(d) == \E i, j \in had[d] : i.client_id # j.client_id

(* A written revision is signed, as one its device has been; a             *)
(* committed one by a registered client.                                   *)
WrittenOK(w) ==
  /\ status[w] # "absent" => author[w] # {}
  /\ author[w] \subseteq {i.client_id : i \in had[written_on[w]]}
  /\ w \in committed => status[w] # "absent" /\ \A c \in author[w] : users[c] # {}
  /\ status[w] = "Malformed" => Moved(written_on[w])

Inv ==
  /\ TypeOK
  /\ \A d \in Device : stored[d] \subseteq had[d]
  /\ \A p \in Page : PageOK(p)
  /\ \A w \in RevisionId : WrittenOK(w)

(* What no step takes back.                                                *)
Grows ==
  /\ \A d \in Device : had[d] \subseteq had'[d]
  /\ \A c \in Client : users[c] # {} => users'[c] # {}
  /\ \A d \in Device : stored[d] # {} => stored'[d] # {}
  /\ \A w \in RevisionId :
       status[w] # "absent" => status'[w] # "absent" /\ author'[w] = author[w]

SamePage(p) ==
  /\ pc'[p] = pc[p] /\ stage'[p] = stage[p] /\ info'[p] = info[p]
  /\ self'[p] = self[p] /\ kept'[p] = kept[p] /\ batch'[p] = batch[p]

LEMMA InfoClients ==
  ASSUME TypeOK, NEW p \in Page, NEW i \in info[p]
  PROVE  i.client_id \in Client
<1>1. info[p] \subseteq Identity
  BY OptionOf DEF TypeOK
<1> QED BY <1>1 DEF Identity

LEMMA PageFrame ==
  ASSUME TypeOK, Grows, NEW p \in Page, PageOK(p), SamePage(p)
  PROVE  PageOK(p)'
<1>1. device_of[p] \in Device
  BY DeviceIdentityAssumption
<1>2. \A i \in info[p] : i.client_id \in Client
  BY InfoClients
<1>3. \A w \in batch[p] : w \in RevisionId
  BY DEF TypeOK
<1> QED BY <1>1, <1>2, <1>3 DEF PageOK, SamePage, Grows

LEMMA WrittenFrame ==
  ASSUME TypeOK, Grows, NEW w \in RevisionId, WrittenOK(w),
         status'[w] = status[w], author'[w] = author[w], w \in committed' => w \in committed
  PROVE  WrittenOK(w)'
<1>1. written_on[w] \in Device
  BY DeviceIdentityAssumption
<1>2. author[w] \subseteq Client
  BY OptionOf DEF TypeOK
<1>3. had[written_on[w]] \subseteq had'[written_on[w]]
  BY <1>1 DEF Grows
<1>4. Moved(written_on[w]) => Moved(written_on[w])'
  BY <1>3 DEF Moved
<1> QED BY <1>2, <1>3, <1>4 DEF WrittenOK, Grows

(* A step of page p that neither writes nor commits a revision only has to *)
(* care for p and for the identity it stores.                              *)
LEMMA PageOnly ==
  ASSUME Inv, TypeOK', Grows, UNCHANGED <<committed, status, author>>,
         NEW p \in Page, \A q \in Page \ {p} : SamePage(q), PageOK(p)',
         \A d \in Device : stored'[d] \subseteq had'[d]
  PROVE  Inv'
<1>1. \A q \in Page : PageOK(q)'
  BY PageFrame DEF Inv
<1>2. \A w \in RevisionId : WrittenOK(w)'
  BY WrittenFrame DEF Inv
<1> QED BY <1>1, <1>2 DEF Inv
-----------------------------------------------------------------------------
(* The identity a page ends up with is not nothing.                        *)
LEMMA StoredKept ==
  ASSUME Inv, NEW p \in Page, Identify(p) \/ WriteState(p) \/ OpenOffline(p)
  PROVE  /\ stored'[device_of[p]] # {}
         /\ \A d \in Device : stored[d] # {} => stored'[d] # {}
         /\ \A d \in Device : stored'[d] \subseteq had'[d]
<1>0. TypeOK /\ PageOK(p) /\ device_of[p] \in Device
  BY DeviceIdentityAssumption DEF Inv
<1> USE DEF naming
<1>1. CASE Identify(p)
  <2>1. self[p] # {} /\ self[p] \subseteq had[device_of[p]]
    BY <1>0, <1>1 DEF Identify, PageOK
  <2>2. CASE kept[p].identity = self[p]
    <3>1. stored[device_of[p]] # {}
      BY <1>0, <2>1, <2>2 DEF PageOK
    <3> QED BY <1>1, <2>2, <3>1 DEF Identify, StoreIdentity, Inv
  <2>3. CASE kept[p].identity # self[p]
    <3>1. stored' = [stored EXCEPT ![device_of[p]] = self[p]] /\ had' = had
      BY <1>1, <2>3 DEF Identify, StoreIdentity
    <3> QED BY <1>0, <2>1, <3>1 DEF Inv, TypeOK
  <2> QED BY <2>2, <2>3
<1>2. CASE WriteState(p)
  <2>1. CASE kept[p].identity = {}
    BY <1>0, <1>2, <2>1 DEF WriteState, PageOK, Inv
  <2>2. CASE kept[p].identity # {}
    <3>1. stored' = [stored EXCEPT ![device_of[p]] = kept[p].identity] /\ had' = had
      BY <1>2, <2>2 DEF WriteState, WriteBack
    <3> QED BY <1>0, <2>2, <3>1 DEF Inv, TypeOK, PageOK
  <2> QED BY <2>1, <2>2
<1>3. CASE OpenOffline(p)
  BY <1>0, <1>3 DEF OpenOffline, Inv, TypeOK
<1> QED BY <1>1, <1>2, <1>3

(* A registered client stays registered.                                   *)
LEMMA UsersKept ==
  ASSUME Inv, NEW p \in Page, upsert_client(p)
  PROVE  /\ \A c \in Client : users[c] # {} => users'[c] # {}
         /\ \A i \in info[p] : users'[i.client_id] # {}
<1>1. info[p] \in Option(Identity) /\ info[p] # {}
  BY DEF Inv, TypeOK, upsert_client, PageOK
<1>2. {i.user_id : i \in info[p]} # {}
  BY <1>1, OptionParts
<1>3. \A i \in info[p] : i.client_id \in Client
  BY InfoClients DEF Inv
<1> QED BY <1>2, <1>3 DEF upsert_client, Register
-----------------------------------------------------------------------------
(* Where a page goes: Goto forgets the request before it sends a new one.  *)
LEMMA GotoFacts ==
  ASSUME TypeOK, NEW p \in Page, NEW label, Goto(p, label)
  PROVE  /\ pc'[p] = label /\ info'[p] = {} /\ stage'[p] \in {"auth", "none"}
         /\ stage'[p] # "none" => label \in Asking
         /\ \A q \in Page \ {p} :
              pc'[q] = pc[q] /\ stage'[q] = stage[q] /\ info'[q] = info[q]
BY DEF Goto, TypeOK

(* Steps of page p between requests, and answers to them, that leave the   *)
(* tables and the revisions alone.                                         *)
LEMMA Moves ==
  ASSUME Inv, TypeOK', UNCHANGED <<users, committed, status, author>>,
         \A d \in Device : had[d] \subseteq had'[d],
         NEW p \in Page, NEW label, Goto(p, label),
         \A q \in Page \ {p} :
           self'[q] = self[q] /\ kept'[q] = kept[q] /\ batch'[q] = batch[q],
         \A d \in Device : stored[d] # {} => stored'[d] # {},
         \A d \in Device : stored'[d] \subseteq had'[d],
         self'[p] \subseteq had'[device_of[p]],
         kept'[p].identity \subseteq had'[device_of[p]],
         label \notin {"closed", "whoami"} => self'[p] # {},
         label \notin {"closed", "whoami", "identify"} => stored'[device_of[p]] # {},
         kept'[p].identity # {} => stored'[device_of[p]] # {},
         \A w \in batch'[p] : written_on[w] = device_of[p] /\ status[w] # "absent"
  PROVE  Inv'
<1>0. TypeOK
  BY DEF Inv
<1>1. /\ pc'[p] = label /\ info'[p] = {} /\ stage'[p] \in {"auth", "none"}
      /\ stage'[p] # "none" => label \in Asking
      /\ \A q \in Page \ {p} : SamePage(q)
  BY <1>0, GotoFacts DEF SamePage
<1>3. Grows
  BY DEF Grows
<1>4. PageOK(p)'
  BY <1>1 DEF PageOK
<1> QED BY <1>1, <1>3, <1>4, PageOnly

(* The page forgets what it kept of the stores.                            *)
LEMMA NothingKept == Nothing.identity = {}
BY DEF Nothing

LEMMA RefusedInv ==
  ASSUME Inv, TypeOK', NEW p \in Page, stage[p] # "none", Refused(p)
  PROVE  Inv'
<1>0. TypeOK /\ PageOK(p)
  BY DEF Inv
<1>1. PICK label : /\ Goto(p, label) /\ label \in {"closed", "ready"}
                   /\ label = "ready" => pc[p] \in {"push", "pull"}
  BY <1>0 DEF Refused, PageOK, Asking
<1>2. /\ UNCHANGED <<had, users, committed, status, author, stored, self>>
      /\ kept'[p].identity = {} /\ batch'[p] = {}
      /\ \A q \in Page \ {p} : kept'[q] = kept[q] /\ batch'[q] = batch[q]
  BY <1>0, NothingKept DEF Refused, naming, tables, idb, TypeOK
<1>3. \A d \in Device : stored[d] \subseteq had[d]
  BY DEF Inv
<1>4. /\ self[p] \subseteq had[device_of[p]]
      /\ label = "ready" => self[p] # {} /\ stored[device_of[p]] # {}
  BY <1>0, <1>1 DEF PageOK
<1> QED BY <1>1, <1>2, <1>3, <1>4, Moves

LEMMA ReprovisionInv ==
  ASSUME Inv, TypeOK', NEW i \in Address, NEW identity, Reprovision(i, identity)
  PROVE  Inv'
<1> USE DEF Reprovision, tables, idb, request
<1>0. TypeOK
  BY DEF Inv
<1>3. Grows
  BY DEF Grows
<1>4. \A p \in Page : SamePage(p)
  BY DEF SamePage
<1>5. \A p \in Page : PageOK(p)'
  BY <1>0, <1>3, <1>4, PageFrame DEF Inv
<1>6. \A w \in RevisionId : WrittenOK(w)'
  BY <1>0, <1>3, WrittenFrame DEF Inv
<1> QED BY <1>5, <1>6 DEF Inv

LEMMA AuthenticateInv ==
  ASSUME Inv, TypeOK', NEW p \in Page, Authenticate(p)
  PROVE  Inv'
<1> USE DEF Authenticate, tables, idb
<1>0. TypeOK /\ PageOK(p) /\ device_of[p] \in Device
  BY DeviceIdentityAssumption DEF Inv
<1>1. /\ UNCHANGED <<users, committed, status, author, stored, self, kept, batch, pc>>
      /\ stage[p] = "auth" /\ stage'[p] = "upsert" /\ info'[p] = Caller(p) /\ Caller(p) # {}
      /\ \A q \in Page \ {p} : SamePage(q)
  BY <1>0 DEF TypeOK, SamePage
<1>2. Caller(p) \subseteq had'[device_of[p]] /\ \A d \in Device : had[d] \subseteq had'[d]
  BY <1>0 DEF TypeOK
<1>3. Grows
  BY <1>1, <1>2 DEF Grows
<1>4. PageOK(p)'
  BY <1>0, <1>1, <1>2 DEF PageOK
<1>5. \A d \in Device : stored'[d] \subseteq had'[d]
  BY <1>1, <1>2 DEF Inv
<1> QED BY <1>1, <1>3, <1>4, <1>5, PageOnly

LEMMA UpsertInv ==
  ASSUME Inv, TypeOK', NEW p \in Page, upsert_client(p)
  PROVE  Inv'
<1>0. TypeOK /\ PageOK(p)
  BY DEF Inv
<1>1. /\ UNCHANGED <<had, committed, status, author, stored, self, kept, batch,
                     pc, info>>
      /\ stage[p] = "upsert" /\ stage'[p] = "handle"
      /\ \A q \in Page \ {p} : SamePage(q)
  BY <1>0 DEF upsert_client, naming, idb, TypeOK, SamePage
<1>2. \A d : had'[d] = had[d]
  BY <1>1
<1>3. Grows
  BY <1>1, <1>2, UsersKept DEF Grows
<1>4. PageOK(p)'
  BY <1>0, <1>1, <1>2, UsersKept DEF PageOK
<1>5. \A d \in Device : stored'[d] \subseteq had'[d]
  BY <1>1 DEF Inv
<1> QED BY <1>1, <1>3, <1>4, <1>5, PageOnly

(* The steps of opening and closing a repository.                          *)
LEMMA OpeningInv ==
  ASSUME Inv, TypeOK', NEW p \in Page,
         \/ Open(p) \/ whoami(p) \/ Identify(p) \/ NetworkDown(p) \/ OpenOffline(p) \/ Close(p)
  PROVE  Inv'
<1> USE DEF naming, tables, idb, Become, Keep
<1> DEFINE d == device_of[p]
<1>0. TypeOK /\ PageOK(p) /\ d \in Device /\ Nothing.identity = {}
  BY DeviceIdentityAssumption, NothingKept DEF Inv
<1>1. \A e \in Device : stored[e] \subseteq had[e]
  BY DEF Inv
<1>2. CASE Open(p)
  <2>1. /\ UNCHANGED <<had, users, committed, status, author, stored, self, batch>>
        /\ Goto(p, "whoami") /\ kept'[p].identity = stored[d]
        /\ \A q \in Page \ {p} : kept'[q] = kept[q]
    BY <1>0, <1>2 DEF Open, TypeOK
  <2>2. /\ self[p] \subseteq had[d]
        /\ \A w \in batch[p] : written_on[w] = d /\ status[w] # "absent"
    BY <1>0 DEF PageOK
  <2> QED BY <1>0, <1>1, <2>1, <2>2, Moves
<1>3. CASE whoami(p)
  <2>1. /\ UNCHANGED <<had, users, committed, status, author, stored, kept, batch>>
        /\ Goto(p, "identify") /\ self'[p] = info[p]
        /\ \A q \in Page \ {p} : self'[q] = self[q]
    BY <1>0, <1>3 DEF whoami, TypeOK
  <2>2. /\ info[p] \subseteq had[d] /\ info[p] # {}
        /\ kept[p].identity \subseteq had[d]
        /\ kept[p].identity # {} => stored[d] # {}
        /\ \A w \in batch[p] : written_on[w] = d /\ status[w] # "absent"
    BY <1>0, <1>3 DEF whoami, PageOK
  <2> QED BY <1>0, <1>1, <2>1, <2>2, Moves
<1>4. CASE Identify(p)
  <2>1. /\ UNCHANGED <<had, users, committed, status, author, self, batch>>
        /\ Goto(p, "ready") /\ kept'[p].identity = {}
        /\ \A q \in Page \ {p} : kept'[q] = kept[q]
    BY <1>0, <1>4 DEF Identify, TypeOK
  <2>2. /\ self[p] \subseteq had[d] /\ self[p] # {}
        /\ \A w \in batch[p] : written_on[w] = d /\ status[w] # "absent"
    BY <1>0, <1>4 DEF Identify, PageOK
  <2>3. /\ stored'[d] # {}
        /\ \A e \in Device : stored[e] # {} => stored'[e] # {}
        /\ \A e \in Device : stored'[e] \subseteq had'[e]
    BY <1>4, StoredKept
  <2> QED BY <1>0, <2>1, <2>2, <2>3, Moves
<1>5. CASE NetworkDown(p)
  <2>1. /\ UNCHANGED <<had, users, committed, status, author, stored>>
        /\ kept'[p].identity = {} /\ batch'[p] = {}
        /\ \A q \in Page \ {p} :
             self'[q] = self[q] /\ kept'[q] = kept[q] /\ batch'[q] = batch[q]
    BY <1>0, <1>5 DEF NetworkDown, TypeOK
  <2>2. PICK label : /\ Goto(p, label) /\ label \in {"closed", "ready"}
                     /\ self'[p] \subseteq had[d]
                     /\ label = "ready" => self'[p] # {} /\ stored[d] # {}
    <3>1. CASE pc[p] = "whoami"
      <4>1. self'[p] = kept[p].identity
        BY <1>0, <1>5, <3>1 DEF NetworkDown, CachedIdentity, TypeOK
      <4>2. Goto(p, IF kept[p].identity = {} THEN "closed" ELSE "ready")
        BY <1>5, <3>1 DEF NetworkDown, CachedIdentity
      <4> QED BY <1>0, <4>1, <4>2 DEF PageOK
    <3>2. CASE pc[p] # "whoami"
      <4>1. Goto(p, "ready") /\ self' = self /\ pc[p] \in {"push", "pull"}
        BY <1>5, <3>2 DEF NetworkDown, Asking
      <4> QED BY <1>0, <4>1 DEF PageOK
    <3> QED BY <3>1, <3>2
  <2> QED BY <1>0, <1>1, <2>1, <2>2, Moves
<1>6. CASE OpenOffline(p)
  <2>1. /\ UNCHANGED <<users, committed, status, author, kept, batch>>
        /\ \A e \in Device : had[e] \subseteq had'[e]
        /\ Goto(p, "ready") /\ self'[p] = {OfflineIdentity[d]} /\ self'[p] \subseteq had'[d]
        /\ \A q \in Page \ {p} : self'[q] = self[q]
    BY <1>0, <1>6 DEF OpenOffline, TypeOK
  <2>2. /\ kept[p].identity \subseteq had[d]
        /\ \A w \in batch[p] : written_on[w] = d /\ status[w] # "absent"
    BY <1>0 DEF PageOK
  <2>3. /\ stored'[d] # {}
        /\ \A e \in Device : stored[e] # {} => stored'[e] # {}
        /\ \A e \in Device : stored'[e] \subseteq had'[e]
    BY <1>6, StoredKept
  <2> QED BY <1>0, <2>1, <2>2, <2>3, Moves
<1>7. CASE Close(p)
  <2>1. /\ UNCHANGED <<had, users, committed, status, author, stored>>
        /\ Goto(p, "closed")
        /\ self'[p] = {} /\ kept'[p].identity = {} /\ batch'[p] = {}
        /\ \A q \in Page \ {p} :
             self'[q] = self[q] /\ kept'[q] = kept[q] /\ batch'[q] = batch[q]
    BY <1>0, <1>7 DEF Close, TypeOK
  <2> QED BY <1>0, <1>1, <2>1, Moves
<1> QED BY <1>2, <1>3, <1>4, <1>5, <1>6, <1>7

(* The steps of a sync but for the push.                                   *)
LEMMA SyncingInv ==
  ASSUME Inv, TypeOK', NEW p \in Page,
         StartSync(p) \/ pull_changes(p) \/ ReadState(p) \/ WriteState(p)
  PROVE  Inv'
<1> USE DEF naming, tables, idb, Keep
<1> DEFINE d == device_of[p]
<1>0. TypeOK /\ PageOK(p) /\ d \in Device /\ Nothing.identity = {}
  BY DeviceIdentityAssumption, NothingKept DEF Inv
<1>1. \A e \in Device : stored[e] \subseteq had[e]
  BY DEF Inv
<1>2. /\ self[p] \subseteq had[d] /\ kept[p].identity \subseteq had[d]
      /\ kept[p].identity # {} => stored[d] # {}
      /\ \A w \in batch[p] : written_on[w] = d /\ status[w] # "absent"
      /\ pc[p] \in {"ready", "pull", "read", "write"} => self[p] # {} /\ stored[d] # {}
  BY <1>0 DEF PageOK
<1>3. CASE StartSync(p)
  <2>1. /\ UNCHANGED <<had, users, committed, status, author, stored, self, kept>>
        /\ \A w \in batch'[p] : written_on[w] = d /\ status[w] # "absent"
        /\ \A q \in Page \ {p} : batch'[q] = batch[q]
    BY <1>0, <1>3 DEF StartSync, TypeOK
  <2>2. PICK label : Goto(p, label)
    BY <1>3 DEF StartSync
  <2>3. pc[p] = "ready"
    BY <1>3 DEF StartSync
  <2> QED BY <1>0, <1>1, <1>2, <2>1, <2>2, <2>3, Moves
<1>4. CASE pull_changes(p)
  <2>1. /\ UNCHANGED <<had, users, committed, status, author, stored, self, batch>>
        /\ pc[p] = "pull" /\ Goto(p, "read") /\ kept'[p].identity = {}
        /\ \A q \in Page \ {p} : kept'[q] = kept[q]
    BY <1>0, <1>4 DEF pull_changes, TypeOK
  <2> QED BY <1>0, <1>1, <1>2, <2>1, Moves
<1>5. CASE ReadState(p)
  <2>1. /\ UNCHANGED <<had, users, committed, status, author, stored, self, batch>>
        /\ pc[p] = "read" /\ Goto(p, "write")
        /\ \A q \in Page \ {p} : kept'[q] = kept[q]
    BY <1>0, <1>5 DEF ReadState, TypeOK
  <2>2. kept'[p].identity = stored[d]
    BY <1>0, <1>5 DEF ReadState, TypeOK
  <2> QED BY <1>0, <1>1, <1>2, <2>1, <2>2, Moves
<1>6. CASE WriteState(p)
  <2>1. /\ UNCHANGED <<had, users, committed, status, author, self, batch>>
        /\ pc[p] = "write" /\ Goto(p, "ready") /\ kept'[p].identity = {}
        /\ \A q \in Page \ {p} : kept'[q] = kept[q]
    BY <1>0, <1>6 DEF WriteState, TypeOK
  <2>2. /\ stored'[d] # {}
        /\ \A e \in Device : stored[e] # {} => stored'[e] # {}
        /\ \A e \in Device : stored'[e] \subseteq had'[e]
    BY <1>6, StoredKept
  <2> QED BY <1>0, <1>2, <2>1, <2>2, Moves
<1> QED BY <1>3, <1>4, <1>5, <1>6

LEMMA SaveInv ==
  ASSUME Inv, TypeOK', NEW p \in Page, NEW w \in RevisionId, Save(p, w)
  PROVE  Inv'
<1> USE DEF naming, tables, request
<1>0. TypeOK /\ PageOK(p) /\ WrittenOK(w) /\ device_of[p] \in Device
  BY DeviceIdentityAssumption DEF Inv
<1>1. /\ UNCHANGED <<had, users, committed, stored, pc, stage, info, self, kept,
                     batch>>
      /\ pc[p] = "ready" /\ status[w] = "absent" /\ written_on[w] = device_of[p]
      /\ author'[w] = {i.client_id : i \in self[p]} /\ status'[w] = "Pending"
      /\ \A v \in RevisionId \ {w} : author'[v] = author[v] /\ status'[v] = status[v]
  BY <1>0 DEF Save, TypeOK
<1>2. \A d : had'[d] = had[d]
  BY <1>1
<1>3. Grows
  BY <1>1, <1>2 DEF Grows
<1>4. \A q \in Page : PageOK(q)'
  BY <1>0, <1>1, <1>3, PageFrame DEF Inv, SamePage
<1>5. ASSUME NEW v \in RevisionId \ {w} PROVE WrittenOK(v)'
  BY <1>0, <1>1, <1>3, WrittenFrame DEF Inv
<1>6. WrittenOK(w)'
  <2>1. self[p] \subseteq had[written_on[w]] /\ self[p] # {}
    BY <1>0, <1>1 DEF PageOK
  <2>2. author'[w] # {} /\ author'[w] \subseteq {i.client_id : i \in had[written_on[w]]}
    BY <1>1, <2>1
  <2>3. w \notin committed'
    BY <1>0, <1>1 DEF WrittenOK
  <2> QED BY <1>1, <1>2, <2>2, <2>3 DEF WrittenOK
<1>7. \A d \in Device : stored'[d] \subseteq had'[d]
  BY <1>1, <1>2 DEF Inv
<1> QED BY <1>1, <1>4, <1>5, <1>6, <1>7 DEF Inv

(* A refusal: two different non-empty sets of the client ids of a device   *)
(* show that it had two.                                                   *)
LEMMA TwoClients ==
  ASSUME NEW T, NEW A, NEW B, A # B, A # {}, B # {},
         A \subseteq {i.client_id : i \in T}, B \subseteq {i.client_id : i \in T}
  PROVE  \E i, j \in T : i.client_id # j.client_id
<1>1. PICK a \in A, b \in B : a # b
  OBVIOUS
<1>2. PICK i \in T, j \in T : a = i.client_id /\ b = j.client_id
  OBVIOUS
<1> QED BY <1>1, <1>2

LEMMA PushInv ==
  ASSUME Inv, TypeOK', NEW p \in Page, push_changes(p) \/ PushUnanswered(p)
  PROVE  Inv'
<1> USE DEF naming, idb
<1> DEFINE d == device_of[p]
<1>0. TypeOK /\ PageOK(p) /\ d \in Device
  BY DeviceIdentityAssumption DEF Inv
<1>1. /\ UNCHANGED <<had, users, stored, author, self, kept>>
      /\ pc[p] = "push" /\ stage[p] = "handle"
      /\ committed' = committed \cup Accepted(p)
      /\ batch'[p] = {}
      /\ \A q \in Page \ {p} : batch'[q] = batch[q]
  BY <1>0 DEF push_changes, PushUnanswered, StorePush, TypeOK
<1>2. PICK label : Goto(p, label) /\ label \in {"pull", "ready"}
  BY DEF push_changes, PushUnanswered
<1>3. /\ pc'[p] = label /\ info'[p] = {} /\ stage'[p] \in {"auth", "none"}
      /\ stage'[p] # "none" => label \in Asking
      /\ \A q \in Page \ {p} : SamePage(q)
  BY <1>0, <1>1, <1>2, GotoFacts DEF SamePage
<1>4. ASSUME NEW w \in RevisionId
      PROVE \/ status'[w] = status[w]
            \/ /\ w \in batch[p]
               /\ status'[w] \in {"Synced", "Duplicate", "Malformed"}
               /\ status'[w] = "Malformed" => author[w] # ActsFor(p)
  <2>1. CASE PushUnanswered(p)
    BY <2>1 DEF PushUnanswered
  <2>2. CASE push_changes(p)
    <3>1. w \in Accepted(p) => w \in batch[p]
      BY DEF Accepted
    <3> QED BY <2>2, <3>1 DEF push_changes
  <2> QED BY <2>1, <2>2
<1>5. \A e : had'[e] = had[e]
  BY <1>1
<1>6. Grows
  BY <1>1, <1>4, <1>5 DEF Grows
<1>7. \A q \in Page \ {p} : PageOK(q)'
  BY <1>0, <1>3, <1>6, PageFrame DEF Inv
<1>8. PageOK(p)'
  BY <1>0, <1>1, <1>2, <1>3, <1>5 DEF PageOK
<1>9. ASSUME NEW w \in RevisionId PROVE WrittenOK(w)'
  <2>0. WrittenOK(w)
    BY DEF Inv
  <2>1. ActsFor(p) # {} /\ ActsFor(p) \subseteq {i.client_id : i \in had[d]}
    BY <1>0, <1>1 DEF PageOK, ActsFor
  <2>2. \A c \in ActsFor(p) : users[c] # {}
    BY <1>0, <1>1 DEF PageOK, ActsFor
  <2>3. w \in batch[p] => written_on[w] = d /\ status[w] # "absent"
    BY <1>0 DEF PageOK
  <2>4. status'[w] # "absent" => author[w] # {}
    BY <1>4, <2>0, <2>3 DEF WrittenOK
  <2>5. w \in committed' => status'[w] # "absent" /\ \A c \in author[w] : users[c] # {}
    <3>1. CASE w \in committed
      BY <1>4, <2>0, <3>1 DEF WrittenOK
    <3>2. CASE w \in Accepted(p)
      BY <1>4, <2>2, <2>3, <3>2 DEF Accepted
    <3> QED BY <1>1, <3>1, <3>2
  <2>6. status'[w] = "Malformed" => Moved(written_on[w])
    <3>1. CASE status'[w] = status[w]
      BY <2>0, <3>1 DEF WrittenOK
    <3>2. CASE w \in batch[p] /\ author[w] # ActsFor(p)
      <4>1. author[w] # {} /\ author[w] \subseteq {i.client_id : i \in had[d]}
        BY <2>0, <2>3, <3>2 DEF WrittenOK
      <4>2. Moved(d)
        BY <2>1, <3>2, <4>1, TwoClients DEF Moved
      <4> QED BY <2>3, <3>2, <4>2
    <3> QED BY <1>4, <3>1, <3>2
  <2>7. Moved(written_on[w])' <=> Moved(written_on[w])
    BY <1>5 DEF Moved
  <2> QED BY <1>1, <1>5, <2>0, <2>4, <2>5, <2>6, <2>7 DEF WrittenOK
<1>10. \A e \in Device : stored'[e] \subseteq had'[e]
  BY <1>1, <1>5 DEF Inv
<1> QED BY <1>1, <1>7, <1>8, <1>9, <1>10 DEF Inv

LEMMA InvStep == Inv /\ [Next]_vars => Inv'
<1> SUFFICES ASSUME Inv, [Next]_vars PROVE Inv'
  OBVIOUS
<1>0. TypeOK'
  BY TypeStep DEF Inv
<1>1. ASSUME NEW i \in Address, NEW identity \in Option(Identities[i]), Reprovision(i, identity)
      PROVE Inv'
  BY <1>0, <1>1, ReprovisionInv
<1>2. ASSUME NEW p \in Page, Authenticate(p) PROVE Inv'
  BY <1>0, <1>2, AuthenticateInv
<1>3. ASSUME NEW p \in Page, Unauthenticated(p) \/ ProviderError(p) \/ UpsertFails(p)
      PROVE Inv'
  BY <1>0, <1>3, RefusedInv DEF Unauthenticated, ProviderError, UpsertFails
<1>4. ASSUME NEW p \in Page, upsert_client(p) PROVE Inv'
  BY <1>0, <1>4, UpsertInv
<1>5. ASSUME NEW p \in Page,
             \/ Open(p) \/ whoami(p) \/ Identify(p) \/ NetworkDown(p) \/ OpenOffline(p)
             \/ Close(p)
      PROVE Inv'
  BY <1>0, <1>5, OpeningInv
<1>6. ASSUME NEW p \in Page, StartSync(p) \/ pull_changes(p) \/ ReadState(p) \/ WriteState(p)
      PROVE Inv'
  BY <1>0, <1>6, SyncingInv
<1>7. ASSUME NEW p \in Page, NEW w \in RevisionId, Save(p, w) PROVE Inv'
  BY <1>0, <1>7, SaveInv
<1>8. ASSUME NEW p \in Page, push_changes(p) \/ PushUnanswered(p) PROVE Inv'
  BY <1>0, <1>8, PushInv
<1>9. CASE UNCHANGED vars
  <2> USE <1>9 DEF vars, naming, tables, idb, request
  <2>1. \A d : had'[d] = had[d]
    OBVIOUS
  <2>2. Grows
    BY <2>1 DEF Grows
  <2>3. \A p \in Page : PageOK(p)'
    BY <2>2, PageFrame DEF Inv, SamePage
  <2>4. \A w \in RevisionId : WrittenOK(w)'
    BY <2>2, WrittenFrame DEF Inv
  <2> QED BY <1>0, <2>1, <2>3, <2>4 DEF Inv
<1> QED BY <1>1, <1>2, <1>3, <1>4, <1>5, <1>6, <1>7, <1>8, <1>9
        DEF Next, ServerStep, PageStep, Fault

LEMMA Invariance == Spec => []Inv
<1>1. Init => Inv
  <2>1. Init => \A d \in Device : stored[d] \subseteq had[d]
    BY DEF Init
  <2>2. Init => \A p \in Page : PageOK(p)
    BY NothingKept DEF Init, PageOK
  <2>3. Init => \A w \in RevisionId : WrittenOK(w)
    BY DEF Init, WrittenOK
  <2> QED BY <2>1, <2>2, <2>3, TypeInit DEF Inv
<1> QED BY <1>1, InvStep, PTL DEF Spec

(* Whoever wrote a committed revision is in the clients table.             *)
THEOREM AuthorsAreRegistered == Spec => []AuthorsRegistered
<1>1. Inv => AuthorsRegistered
  BY DEF Inv, WrittenOK, AuthorsRegistered, TypeOK
<1> QED BY <1>1, Invariance, PTL

(* A revision is refused as somebody else's only if its device has had two *)
(* client ids.                                                             *)
THEOREM RefusalsAreMoves == Spec => []RefusedOnlyIfMoved
<1>1. Inv => RefusedOnlyIfMoved
  BY DEF Inv, WrittenOK, Moved, RefusedOnlyIfMoved
<1> QED BY <1>1, Invariance, PTL

(* The cached identity is one the device has had, however pages overwrite  *)
(* each other's.                                                           *)
THEOREM CacheIsIssued == Spec => []CachedIdentityIssued
<1>1. Inv => CachedIdentityIssued
  BY DEF Inv, CachedIdentityIssued
<1> QED BY <1>1, Invariance, PTL

(* An open repository has a cached identity, so that its syncs store their *)
(* cursor.                                                                 *)
THEOREM SyncsRecorded == Spec => []SyncsAreRecorded
<1>1. Inv => SyncsAreRecorded
  BY DEF Inv, PageOK, SyncsAreRecorded
<1> QED BY <1>1, Invariance, PTL
=============================================================================
