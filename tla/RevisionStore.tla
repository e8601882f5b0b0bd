--------------------------- MODULE RevisionStore ----------------------------
(***************************************************************************)
(* What the server promises of its store, whatever requests are in flight: *)
(* an append-only graph of revisions that grows by whole transactions.     *)
(* Each transaction carries a new id that is larger than the ids of the    *)
(* transactions its parents came in, each revision arrives with its        *)
(* parents already there or beside it, and the head table is, in every     *)
(* state, the frontier of the graph.                                       *)
(***************************************************************************)
EXTENDS Revision

CONSTANT TransactionId   \* the ids BIGSERIAL can produce

VARIABLES
  revisions,     \* the committed revisions
  object_heads,  \* the committed head rows
  transactions   \* the committed transactions: id, client_id, revision_ids

storeVars == <<revisions, object_heads, transactions>>

Transaction ==
  [id : TransactionId, client_id : ClientId, revision_ids : SUBSET RevisionId]

StoreInit ==
  /\ revisions = {}
  /\ object_heads = {}
  /\ transactions = {}

(* One transaction t becomes visible as a whole.                           *)
CommitTransaction(t) ==
  /\ transactions' = transactions \cup {t}
  /\ revisions' = revisions \cup t.revision_ids
  /\ object_heads' = Frontier(revisions')
  /\ t.revision_ids # {}
  /\ t.revision_ids \cap revisions = {}
  /\ \A u \in transactions : u.id # t.id
  /\ \A r \in t.revision_ids :
       /\ created_by[r] = t.client_id
       /\ SameObject(r)
       /\ Parents(r) \subseteq (revisions \cup t.revision_ids) \ {r}
       /\ \A u \in transactions :
            u.revision_ids \cap Parents(r) # {} => u.id < t.id

StoreNext == \E t \in Transaction : CommitTransaction(t)

StoreSpec == StoreInit /\ [][StoreNext]_storeVars
=============================================================================
