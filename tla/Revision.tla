------------------------------ MODULE Revision ------------------------------
(***************************************************************************)
(* The shared data model of rustend-core: revisions, their lineage and the *)
(* head set of an object.                                                  *)
(*                                                                         *)
(* A revision is immutable once created and its id is a fresh UUID, so an  *)
(* id stands for its record: object_id, lineage and created_by are         *)
(* constant functions of the id.  They are left arbitrary (a lineage may   *)
(* name unknown ids, another object's revisions, the revision itself or    *)
(* the same parent twice): it is the server's job to refuse those.         *)
(* object_type, created_at and the content are data no property here tells *)
(* apart.                                                                  *)
(***************************************************************************)
EXTENDS Naturals, Sequences

CONSTANTS
  RevisionId,   \* every revision any client may ever push
  ObjectId,
  ClientId,
  object_id,    \* Revision::object_id
  lineage,      \* Revision::lineage, as the list of parents (see Parents)
  created_by    \* Revision::created_by

ASSUME RevisionAssumption ==
  /\ ClientId # {}
  /\ object_id  \in [RevisionId -> ObjectId]
  /\ lineage    \in [RevisionId -> Seq(RevisionId)]
  /\ created_by \in [RevisionId -> ClientId]

(* Lineage::parents.  Root is <<>>, Update(p) is <<p>> and Merge(a, b,     *)
(* rest) is <<a, b>> \o rest; the variant is the number of parents, which  *)
(* is also how row_to_revision_sync rebuilds it from the stored rows.      *)
Parents(r) == {lineage[r][i] : i \in DOMAIN lineage[r]}

(* HashSet::len of the parents differs from Vec::len.                      *)
RepeatsParent(r) ==
  \E i, j \in DOMAIN lineage[r] : i # j /\ lineage[r][i] = lineage[r][j]

(* A row of the object_heads table: (object_id, revision_id).              *)
HeadRow(r) == <<object_id[r], r>>

(* What "head" means: a revision with no known successor.                  *)
Frontier(S) == {HeadRow(r) : r \in {x \in S : \A s \in S : x \notin Parents(s)}}

(* r is d or an ancestor of d: it is in every set of revisions that        *)
(* contains d and is closed under parents.                                 *)
AncestorOrSelf(r, d) ==
  \A S \in SUBSET RevisionId :
    d \in S /\ (\A x \in S : Parents(x) \subseteq S) => r \in S

(* AncestorOrSelf as a set of pairs, which TLC evaluates once.              *)
Ancestry == {x \in RevisionId \X RevisionId : AncestorOrSelf(x[1], x[2])}

SameObject(r) == \A p \in Parents(r) : object_id[p] = object_id[r]
=============================================================================
