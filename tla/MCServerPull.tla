---------------------------- MODULE MCServerPull ----------------------------
(***************************************************************************)
(* Two clients push, the pages of b pull.  o1 has a root r1 by b and two   *)
(* concurrent updates r2 and r3 by a; o2 has a root s1 by a.               *)
(***************************************************************************)
EXTENDS ServerPull, TLC

CONSTANTS slot1, slot2, page1, page2, a, b, o1, o2, r1, r2, r3, s1

MCobject_id == [r \in RevisionId |-> IF r = s1 THEN o2 ELSE o1]

MCcreated_by == [r \in RevisionId |-> IF r = r1 THEN b ELSE a]

MClineage == [r \in RevisionId |-> IF r \in {r1, s1} THEN <<>> ELSE <<r1>>]

(* For the run about transaction order alone: unrelated root revisions.    *)
NoLineage == [r \in RevisionId |-> <<>>]

(* Two revisions that can only be stored one after the other.              *)
Chain == [r \in RevisionId |-> IF r = r3 THEN <<r2>> ELSE <<>>]

MCBatch == {<<r>> : r \in RevisionId}

MCclient_of == [p \in Puller |-> b]

(* The slots are alike.                                                    *)
Slots == Permutations(Request)
=============================================================================
