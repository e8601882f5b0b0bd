---------------------------- MODULE MCServerPush ----------------------------
(***************************************************************************)
(* Two objects, two clients and two concurrent pushes.                     *)
(*                                                                         *)
(*   o1:  r1 (a) <- r2 (a), r1 <- r3 (b), r2 + r3 <- r4 (b)                *)
(*   o2:  s1 (a) <- s2 (a), s1 <- s3 (b)                                   *)
(*   x1 (a): parent of another object;  x2 (a): the same parent twice      *)
(*   x3 (a): its own parent                                                *)
(***************************************************************************)
EXTENDS ServerPush, TLC

CONSTANTS slot1, slot2, a, b, o1, o2, r1, r2, r3, r4, s1, s2, s3, x1, x2, x3

MCobject_id == [r \in RevisionId |-> IF r \in {s1, s2, s3, x1} THEN o2 ELSE o1]

MCcreated_by == [r \in RevisionId |-> IF r \in {r3, r4, s3} THEN b ELSE a]

MClineage ==
  [r \in RevisionId |->
     CASE r \in {r1, s1} -> <<>>
       [] r \in {r2, r3, x1} -> <<r1>>
       [] r = r4 -> <<r2, r3>>
       [] r \in {s2, s3} -> <<s1>>
       [] r = x2 -> <<r1, r1>>
       [] r = x3 -> <<x3>>]

(* Branching and merging of one object, with every way to be rejected: a   *)
(* batch may put a child before its parent, repeat a revision, name the    *)
(* other client's revisions, carry a malformed lineage, or a revision that *)
(* is its own parent.                                                      *)
LineageBatch ==
  {<<r1, r2>>, <<r2, r1, r2>>, <<r3, r4>>, <<r1, x1, x2>>, <<x3>>}

(* Two updates that touch the same two objects in opposite orders.         *)
CrossingBatch == {<<r1, s1>>, <<r2, s2>>, <<s3, r3>>}

(* The slots are alike.                                                    *)
Slots == Permutations(Request)
=============================================================================
