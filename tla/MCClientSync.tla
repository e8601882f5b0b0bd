---------------------------- MODULE MCClientSync ----------------------------
(***************************************************************************)
(* Two clients and two objects.  Client b may have several pages.          *)
(*                                                                         *)
(*   o1:  r1 (a) <- r2 (a), r1 <- r3 (b), r2 + r3 <- m (b), r2 <- r4 (a)   *)
(*   o2:  s1 (a)                                                           *)
(***************************************************************************)
EXTENDS ClientSync, TLC

CONSTANTS a, b, b2, o1, o2, r1, r2, r3, r4, m, s1

MCclient_of == [s \in Session |-> IF s = a THEN a ELSE b]

MCobject_id == [r \in RevisionId |-> IF r = s1 THEN o2 ELSE o1]

MCcreated_by == [r \in RevisionId |-> IF r \in {r3, m} THEN b ELSE a]

MClineage ==
  [r \in RevisionId |->
     CASE r \in {r1, s1} -> <<>>
       [] r \in {r2, r3} -> <<r1>>
       [] r = r4 -> <<r2>>
       [] r = m -> <<r2, r3>>]

(* UUIDs that happen to follow the order of the writes, and ones that do   *)
(* not: r2 comes before its parent, which its own client wrote.            *)
ParentsFirst == SelectSeq(<<s1, r1, r2, r3, r4, m>>, LAMBDA r : r \in RevisionId)

ChildrenFirst == SelectSeq(<<s1, r2, r3, r1, m, r4>>, LAMBDA r : r \in RevisionId)

(* r3 and m come before the parents the other client wrote, which does no  *)
(* harm, and r4 before its own client's r2, which may cost it.             *)
MixedKeys == SelectSeq(<<s1, r4, r3, m, r1, r2>>, LAMBDA r : r \in RevisionId)
=============================================================================
