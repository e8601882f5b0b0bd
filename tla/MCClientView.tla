---------------------------- MODULE MCClientView ----------------------------
(***************************************************************************)
(* Two objects.  The trip o1 has a root r1 and three updates of it: r2, r3 *)
(* and the tombstone d.  o2 is a note with the single revision s1, whose   *)
(* number JavaScript cannot hold.  The second release of the application   *)
(* reuses an index name for another path, drops an index and adds one.     *)
(***************************************************************************)
EXTENDS ClientView

CONSTANTS a, o1, o2, r1, r2, r3, d, s1

MCobject_id == [r \in RevisionId |-> IF r = s1 THEN o2 ELSE o1]

MCcreated_by == [r \in RevisionId |-> a]

MClineage ==
  [r \in RevisionId |-> IF r \in {r1, s1} THEN <<>> ELSE <<r1>>]

MCobject_type == [r \in RevisionId |-> IF r = s1 THEN "note" ELSE "trip"]

MCcreated_at == [r \in RevisionId |-> IF r \in {r1, s1} THEN 1 ELSE 2]

Num(n) == <<"int", n>>
Str(s) == <<"str", s>>
Obj(f) == <<"obj", f>>

MCcontent ==
  [r \in RevisionId |->
    CASE r = r1 -> Obj([n |-> Num(3), name |-> Str(<<1, 2>>)])
      [] r = r2 -> Obj([n |-> Str(<<2>>), name |-> Str(<<1>>), day |-> Obj([n |-> Num(1)])])
      [] r = r3 -> Obj([n |-> <<"float", 3>>, name |-> <<"null">>,
                        day |-> Obj([n |-> Num(2)])])
      [] r = d  -> Deleted
      [] r = s1 -> Obj([n |-> Num(5), name |-> <<"arr", <<Num(1), Str(<<1>>)>>>>])]

n_ == <<"n">>
name_ == <<"name">>
day_n == <<"day", "n">>

MCPath == {n_, name_, day_n}

Cond(p, op, v) == [path |-> p, operator |-> op, arg |-> v]

(* Everything; trips that are near in number or start with an "a"; what    *)
(* was created late and is not 3 or holds a 1; and no group at all.        *)
MCRequests ==
  {[object_types |-> {}, created_at_filters |-> {}, filter |-> {}],
   [object_types |-> {{"trip"}}, created_at_filters |-> {},
    filter |-> {{{Cond(n_, "Gte", Num(3)), Cond(n_, "Lt", Num(6))},
                 {Cond(name_, "StartsWith", Str(<<1>>)), Cond(n_, "Gt", Num(6))},
                 {Cond(day_n, "Lte", Num(1)), Cond(name_, "Exists", Num(0))}}}],
   [object_types |-> {{"trip", "note"}},
    created_at_filters |-> {[operator |-> "Gte", time |-> 2], [operator |-> "Lt", time |-> 3]},
    filter |-> {{{Cond(n_, "Ne", Num(3)), Cond(name_, "IsNull", Num(0))},
                 {Cond(name_, "Contains", Num(1))},
                 {Cond(day_n, "Eq", Num(1))}}}],
   [object_types |-> {}, created_at_filters |-> {}, filter |-> {{}}]}

Entry(type, path) == [object_type |-> type, json_path |-> path]

MCSchemas ==
  {[version |-> 1, entries |-> [by |-> Entry("trip", n_), old |-> Entry("note", name_)]],
   [version |-> 2, entries |-> [by |-> Entry("trip", name_), new |-> Entry("trip", n_)]]}

Bounds(lo, li, hi, ui) ==
  {[lower |-> lo, lower_inclusive |-> li, upper |-> hi, upper_inclusive |-> ui]}

MCRanges ==
  {{}, Bounds(Num(3), TRUE, Num(3), TRUE), Bounds(Num(1), FALSE, Num(3), TRUE),
   Bounds(Num(2), TRUE, Str(<<1, 2>>), FALSE), Bounds(Str(<<2>>), TRUE, Num(1), TRUE)}
=============================================================================
