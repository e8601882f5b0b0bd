----------------------------- MODULE JsonFilter -----------------------------
(***************************************************************************)
(* The filter of a pull: conditions on the JSON body of a revision, in     *)
(* disjunctive normal form, and filters on its creation time.              *)
(*                                                                         *)
(* A JSON value is a tuple of its kind and what it holds: <<"int", n>>,    *)
(* <<"float", n>>, <<"str", s>> with s a sequence of letters, <<"arr", s>>,*)
(* <<"obj", f>> with f a function from keys, and <<"null">>.  serde_json   *)
(* keeps 3 and 3.0 apart, hence int and float; a boolean is, for every     *)
(* operator here, one more value that has no order, like null.  An         *)
(* Option is a set of at most one element.                                 *)
(***************************************************************************)
EXTENDS Integers, Sequences
Lists == INSTANCE SequencesExt

CONSTANT MaxSafe   \* 2^53, above which an f64 holds even integers only

ASSUME MaxSafeAssumption == MaxSafe \in Nat \ {0} /\ MaxSafe % 4 = 0

FilterOperator ==
  {"Exists", "IsNull", "Eq", "Ne", "Gt", "Gte", "Lt", "Lte", "Contains", "StartsWith"}

(* A path is the list of keys between the dots, without a leading "$.".    *)
FilterCondition(c) ==
  c.path \in Seq(STRING) /\ c.operator \in FilterOperator /\ Len(c.arg) \in {1, 2}

(* Times are integers.                                                     *)
CreatedAtFilter == [operator : {"Gt", "Gte", "Lt", "Lte"}, time : Nat]

Number == {"int", "float"}

(* Value::get with a string: only an object has keys.                      *)
Get(v, key) ==
  IF v[1] = "obj" /\ key \in DOMAIN v[2] THEN {v[2][key]} ELSE {}

resolve_path(data, path) ==
  LET current[n \in 0 .. Len(path)] ==
        IF n = 0 THEN {data} ELSE UNION {Get(v, path[n]) : v \in current[n - 1]}
  IN  current[Len(path)]

(* Number::as_f64: round to nearest, ties to the even significand.  Exact  *)
(* up to MaxSafe; the values here stay below 2 * MaxSafe.                  *)
AsF64(v) ==
  LET n == v[2]
      size == IF n < 0 THEN -n ELSE n
      rounded == IF size <= MaxSafe \/ size % 2 = 0 THEN size
                 ELSE IF size % 4 = 1 THEN size - 1 ELSE size + 1
  IN  IF n < 0 THEN -rounded ELSE rounded

(* The order of strings, letter by letter.                                 *)
LexLess(s, t) ==
  \/ Lists!IsStrictPrefix(s, t)
  \/ \E i \in DOMAIN s \cap DOMAIN t :
       s[i] < t[i] /\ \A j \in 1 .. i - 1 : s[j] = t[j]

Sign(less, greater) == IF less THEN -1 ELSE IF greater THEN 1 ELSE 0

(* Mutant of compare: only the stored number goes through f64.             *)
compareHalfRounded(a, b) ==
  CASE a[1] \in Number /\ b[1] \in Number -> {Sign(AsF64(a) < b[2], b[2] < AsF64(a))}
    [] a[1] = "str" /\ b[1] = "str"       -> {Sign(LexLess(a[2], b[2]), LexLess(b[2], a[2]))}
    [] OTHER                              -> {}

(* Only two numbers or two strings have an order.                          *)
compare(a, b) ==
  CASE a[1] \in Number /\ b[1] \in Number -> {Sign(AsF64(a) < AsF64(b), AsF64(b) < AsF64(a))}
    [] a[1] = "str" /\ b[1] = "str"       -> {Sign(LexLess(a[2], b[2]), LexLess(b[2], a[2]))}
    [] OTHER                              -> {}

(* An element of an array or a part of a string.                           *)
json_contains(data, needle) ==
  \/ data[1] = "arr" /\ Lists!Contains(data[2], needle)
  \/ /\ data[1] = "str" /\ needle[1] = "str"
     /\ \E rest \in Lists!Suffixes(data[2]) : Lists!IsPrefix(needle[2], rest)

(* Exists and IsNull have no argument, and ignore arg.                     *)
evaluate_condition(data, cond) ==
  LET value == resolve_path(data, cond.path)
      arg == cond.arg
      Ordered(Test(_)) == \E d \in value : \E o \in compare(d, arg) : Test(o)
  IN  CASE cond.operator = "Exists"     -> value # {}
        [] cond.operator = "IsNull"     -> value = {<<"null">>}
        [] cond.operator = "Eq"         -> value = {arg}
        [] cond.operator = "Ne"         -> value # {arg}
        [] cond.operator = "Gt"         -> Ordered(LAMBDA o : o > 0)
        [] cond.operator = "Gte"        -> Ordered(LAMBDA o : o >= 0)
        [] cond.operator = "Lt"         -> Ordered(LAMBDA o : o < 0)
        [] cond.operator = "Lte"        -> Ordered(LAMBDA o : o <= 0)
        [] cond.operator = "Contains"   -> \E d \in value : json_contains(d, arg)
        [] cond.operator = "StartsWith" ->
             \E d \in value : d[1] = "str" /\ Lists!IsPrefix(arg[2], d[2])

(* filter is a set of groups: one of them must hold entirely, so that no   *)
(* group at all lets nothing through.                                      *)
apply_content_filter(data, filter) ==
  \E and_group \in filter : \A cond \in and_group : evaluate_condition(data, cond)

apply_created_at_filters(created_at, filters) ==
  \A f \in filters :
    CASE f.operator = "Gt"  -> created_at > f.time
      [] f.operator = "Gte" -> created_at >= f.time
      [] f.operator = "Lt"  -> created_at < f.time
      [] f.operator = "Lte" -> created_at <= f.time
=============================================================================
