SPECIFICATION Spec
CONSTANTS
  a = a
  o1 = o1
  o2 = o2
  r1 = r1
  r2 = r2
  r3 = r3
  d = d
  s1 = s1
  ClientId = {a}
  ObjectId = {o1, o2}
  RevisionId = {r1, r2, r3, d, s1}
  object_id <- MCobject_id
  lineage <- MClineage
  created_by <- MCcreated_by
  object_type <- MCobject_type
  created_at <- MCcreated_at
  content <- MCcontent
  MaxSafe = 4
  Path <- MCPath
  Requests <- MCRequests
  Schemas <- MCSchemas
  Ranges <- MCRanges
INVARIANTS
  TypeOK
  RangesBracket
  MatchesAreCurrent
  DeletionsArrive
  QueryIsExact
