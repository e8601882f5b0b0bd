SPECIFICATION Spec
CONSTANTS
  a = a
  b = b
  b2 = b2
  o1 = o1
  o2 = o2
  r1 = r1
  r2 = r2
  r3 = r3
  r4 = r4
  m = m
  s1 = s1
  ClientId = {a, b}
  Session = {a, b, b2}
  client_of <- MCclient_of
  ObjectId = {o1}
  RevisionId = {r1, r2, r3}
  object_id <- MCobject_id
  created_by <- MCcreated_by
  lineage <- MClineage
  KeyOrder <- ParentsFirst
  Overlap = {b}
  ResolveAll = TRUE
  Unreliable = {}
PROPERTY HeadsNeverLost
