SPECIFICATION FairSpec
CONSTANTS
  slot1 = slot1
  slot2 = slot2
  a = a
  b = b
  o1 = o1
  o2 = o2
  r1 = r1
  r2 = r2
  r3 = r3
  r4 = r4
  s1 = s1
  s2 = s2
  s3 = s3
  x1 = x1
  x2 = x2
  x3 = x3
  ClientId = {a, b}
  ObjectId = {o1, o2}
  RevisionId = {r1, r2, r3, s1, s2, s3}
  object_id <- MCobject_id
  lineage <- MClineage
  created_by <- MCcreated_by
  Request = {slot1, slot2}
  Batch <- CrossingBatch
  PoolSize = 2
  MaxTransactionId = 3
INVARIANT HeadsAreFrontier
PROPERTY EveryPushEnds
