SPECIFICATION FairPullSpec
CONSTANTS
  slot1 = slot1
  slot2 = slot2
  page1 = page1
  page2 = page2
  a = a
  b = b
  o1 = o1
  o2 = o2
  r1 = r1
  r2 = r2
  r3 = r3
  s1 = s1
  ClientId = {a, b}
  ObjectId = {o1}
  RevisionId = {r2, r3}
  object_id <- MCobject_id
  lineage <- Chain
  created_by <- MCcreated_by
  Request = {slot1}
  Batch <- MCBatch
  PoolSize = 1
  MaxTransactionId = 2
  Puller = {page1, page2}
  client_of <- MCclient_of
  Match = {r2, r3}
INVARIANT NothingSkipped
PROPERTY EverythingArrives
