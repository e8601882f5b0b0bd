SPECIFICATION FairSpec
CONSTANTS
  x = x
  ax = ax
  proxy = proxy
  c1 = c1
  c2 = c2
  u1 = u1
  u2 = u2
  Device = {x}
  Page = {p1, p2}
  device_of <- MCdevice_of
  ip_source = "ForwardedFor"
  peer <- MCpeer
  forwarded_for <- MCforwarded_for
  real_ip <- MCreal_ip
  Address = {ax, proxy}
  Client = {c1, c2}
  User = {u1, u2}
  Identities <- MCIdentities
  OfflineIdentity <- MCOfflineIdentity
  RevisionId = {w1}
  written_on <- MCwritten_on
  MaxMoves = 1
INVARIANTS
  TypeOK
  AuthorsRegistered
  RefusedOnlyIfMoved
  CachedIdentityIssued
  SyncsAreRecorded
PROPERTY UsersFollow
