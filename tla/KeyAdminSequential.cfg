SPECIFICATION Spec
CONSTANTS
  Requests = {r1}
  Names = {"root", "bot"}
  FirstName = "root"
  OddNames = {}
  Owners = {u1}
  CliOwners = {NoOwner}
  NoOwner = NoOwner
  Never = Never
  MintScopes <- MCWrite
  Enforce = TRUE
  RateMax = 1
  RateWindow = 1
  LostAcks = 0
  MaxKeys = 4
  MaxNow = 3
INVARIANTS
  RateLimit
