SPECIFICATION Spec
CONSTANTS
  Requests = {r1, r2}
  Names = {"root", "bot"}
  FirstName = "root"
  OddNames = {}
  Owners = {u1}
  CliOwners = {NoOwner}
  NoOwner = NoOwner
  Never = Never
  MintScopes <- MCWrite
  Enforce = FALSE
  RateMax = 1
  RateWindow = 1
  LostAcks = 1
  MaxKeys = 3
  MaxNow = 2
SYMMETRY Symmetry
INVARIANTS
  NoPanic
