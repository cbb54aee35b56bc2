SPECIFICATION Spec
CONSTANTS
  Requests = {r1, r2}
  Names = {"root", "bot"}
  FirstName = "root"
  OddNames = {"odd name"}
  Owners = {u1}
  CliOwners = {NoOwner, u1}
  NoOwner = NoOwner
  Never = Never
  MintScopes <- MCWrite
  Enforce = TRUE
  RateMax = 1
  RateWindow = 1
  LostAcks = 0
  MaxKeys = 3
  MaxNow = 0
SYMMETRY Symmetry
INVARIANTS
  HonestAnswers
  NoPanic
PROPERTIES
  RevokedStaysRevoked
  ImplementsRegistry
