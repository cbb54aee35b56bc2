SPECIFICATION Spec
CONSTANTS
  Requests = {r1, r2}
  Names = {"root", "bot"}
  FirstName = "root"
  OddNames = {}
  Owners = {u1}
  CliOwners = {NoOwner}
  NoOwner = NoOwner
  Never = Never
  MintScopes <- MCWrite
  Enforce = TRUE
  RateMax = 1
  RateWindow = 1
  LostAcks = 1
  MaxKeys = 4
  MaxNow = 0
SYMMETRY Symmetry
INVARIANTS
  TypeOK
  ActiveKeysDistinct
  RateBound
  AnswersAccounted
PROPERTIES
  TermsKept
