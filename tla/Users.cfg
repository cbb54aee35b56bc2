SPECIFICATION Spec
CONSTANTS
  Backends = {"mem", "ydb"}
  Requests = {r1, r2}
  Tids = {1}
  Logins = {alice, bob}
  Forms = {"lower", "mixed"}
  Null = Null
  ReqTime = 1
  MaxNow = 3
SYMMETRY Symmetry
INVARIANTS
  TypeOK
  BoundNicksConfirmed
  ListedAsRegistered
  DeletedByThisRequest
PROPERTIES
  CreatedAtPreserved
  StampsAgree
  ImplementsMapping
