SPECIFICATION Spec
CONSTANTS
  Containers = {c1, c2}
  Requests = {r1, r2}
  Names = {"root", "odd"}
  Shape <- MCShape
  FirstName = "root"
  Owners = {}
  ScopeSets = {{"read"}}
  NoOwner = NoOwner
  Never = Never
  Tids = {"t1"}
  HugeTid = "huge"
  Nicks = {alice, bob}
  Enforce = FALSE
  ReqTime = 1
  MaxKeys = 2
  MaxNow = 2
SYMMETRY Symmetry
PROPERTIES
  ImplementsMapping
