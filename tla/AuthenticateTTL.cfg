SPECIFICATION Spec
CONSTANTS
  Containers = {c1, c2}
  Requests = {r1, r2}
  Tokens = {t1}
  Logins = {"alice"}
  LoginOf <- MCLoginOf
  EmptyToken = EmptyToken
  BadTokens = {EmptyToken}
  OutageErrors = {"plain"}
  TTL = 2
  MaxEntries = 1
  ReqTime = 1
  MaxNow <- MCMaxNow
SYMMETRY Symmetry
INVARIANTS
  RotatedTokenForgottenWithinTTL
