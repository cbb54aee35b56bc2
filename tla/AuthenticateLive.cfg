SPECIFICATION Spec
CONSTANTS
  Containers = {c1}
  Requests = {r1, r2}
  Tokens = {t1}
  Logins = {"alice"}
  LoginOf <- MCLoginOf
  EmptyToken = EmptyToken
  BadTokens = {EmptyToken}
  OutageErrors = {"plain", "worded_invalid", "no_login"}
  TTL = 1
  MaxEntries = 1
  ReqTime = 1
  MaxNow <- MCMaxNow
PROPERTIES
  AlwaysAnswered
  AnswersTrusted
