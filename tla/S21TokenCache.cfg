SPECIFICATION Spec
CONSTANTS
  Tokens = {t1, t2, t3}
  Logins = {alice, bob}
  EmptyToken = EmptyToken
  Miss = Miss
  TTL = 2
  MaxEntries = 2
  MaxNow = 5
INVARIANTS
  TypeOK
  ListMapAgree
PROPERTIES
  ImplementsLru
