--------------------------- MODULE KeyAdmin_proofs ----------------------------
(***************************************************************************)
(* Proofs about module KeyAdmin: active keys keep distinct names and       *)
(* owners whatever interleaves and is rerun; as long as no acknowledgement *)
(* is lost, revoked keys stay revoked and KeyRegistry is implemented.      *)
(***************************************************************************)
EXTENDS KeyAdmin, KeyTable_proofs

\* What the proofs need of rand.Read: keys are numbered as they are minted, and
\* no two requests are about to insert one key.  As long as no acknowledgement
\* at all has been lost, such a key is not in the table either.
KeysFresh ==
  /\ minted \in 1..MaxKeys
  /\ DOMAIN table \subseteq 1..minted
  /\ \A r \in Requests : req[r].pc = "insert" =>
       /\ req[r].new \in 1..minted
       /\ lost = 0 => req[r].new \notin DOMAIN table
       /\ \A s \in Requests \ {r} : req[s].pc = "insert" => req[s].new # req[r].new

IInv == TypeOK /\ ActiveKeysDistinct /\ KeysFresh

RequestOK(q) ==
  /\ q \in RequestType
  /\ q.pc \in {"count", "mint", "insert"} => q.name \in Names \cup OddNames

SaidOK(s) == s \in [answer : Answers, did : SUBSET Nat]

\* What the facts below need of the constants.
LEMMA Constants ==
  /\ FirstName \in Names /\ NoOwner \notin Owners /\ CliOwners \subseteq Owners \cup {NoOwner}
  /\ RateWindow \in Nat /\ MaxKeys \in Nat /\ MaxKeys >= 1 /\ LostAcks \in Nat
  /\ Never \notin Nat /\ MintScopes \subseteq AllowedScopes
  /\ ReadScopes \in AllowedScopes /\ AdminScopes \in AllowedScopes
BY NamesAssumption, OwnersAssumption, RateAssumption, BoundsAssumption, NeverAssumption,
   MintScopesAssumption DEF AllowedScopes

LEMMA BlankOK == RequestOK(Blank) /\ Blank.pc = "idle"
BY Constants DEF RequestOK, RequestType, Blank, Locations, NoKey

LEMMA SilentOK == SaidOK(Silent)
BY DEF SaidOK, Silent, Answers

\* The invariant holds of the table with the operator's first key.
LEMMA InitInv == Init => IInv
<1> SUFFICES ASSUME Init PROVE IInv
  OBVIOUS
<1>1. FirstRow \in RowType
  BY Constants DEF FirstRow, RowType
<1>2. \A r \in Requests : req[r] = Blank
  BY DEF Init
<1>3. TypeOK
  BY <1>1, <1>2, BlankOK, SilentOK DEF Init, TypeOK, RequestOK, SaidOK
<1>4. ActiveKeysDistinct
  BY DEF Init, ActiveKeysDistinct, ActiveKeys
<1>5. KeysFresh
  BY <1>2, BlankOK, Constants DEF Init, KeysFresh
<1> QED
  BY <1>3, <1>4, <1>5 DEF IInv

LEMMA RequestsOK ==
  ASSUME IInv, NEW r \in Requests
  PROVE  RequestOK(req[r])
BY DEF IInv, TypeOK, RequestOK

\* A request moves on or answers and leaves the table and the keys alone.
LEMMA RequestOnly ==
  ASSUME IInv, NEW r \in Requests, NEW q, RequestOK(q), q.pc # "insert",
         req' = [req EXCEPT ![r] = q], SaidOK(said'), UNCHANGED <<now, table, minted, lost>>
  PROVE  IInv'
<1>1. TypeOK'
  BY DEF IInv, TypeOK, RequestOK, SaidOK
<1>2. ActiveKeysDistinct'
  BY DEF IInv, ActiveKeysDistinct, ActiveKeys
<1>3. KeysFresh'
  BY DEF IInv, KeysFresh, TypeOK
<1> QED
  BY <1>1, <1>2, <1>3 DEF IInv

\* ... most of the time by answering: the request is over.
LEMMA AnswerOK ==
  ASSUME IInv, NEW r \in Requests, NEW a \in Answers, Answer(r, a)
  PROVE  RequestOK(Blank) /\ Blank.pc # "insert"
         /\ req' = [req EXCEPT ![r] = Blank] /\ SaidOK(said')
BY BlankOK, RequestsOK DEF Answer, AnswerDone, RequestOK, RequestType, SaidOK

LEMMA AnswerOnly ==
  ASSUME IInv, NEW r \in Requests, NEW a \in Answers, Answer(r, a),
         UNCHANGED <<now, table, minted, lost>>
  PROVE  IInv'
BY AnswerOK, RequestOnly

LEMMA MintStep ==
  ASSUME IInv, NEW r \in Requests, Mint(r)
  PROVE  IInv'
<1> DEFINE q == [req[r] EXCEPT !.pc = "insert", !.new = minted + 1, !.at = now]
<1>1. /\ q \in RequestType /\ q.pc = "insert" /\ q.new = minted + 1
      /\ q.name \in Names \cup OddNames
  <2>1. req[r] \in RequestType /\ req[r].name \in Names \cup OddNames
    BY RequestsOK DEF Mint, RequestOK
  <2>2. minted + 1 \in Nat /\ now \in Nat
    BY DEF IInv, TypeOK
  <2> QED
    BY <2>1, <2>2 DEF RequestType, Locations
<1>2. req' = [req EXCEPT ![r] = q]
  BY DEF Mint, IInv, TypeOK
<1> HIDE DEF q
<1>3. TypeOK'
  <2>1. req' \in [Requests -> RequestType] /\ SaidOK(said')
    BY <1>1, <1>2, SilentOK DEF Mint, IInv, TypeOK, SaidOK
  <2>2. \A s \in Requests : req'[s].pc \in {"count", "mint", "insert"} =>
                            req'[s].name \in Names \cup OddNames
    BY <1>1, <1>2 DEF IInv, TypeOK
  <2> QED
    BY <2>1, <2>2 DEF Mint, IInv, TypeOK, SaidOK
<1>4. ActiveKeysDistinct'
  BY DEF Mint, IInv, ActiveKeysDistinct, ActiveKeys
<1>5. KeysFresh'
  <2>1. /\ minted \in Nat /\ minted >= 1 /\ minted < MaxKeys /\ minted' = minted + 1
        /\ table' = table /\ lost' = lost
    BY DEF Mint, IInv, KeysFresh
  <2>2. \A s \in Requests : req'[s] = IF s = r THEN q ELSE req[s]
    BY <1>2 DEF IInv, TypeOK
  <2> QED
    BY <1>1, <2>1, <2>2, Constants DEF IInv, KeysFresh
<1> QED
  BY <1>3, <1>4, <1>5 DEF IInv

\* The row Insert writes, and what it must meet to write it.
LEMMA InsertRowOK ==
  ASSUME IInv, NEW r \in Requests, CanInsert(r)
  PROVE  LET k == req[r].new
             row == RowOf(req[r])
         IN  /\ row \in RowType /\ row.revokedAt = Never
             /\ row.name = req[r].name /\ row.owner = req[r].owner
             /\ k \in 1..minted
             /\ \A j \in ActiveKeys(table) : table[j].name # row.name
             /\ row.owner # NoOwner => \A j \in ActiveKeys(table) : table[j].owner # row.owner
             /\ Inserted(table, k, row) =
                  [x \in DOMAIN table \cup {k} |-> IF x = k THEN row ELSE table[x]]
<1> DEFINE row == RowOf(req[r])
<1>1. req[r] \in RequestType /\ req[r].name \in Names \cup OddNames
  BY RequestsOK DEF CanInsert, RequestOK
<1>2. /\ row \in RowType /\ row.revokedAt = Never
      /\ row.name = req[r].name /\ row.owner = req[r].owner
      /\ [row EXCEPT !.revokedAt = Never] = row
  BY <1>1 DEF RowOf, RowType, RequestType
<1>3. req[r].new \in 1..minted
  BY DEF CanInsert, IInv, KeysFresh
<1> HIDE DEF row
<1>4. /\ \A j \in ActiveKeys(table) : table[j].name # row.name
      /\ row.owner # NoOwner => \A j \in ActiveKeys(table) : table[j].owner # row.owner
  BY DEF CanInsert, InsertResult, row
<1> QED
  BY <1>2, <1>3, <1>4 DEF Inserted, row

\* Insert commits, with its request q afterwards: over, or about to run again.
LEMMA InsertStep ==
  ASSUME IInv, NEW r \in Requests, CanInsert(r), InsertRow(r), NEW q, RequestOK(q),
         q.pc = "insert" => q.new = req[r].new /\ lost' # 0,
         req' = [req EXCEPT ![r] = q], SaidOK(said'),
         lost' \in {lost, lost + 1}, UNCHANGED <<now, minted>>
  PROVE  IInv'
<1> DEFINE k == req[r].new
           row == RowOf(req[r])
<1>1. /\ row \in RowType /\ row.revokedAt = Never /\ k \in 1..minted
      /\ \A j \in ActiveKeys(table) : table[j].name # row.name
      /\ row.owner # NoOwner => \A j \in ActiveKeys(table) : table[j].owner # row.owner
      /\ table' = [x \in DOMAIN table \cup {k} |-> IF x = k THEN row ELSE table[x]]
  BY InsertRowOK DEF InsertRow
<1>2. \A s \in Requests : req'[s] = IF s = r THEN q ELSE req[s]
  BY DEF IInv, TypeOK
<1>3. /\ minted \in Nat /\ lost \in Nat /\ lost' \in Nat
      /\ DOMAIN table \subseteq 1..minted
  BY DEF IInv, TypeOK, KeysFresh
<1>4. KeysFresh'
  <2>1. DOMAIN table' = DOMAIN table \cup {k}
    BY <1>1
  <2>2. lost' = 0 => lost = 0
    BY <1>3
  <2>3. q.pc = "insert" => q.new = k /\ lost' # 0
    OBVIOUS
  <2>4. \A s \in Requests \ {r} : req[s].pc = "insert" => req[s].new # k
    BY DEF IInv, KeysFresh, CanInsert
  <2>5. \A s \in Requests : req[s].pc = "insert" =>
          /\ req[s].new \in 1..minted
          /\ lost = 0 => req[s].new \notin DOMAIN table
          /\ \A x \in Requests \ {s} : req[x].pc = "insert" => req[x].new # req[s].new
    BY DEF IInv, KeysFresh
  <2>6. minted \in 1..MaxKeys
    BY DEF IInv, KeysFresh
  <2> HIDE DEF k
  <2> QED
    BY <1>1, <1>2, <1>3, <2>1, <2>2, <2>3, <2>4, <2>5, <2>6 DEF KeysFresh
<1> HIDE DEF k, row
<1>5. TypeOK'
  <2>1. DOMAIN table' \subseteq Nat /\ \A x \in DOMAIN table' : table'[x] \in RowType
    BY <1>1, <1>3 DEF IInv, TypeOK
  <2>2. req' \in [Requests -> RequestType]
    BY DEF RequestOK, IInv, TypeOK
  <2> QED
    BY <1>2, <1>3, <2>1, <2>2 DEF IInv, TypeOK, RequestOK, SaidOK
<1>6. ActiveKeysDistinct'
  <2>1. \A j \in ActiveKeys(table)' : j = k \/ j \in ActiveKeys(table)
    BY <1>1 DEF ActiveKeys, IsActive
  <2>2. \A j \in ActiveKeys(table)' : table'[j] = IF j = k THEN row ELSE table[j]
    BY <1>1 DEF ActiveKeys
  <2>3. \A j \in ActiveKeys(table)' \ {k} :
          /\ table'[j].name # row.name
          /\ table'[j].owner = row.owner => row.owner = NoOwner
    BY <1>1, <2>1, <2>2
  <2>4. \A i, j \in ActiveKeys(table)' \ {k} : i # j =>
          /\ table'[i].name # table'[j].name
          /\ table'[i].owner = table'[j].owner => table'[i].owner = NoOwner
    BY <2>1, <2>2 DEF IInv, ActiveKeysDistinct
  <2>5. k \in ActiveKeys(table)' => table'[k] = row
    BY <2>2
  <2> QED
    BY <2>3, <2>4, <2>5 DEF ActiveKeysDistinct
<1> QED
  BY <1>4, <1>5, <1>6 DEF IInv

\* A revocation commits, with its request q afterwards.
LEMMA RevokeStep ==
  ASSUME IInv, NEW r \in Requests, NEW k \in RevokeTargets(r),
         table' = Revoked(table, k, req[r].at), NEW q, RequestOK(q), q.pc # "insert",
         req' = [req EXCEPT ![r] = q], SaidOK(said'),
         lost' \in {lost, lost + 1}, UNCHANGED <<now, minted>>
  PROVE  IInv'
<1>1. /\ k \in DOMAIN table /\ table[k] \in RowType /\ req[r].at \in Nat
      /\ table' = [table EXCEPT ![k] = [table[k] EXCEPT !.revokedAt = req[r].at]]
  BY RequestsOK DEF RevokeTargets, Revocable, ActiveKeys, Revoked, IInv, TypeOK, RequestOK, RequestType
<1> DEFINE row == [table[k] EXCEPT !.revokedAt = req[r].at]
<1>2. row \in RowType /\ row.revokedAt = req[r].at
  BY <1>1 DEF RowType
<1>3. DOMAIN table' = DOMAIN table /\ \A x \in DOMAIN table : table'[x] = IF x = k THEN row ELSE table[x]
  BY <1>1
<1>4. ~IsActive(row)
  BY <1>1, <1>2, Constants DEF IsActive
<1> HIDE DEF row
<1>5. \A s \in Requests : req'[s] = IF s = r THEN q ELSE req[s]
  BY DEF IInv, TypeOK
<1>6. lost \in Nat /\ lost' \in Nat
  BY DEF IInv, TypeOK
<1>7. TypeOK'
  <2>1. req' \in [Requests -> RequestType]
    BY DEF RequestOK, IInv, TypeOK
  <2> QED
    BY <1>2, <1>3, <1>5, <1>6, <2>1 DEF IInv, TypeOK, RequestOK, SaidOK
<1>8. ActiveKeysDistinct'
  <2>1. \A j \in ActiveKeys(table)' : j \in ActiveKeys(table) /\ table'[j] = table[j]
    BY <1>3, <1>4 DEF ActiveKeys, IsActive
  <2> QED
    BY <2>1 DEF IInv, ActiveKeysDistinct
<1>9. KeysFresh'
  BY <1>3, <1>5, <1>6 DEF IInv, KeysFresh
<1> QED
  BY <1>7, <1>8, <1>9 DEF IInv

\* Whatever starts leaves the table alone and holds no new key yet.
LEMMA StartStep ==
  ASSUME IInv, NEW r \in Requests, Start(r)
  PROVE  IInv'
<1>1. CASE \E op \in {"create", "revoke", "list"} : Gate(r, op)
  <2>1. PICK op \in {"create", "revoke", "list"} : Gate(r, op)
    BY <1>1
  <2>2. UNCHANGED <<now, table, minted, lost>>
    BY <2>1 DEF Gate
  <2>3. CASE \E a \in {"internal_error", "unauthorized"} : Answer(r, a)
    BY <2>2, <2>3, AnswerOnly DEF Answers
  <2>4. CASE /\ said' = Silent
             /\ \E k \in Keys \cup {NoKey} :
                  req' = [req EXCEPT ![r] =
                    [Blank EXCEPT !.pc = "s21", !.op = op,
                                  !.held = IF KeyUsable(k) THEN {table[k].scopes} ELSE {}]]
    <3>1. PICK k \in Keys \cup {NoKey} :
            req' = [req EXCEPT ![r] =
              [Blank EXCEPT !.pc = "s21", !.op = op,
                            !.held = IF KeyUsable(k) THEN {table[k].scopes} ELSE {}]]
      BY <2>4
    <3> DEFINE held == IF KeyUsable(k) THEN {table[k].scopes} ELSE {}
               q == [Blank EXCEPT !.pc = "s21", !.op = op, !.held = held]
    <3>2. held \in SUBSET AllowedScopes
      BY DEF KeyUsable, IInv, TypeOK, RowType
    <3>3. RequestOK(q) /\ q.pc # "insert"
      BY <3>2, BlankOK DEF RequestOK, RequestType, Locations
    <3> HIDE DEF held, q
    <3> QED
      BY <2>2, <2>4, <3>1, <3>3, SilentOK, RequestOnly DEF q, held
  <2> QED
    BY <2>1, <2>3, <2>4 DEF Gate
<1>2. CASE RunCreate(r)
  <2>1. PICK n \in Names \cup OddNames, sc \in MintScopes, o \in CliOwners :
          req' = [req EXCEPT ![r] = [Blank EXCEPT !.pc = "mint", !.op = "create",
                                                  !.name = n, !.scopes = sc, !.owner = o]]
    BY <1>2 DEF RunCreate
  <2> DEFINE q == [Blank EXCEPT !.pc = "mint", !.op = "create",
                                !.name = n, !.scopes = sc, !.owner = o]
  <2>2. RequestOK(q) /\ q.pc # "insert"
    BY BlankOK, Constants DEF RequestOK, RequestType, Locations
  <2> HIDE DEF q
  <2> QED
    BY <1>2, <2>1, <2>2, SilentOK, RequestOnly DEF RunCreate, q
<1>3. CASE RunRevoke(r)
  <2>1. PICK n \in Names \cup OddNames :
          req' = [req EXCEPT ![r] = [Blank EXCEPT !.pc = "revoke", !.op = "revoke",
                                                  !.name = n, !.at = now]]
    BY <1>3 DEF RunRevoke
  <2> DEFINE q == [Blank EXCEPT !.pc = "revoke", !.op = "revoke", !.name = n, !.at = now]
  <2>2. RequestOK(q) /\ q.pc # "insert"
    BY BlankOK DEF RequestOK, RequestType, Locations, IInv, TypeOK
  <2> HIDE DEF q
  <2> QED
    BY <1>3, <2>1, <2>2, SilentOK, RequestOnly DEF RunRevoke, q
<1> QED
  BY <1>1, <1>2, <1>3 DEF Start

\* The decoding of a request body or query.
LEMMA ReadStep ==
  ASSUME IInv, NEW r \in Requests, ReadCreate(r) \/ ReadQuery(r)
  PROVE  IInv'
<1>1. UNCHANGED <<now, table, minted, lost>>
  BY DEF ReadCreate, ReadQuery
<1>2. CASE \E a \in {"bad_request", "panic", "forbidden"} : Answer(r, a)
  BY <1>1, <1>2, AnswerOnly DEF Answers
<1>3. CASE /\ said' = Silent
           /\ \E n \in Names, sc \in MintScopes, o \in Owners \cup {NoOwner} :
                req' = [req EXCEPT ![r] =
                  [Blank EXCEPT !.pc = IF o = NoOwner THEN "mint" ELSE "count",
                                !.op = "create", !.name = n, !.scopes = sc, !.owner = o]]
  <2>1. PICK n \in Names, sc \in MintScopes, o \in Owners \cup {NoOwner} :
          req' = [req EXCEPT ![r] =
            [Blank EXCEPT !.pc = IF o = NoOwner THEN "mint" ELSE "count",
                          !.op = "create", !.name = n, !.scopes = sc, !.owner = o]]
    BY <1>3
  <2> DEFINE q == [Blank EXCEPT !.pc = IF o = NoOwner THEN "mint" ELSE "count",
                                !.op = "create", !.name = n, !.scopes = sc, !.owner = o]
  <2>2. RequestOK(q) /\ q.pc # "insert"
    BY BlankOK, Constants DEF RequestOK, RequestType, Locations
  <2> HIDE DEF q
  <2> QED
    BY <1>1, <1>3, <2>1, <2>2, SilentOK, RequestOnly DEF q
<1>4. CASE /\ said' = Silent /\ req[r].op \in {"revoke", "list"}
           /\ \E n \in Names, o \in Owners \cup {NoOwner} :
                req' = [req EXCEPT ![r] =
                  [Blank EXCEPT !.pc = req[r].op, !.op = req[r].op, !.name = n,
                                !.owner = o, !.at = now]]
  <2>1. PICK n \in Names, o \in Owners \cup {NoOwner} :
          req' = [req EXCEPT ![r] =
            [Blank EXCEPT !.pc = req[r].op, !.op = req[r].op, !.name = n,
                          !.owner = o, !.at = now]]
    BY <1>4
  <2> DEFINE q == [Blank EXCEPT !.pc = req[r].op, !.op = req[r].op, !.name = n,
                                !.owner = o, !.at = now]
  <2>2. RequestOK(q) /\ q.pc # "insert"
    BY <1>4, BlankOK DEF RequestOK, RequestType, Locations, IInv, TypeOK
  <2> HIDE DEF q
  <2> QED
    BY <1>1, <1>4, <2>1, <2>2, SilentOK, RequestOnly DEF q
<1>5. AdminCheck(req[r].held) \in {"ok", "panic", "forbidden"}
  BY DEF AdminCheck
<1> QED
  BY <1>2, <1>3, <1>4, <1>5 DEF ReadCreate, ReadQuery

LEMMA GotoMintStep ==
  ASSUME IInv, NEW r \in Requests, req[r].pc = "count", Goto(r, "mint"),
         UNCHANGED <<now, table, minted, lost>>
  PROVE  IInv'
<1> DEFINE q == [req[r] EXCEPT !.pc = "mint"]
<1>1. RequestOK(q) /\ q.pc # "insert"
  BY RequestsOK DEF RequestOK, RequestType, Locations
<1>2. req' = [req EXCEPT ![r] = q] /\ said' = Silent
  BY DEF Goto
<1> HIDE DEF q
<1> QED
  BY <1>1, <1>2, SilentOK, RequestOnly

\* A request that is over, having changed the rows in did.
LEMMA AnswerDoneOK ==
  ASSUME IInv, NEW r \in Requests, NEW a \in Answers, NEW did \in SUBSET Nat,
         AnswerDone(r, a, did)
  PROVE  RequestOK(Blank) /\ Blank.pc # "insert"
         /\ req' = [req EXCEPT ![r] = Blank] /\ SaidOK(said')
BY BlankOK DEF AnswerDone, SaidOK

LEMMA InsertCommits ==
  ASSUME IInv, NEW r \in Requests, Insert(r) \/ InsertUnacked(r)
  PROVE  IInv'
<1>1. req[r] \in RequestType /\ req[r].did \in SUBSET Nat /\ req[r].new \in Nat
  BY RequestsOK DEF RequestOK, RequestType
<1>2. CanInsert(r) /\ InsertRow(r) /\ UNCHANGED <<now, minted>>
  BY DEF Insert, InsertUnacked
<1>3. CASE Insert(r)
  <2>1. req[r].did \cup {req[r].new} \in SUBSET Nat /\ "created" \in Answers
    BY <1>1 DEF Answers
  <2>2. AnswerDone(r, "created", req[r].did \cup {req[r].new}) /\ lost' = lost
    BY <1>3 DEF Insert
  <2> QED
    BY <1>2, <2>1, <2>2, AnswerDoneOK, InsertStep
<1>4. CASE InsertUnacked(r)
  <2> DEFINE q == [req[r] EXCEPT !.did = @ \cup {req[r].new}]
  <2>1. RequestOK(q) /\ q.new = req[r].new
    BY <1>1, RequestsOK DEF RequestOK, RequestType
  <2>2. req' = [req EXCEPT ![r] = q] /\ said' = Silent /\ lost' = lost + 1
    BY <1>4 DEF InsertUnacked
  <2>3. lost' # 0
    BY <2>2 DEF IInv, TypeOK
  <2> HIDE DEF q
  <2> QED
    BY <1>2, <2>1, <2>2, <2>3, SilentOK, InsertStep
<1> QED
  BY <1>3, <1>4

LEMMA RevokeCommits ==
  ASSUME IInv, NEW r \in Requests, Revoke(r) \/ RevokeUnacked(r)
  PROVE  IInv'
<1>1. req[r] \in RequestType /\ req[r].did \in SUBSET Nat /\ req[r].pc = "revoke"
  BY RequestsOK DEF RequestOK, RequestType, Revoke, RevokeUnacked
<1>2. RevokeTargets(r) \subseteq Nat /\ UNCHANGED <<now, minted>>
  BY DEF Revoke, RevokeUnacked, RevokeTargets, Revocable, ActiveKeys, IInv, TypeOK
<1>3. CASE Revoke(r)
  <2>1. PICK k \in RevokeTargets(r) :
          table' = Revoked(table, k, req[r].at) /\ AnswerDone(r, "revoked", req[r].did \cup {k})
    BY <1>3 DEF Revoke
  <2>2. req[r].did \cup {k} \in SUBSET Nat /\ "revoked" \in Answers /\ lost' = lost
    BY <1>1, <1>2, <1>3 DEF Answers, Revoke
  <2> QED
    BY <1>2, <2>1, <2>2, AnswerDoneOK, RevokeStep
<1>4. CASE RevokeUnacked(r)
  <2>1. PICK k \in RevokeTargets(r) :
          /\ table' = Revoked(table, k, req[r].at)
          /\ req' = [req EXCEPT ![r].did = @ \cup {k}]
    BY <1>4 DEF RevokeUnacked
  <2> DEFINE q == [req[r] EXCEPT !.did = @ \cup {k}]
  <2>2. RequestOK(q) /\ q.pc # "insert"
    BY <1>1, <1>2, RequestsOK DEF RequestOK, RequestType
  <2>3. req' = [req EXCEPT ![r] = q] /\ said' = Silent /\ lost' = lost + 1
    BY <1>4, <2>1 DEF RevokeUnacked
  <2> HIDE DEF q
  <2> QED
    BY <1>2, <2>1, <2>2, <2>3, SilentOK, RevokeStep
<1> QED
  BY <1>3, <1>4

\* A request cut off, its transaction committed or not.
LEMMA KillStep ==
  ASSUME IInv, NEW r \in Requests, Kill(r)
  PROVE  IInv'
<1>1. "killed" \in Answers /\ Answer(r, "killed") /\ UNCHANGED <<now, minted, lost>>
  BY DEF Answers, Kill
<1>2. CASE UNCHANGED table
  BY <1>1, <1>2, AnswerOnly
<1>3. CASE CanInsert(r) /\ InsertRow(r)
  BY <1>1, <1>3, AnswerOK, InsertStep
<1>4. CASE \E k \in RevokeTargets(r) : table' = Revoked(table, k, req[r].at)
  BY <1>1, <1>4, AnswerOK, RevokeStep
<1> QED
  BY <1>2, <1>3, <1>4 DEF Kill

LEMMA StepStep ==
  ASSUME IInv, NEW r \in Requests, Step(r)
  PROVE  IInv'
<1>1. CASE S21Denies(r)
  BY <1>1, AnswerOnly DEF S21Denies, Answers
<1>2. CASE ReadCreate(r) \/ ReadQuery(r)
  BY <1>2, ReadStep
<1>3. CASE Count(r)
  BY <1>3, AnswerOnly, GotoMintStep DEF Count, Answers
<1>4. CASE Mint(r)
  BY <1>4, MintStep
<1>5. CASE Insert(r) \/ InsertUnacked(r)
  BY <1>5, InsertCommits
<1>6. CASE InsertConflict(r)
  <2>1. InsertResult(table, RowOf(req[r])) \in Answers
    BY DEF InsertResult, Answers
  <2> QED
    BY <1>6, <2>1, AnswerOnly DEF InsertConflict
<1>7. CASE Revoke(r) \/ RevokeUnacked(r)
  BY <1>7, RevokeCommits
<1>8. CASE RevokeNotFound(r)
  BY <1>8, AnswerOnly DEF RevokeNotFound, Answers
<1>9. CASE List(r)
  BY <1>9, AnswerOnly DEF List, Answers
<1>10. CASE StoreError(r)
  BY <1>10, AnswerOnly DEF StoreError, Answers
<1> QED
  BY <1>1, <1>2, <1>3, <1>4, <1>5, <1>6, <1>7, <1>8, <1>9, <1>10 DEF Step

LEMMA NextInv == IInv /\ [Next]_vars => IInv'
<1> SUFFICES ASSUME IInv, [Next]_vars PROVE IInv'
  OBVIOUS
<1>1. CASE \E r \in Requests : Start(r) \/ Step(r) \/ Kill(r)
  BY <1>1, StartStep, StepStep, KillStep
<1>2. CASE Tick
  <2>1. TypeOK'
    BY <1>2, SilentOK DEF Tick, IInv, TypeOK, SaidOK
  <2>2. ActiveKeysDistinct' /\ KeysFresh'
    BY <1>2 DEF Tick, IInv, ActiveKeysDistinct, ActiveKeys, KeysFresh
  <2> QED
    BY <2>1, <2>2 DEF IInv
<1>3. CASE UNCHANGED vars
  <2>1. TypeOK'
    BY <1>3 DEF vars, IInv, TypeOK
  <2>2. ActiveKeysDistinct' /\ KeysFresh'
    BY <1>3 DEF vars, IInv, ActiveKeysDistinct, ActiveKeys, KeysFresh
  <2> QED
    BY <2>1, <2>2 DEF IInv
<1> QED
  BY <1>1, <1>2, <1>3 DEF Next

LEMMA Invariant == Spec => []IInv
BY InitInv, NextInv, PTL DEF Spec

\* The types of the table, the counters, the requests and the answers.
THEOREM TypeCorrect == Spec => []TypeOK
<1>1. IInv => TypeOK
  BY DEF IInv
<1> QED
  BY <1>1, Invariant, PTL

\* Active keys keep distinct names and owners, whatever creates and revokes
\* interleave, are cut off or are rerun (ydbstore.go:339-446).
THEOREM ActiveDistinct == Spec => []ActiveKeysDistinct
<1>1. IInv => ActiveKeysDistinct
  BY DEF IInv
<1> QED
  BY <1>1, Invariant, PTL
-----------------------------------------------------------------------------
\* From here on: what holds as long as every acknowledgement arrives.
Reliable == IInv /\ lost = 0

LEMMA ReliableNext ==
  ASSUME LostAcks = 0, Reliable, [Next]_vars
  PROVE  Reliable'
<1>1. \A r \in Requests : ~InsertUnacked(r) /\ ~RevokeUnacked(r)
  BY DEF Reliable, InsertUnacked, RevokeUnacked
<1>2. \A r \in Requests : Start(r) \/ Step(r) \/ Kill(r) => lost' = lost
  BY <1>1 DEF Start, Step, Gate, RunCreate, RunRevoke, S21Denies, ReadCreate, ReadQuery,
     Count, Mint, Insert, InsertConflict, Revoke, RevokeNotFound, List, StoreError, Kill
<1>3. lost' = lost
  BY <1>2 DEF Next, vars, Tick
<1> QED
  BY <1>3, NextInv DEF Reliable

LEMMA InsertSeen ==
  ASSUME Reliable, NEW r \in Requests, CanInsert(r), InsertRow(r)
  PROVE  /\ Registry!Next
         /\ \A k \in DOMAIN table : k \in DOMAIN table' /\ table'[k] = table[k]
<1> DEFINE k == req[r].new
           row == RowOf(req[r])
<1>1. /\ row \in RowType /\ row.revokedAt = Never /\ k \in 1..minted
      /\ \A j \in ActiveKeys(table) : table[j].name # row.name
      /\ row.owner # NoOwner => \A j \in ActiveKeys(table) : table[j].owner # row.owner
      /\ table' = [x \in DOMAIN table \cup {k} |-> IF x = k THEN row ELSE table[x]]
  BY InsertRowOK DEF InsertRow, Reliable
<1>2. k \notin DOMAIN table /\ k \in Keys
  <2>1. k \notin DOMAIN table
    BY DEF Reliable, IInv, KeysFresh, CanInsert
  <2>2. minted \in 1..MaxKeys
    BY DEF Reliable, IInv, KeysFresh
  <2> HIDE DEF k
  <2> QED
    BY <1>1, <2>1, <2>2, Constants DEF Keys
<1> HIDE DEF k, row
<1>3. row.name \in Names \cup OddNames /\ row.owner \in Owners \cup {NoOwner}
  BY <1>1 DEF RowType
<1>4. Records(table)' = [x \in DOMAIN Records(table) \cup {k} |->
                           IF x = k THEN [name |-> row.name, owner |-> row.owner, active |-> TRUE]
                           ELSE Records(table)[x]]
  <2>1. /\ DOMAIN table' = DOMAIN table \cup {k} /\ table'[k] = row
        /\ \A x \in DOMAIN table : x # k => table'[x] = table[x]
    BY <1>1
  <2>2. /\ DOMAIN Records(table') = DOMAIN Records(table) \cup {k}
        /\ Records(table')[k] = [name |-> row.name, owner |-> row.owner, active |-> TRUE]
        /\ \A x \in DOMAIN Records(table) : x # k => Records(table')[x] = Records(table)[x]
    BY <1>1, <2>1, ActiveRecord DEF Records
  <2> QED
    BY <2>2, Seen
<1>5. \A x \in DOMAIN Records(table) : Records(table)[x].active =>
        Records(table)[x].name # row.name /\ (row.owner # NoOwner => Records(table)[x].owner # row.owner)
  BY <1>1, Seen DEF ActiveKeys
<1>6. k \notin DOMAIN Records(table)
  BY <1>2, Seen
<1>7. Registry!Issue(k, row.name, row.owner)
  BY <1>4, <1>5, <1>6 DEF Registry!Issue, Registry!Live
<1> QED
  BY <1>1, <1>2, <1>3, <1>7 DEF Registry!Next, Registry!Issue

LEMMA RevokeSeen ==
  ASSUME Reliable, NEW r \in Requests, NEW k \in RevokeTargets(r),
         table' = Revoked(table, k, req[r].at)
  PROVE  /\ Registry!Next
         /\ \A x \in DOMAIN table :
              x \in DOMAIN table' /\ (~IsActive(table[x]) => table'[x] = table[x])
<1> DEFINE row == [table[k] EXCEPT !.revokedAt = req[r].at]
<1>1. /\ k \in DOMAIN table /\ IsActive(table[k]) /\ table[k] \in RowType /\ req[r].at \in Nat
      /\ table' = [table EXCEPT ![k] = row] /\ k \in Keys
  <2>1. k \in DOMAIN table /\ IsActive(table[k]) /\ table' = [table EXCEPT ![k] = row]
    BY DEF RevokeTargets, Revocable, ActiveKeys, Revoked
  <2>2. table[k] \in RowType /\ req[r].at \in Nat
    BY <2>1, RequestsOK DEF Reliable, IInv, TypeOK, RequestOK, RequestType
  <2>3. k \in 1..minted /\ minted \in 1..MaxKeys
    BY <2>1 DEF Reliable, IInv, KeysFresh
  <2>4. k \in Keys
    BY <2>3, Constants DEF Keys
  <2> QED
    BY <2>1, <2>2, <2>4
<1>2. row.name = table[k].name /\ row.owner = table[k].owner /\ row.revokedAt = req[r].at
  BY <1>1 DEF RowType
<1>3. /\ Records(table)' = [Records(table) EXCEPT ![k].active = FALSE]
      /\ k \in DOMAIN Records(table) /\ Records(table)[k].active
  <2>1. /\ DOMAIN table' = DOMAIN table /\ table'[k] = row
        /\ \A x \in DOMAIN table : x # k => table'[x] = table[x]
    BY <1>1
  <2>2. /\ DOMAIN Records(table') = DOMAIN Records(table) /\ k \in DOMAIN Records(table)
        /\ \A x \in DOMAIN Records(table) : x # k => Records(table')[x] = Records(table)[x]
        /\ Records(table')[k] = Record(row)
    BY <1>1, <2>1 DEF Records
  <2>3. row.revokedAt # Never
    BY <1>1, <1>2, Constants
  <2>4. Records(table)[k] = Record(table[k])
    BY <1>1 DEF Records
  <2>5. Records(table')[k] = [Records(table)[k] EXCEPT !.active = FALSE]
    <3>1. Record(row) = [Record(table[k]) EXCEPT !.active = FALSE]
      BY <1>2, <2>3, RevokedRecord
    <3> QED
      BY <2>2, <2>4, <3>1
  <2>6. Records(table)[k].active
    BY <1>1, Seen
  <2>7. Records(table') = [x \in DOMAIN Records(table) |->
                             IF x = k THEN [Records(table)[k] EXCEPT !.active = FALSE]
                             ELSE Records(table)[x]]
    <3>1. Records(table') = [x \in DOMAIN Records(table') |-> Records(table')[x]]
      BY DEF Records
    <3> DEFINE new == Records(table')
               old == Records(table)
    <3> HIDE DEF new, old
    <3>2. new = [x \in DOMAIN new |-> new[x]] /\ DOMAIN new = DOMAIN old
      BY <2>2, <3>1 DEF new, old
    <3>3. \A x \in DOMAIN old :
            new[x] = IF x = k THEN [old[k] EXCEPT !.active = FALSE] ELSE old[x]
      BY <2>2, <2>5 DEF new, old
    <3>4. new = [x \in DOMAIN old |-> IF x = k THEN [old[k] EXCEPT !.active = FALSE] ELSE old[x]]
      BY <3>2, <3>3
    <3> QED
      BY <3>4 DEF new, old
  <2>8. Records(table)' = Records(table')
    OBVIOUS
  <2> QED
    BY <2>2, <2>6, <2>7, <2>8
<1>4. Registry!Revoke(k)
  BY <1>3 DEF Registry!Revoke, Registry!Live
<1>5. \A x \in DOMAIN table :
        x \in DOMAIN table' /\ (~IsActive(table[x]) => table'[x] = table[x])
  BY <1>1
<1> QED
  BY <1>1, <1>4, <1>5 DEF Registry!Next

\* Every other step leaves the table alone.
LEMMA NextSeen ==
  ASSUME LostAcks = 0, Reliable, [Next]_vars
  PROVE  /\ Registry!Next \/ UNCHANGED table
         /\ \A k \in DOMAIN table :
              k \in DOMAIN table' /\ (~IsActive(table[k]) => table'[k] = table[k])
<1>1. CASE UNCHANGED table
  BY <1>1
<1>2. CASE \E r \in Requests : CanInsert(r) /\ InsertRow(r)
  BY <1>2, InsertSeen
<1>3. CASE \E r \in Requests : \E k \in RevokeTargets(r) : table' = Revoked(table, k, req[r].at)
  BY <1>3, RevokeSeen
<1> QED
  BY <1>1, <1>2, <1>3 DEF Next, vars, Start, Step, Gate, RunCreate, RunRevoke, S21Denies,
     ReadCreate, ReadQuery, Count, Mint, Insert, InsertConflict, InsertUnacked, Revoke,
     RevokeNotFound, RevokeUnacked, List, StoreError, Kill, Tick

LEMMA InitSeen == Init => Registry!Init
<1> SUFFICES ASSUME Init PROVE Registry!Init
  OBVIOUS
<1>1. /\ DOMAIN table = {1} /\ table[1] = FirstRow /\ 1 \in Keys /\ FirstName \in Names
      /\ FirstRow.name = FirstName /\ FirstRow.owner = NoOwner /\ IsActive(FirstRow)
  BY Constants DEF Init, Keys, FirstRow, IsActive
<1> QED
  BY <1>1 DEF Registry!Init, Records, Record

\* Without lost acknowledgements "Revoke is a soft delete": no step, of any
\* number of requests and commands, takes a row away or changes one that is
\* revoked (ydbstore.go:380-446).
THEOREM RevokedForGood == LostAcks = 0 => (Spec => RevokedStaysRevoked)
<1> SUFFICES ASSUME LostAcks = 0 PROVE Spec => RevokedStaysRevoked
  OBVIOUS
<1>1. Init => Reliable
  BY InitInv DEF Init, Reliable
<1>2. Reliable /\ [Next]_vars => Reliable'
  BY ReliableNext
<1>3. Reliable /\ [Next]_vars =>
        [\A k \in DOMAIN table :
           /\ k \in DOMAIN table'
           /\ ~IsActive(table[k]) => table'[k] = table[k]]_vars
  BY NextSeen
<1> QED
  BY <1>1, <1>2, <1>3, PTL DEF Spec, RevokedStaysRevoked

\* Without lost acknowledgements the handlers and the CLI implement the
\* registry: keys are issued once, one at a time, and revoked for good.
THEOREM RegistryRefinement == LostAcks = 0 => (Spec => ImplementsRegistry)
<1> SUFFICES ASSUME LostAcks = 0 PROVE Spec => ImplementsRegistry
  OBVIOUS
<1>1. Init => Reliable /\ Registry!Init
  BY InitInv, InitSeen DEF Init, Reliable
<1>2. Reliable /\ [Next]_vars => Reliable'
  BY ReliableNext
<1>3. Reliable /\ [Next]_vars => [Registry!Next]_(Records(table))
  BY NextSeen DEF Records
<1> QED
  BY <1>1, <1>2, <1>3, PTL DEF Spec, ImplementsRegistry, Registry!Spec

\* Answers: while none is lost, no request under way has changed a row yet.
Unspent == \A r \in Requests : req[r].did = {}

LEMMA QuietStep ==
  ASSUME IInv, Unspent, NEW r \in Requests, NEW q, q.did = {},
         req' = [req EXCEPT ![r] = q], said' = Silent
  PROVE  Unspent' /\ HonestAnswers'
<1>1. Unspent'
  BY DEF Unspent, IInv, TypeOK
<1>2. said'.answer = "none" /\ said'.did = {}
  BY DEF Silent
<1> QED
  BY <1>1, <1>2 DEF HonestAnswers

LEMMA PlainAnswer ==
  ASSUME IInv, Unspent, NEW r \in Requests, NEW a, a \notin {"created", "revoked"}, Answer(r, a)
  PROVE  Unspent' /\ HonestAnswers'
<1>1. req' = [req EXCEPT ![r] = Blank] /\ said' = [answer |-> a, did |-> {}] /\ Blank.did = {}
  BY DEF Answer, AnswerDone, Unspent, Blank
<1>2. Unspent'
  BY <1>1 DEF Unspent, IInv, TypeOK
<1> QED
  BY <1>1, <1>2 DEF HonestAnswers

LEMMA InsertAnswer ==
  ASSUME IInv, Unspent, NEW r \in Requests, Insert(r)
  PROVE  Unspent' /\ HonestAnswers'
<1> DEFINE k == req[r].new
<1>1. /\ req' = [req EXCEPT ![r] = Blank] /\ Blank.did = {}
      /\ said' = [answer |-> "created", did |-> {k}]
  BY DEF Insert, AnswerDone, Unspent, Blank
<1>2. k \in DOMAIN table'
  BY DEF Insert, InsertRow, Inserted
<1>3. Unspent'
  BY <1>1 DEF Unspent, IInv, TypeOK
<1> HIDE DEF k
<1> QED
  BY <1>1, <1>2, <1>3 DEF HonestAnswers

LEMMA RevokeAnswer ==
  ASSUME IInv, Unspent, NEW r \in Requests, Revoke(r)
  PROVE  Unspent' /\ HonestAnswers'
<1>1. PICK k \in RevokeTargets(r) :
        table' = Revoked(table, k, req[r].at) /\ AnswerDone(r, "revoked", req[r].did \cup {k})
  BY DEF Revoke
<1>2. /\ req' = [req EXCEPT ![r] = Blank] /\ Blank.did = {}
      /\ said' = [answer |-> "revoked", did |-> {k}]
  BY <1>1 DEF AnswerDone, Unspent, Blank
<1>3. Unspent'
  BY <1>2 DEF Unspent, IInv, TypeOK
<1>4. k \in DOMAIN table /\ table[k] \in RowType /\ req[r].at \in Nat
  BY RequestsOK DEF RevokeTargets, Revocable, ActiveKeys, IInv, TypeOK, RequestOK, RequestType
<1>5. k \in DOMAIN table' /\ table'[k].revokedAt = req[r].at
  BY <1>1, <1>4 DEF Revoked, RowType
<1>6. ~IsActive(table'[k])
  BY <1>4, <1>5, Constants DEF IsActive
<1> QED
  BY <1>2, <1>3, <1>5, <1>6 DEF HonestAnswers

LEMMA QuietSteps ==
  ASSUME IInv, NEW r \in Requests, req[r].pc \in {"count", "mint"} => req[r].did = {},
         said' = Silent,
         Start(r) \/ ReadCreate(r) \/ ReadQuery(r) \/ Count(r) \/ Mint(r)
  PROVE  \E q : /\ q.did = {} /\ (q.pc = "insert" => q.new = minted + 1)
               /\ req' = [req EXCEPT ![r] = q]
<1>1. /\ Blank \in RequestType /\ Blank.did = {} /\ Blank.pc = "idle" /\ req[r] \in RequestType
      /\ Count(r) \/ Mint(r) => req[r].did = {}
  BY BlankOK, RequestsOK DEF RequestOK, Blank, Count, Mint
<1>2. ASSUME NEW a, Answer(r, a)
      PROVE  req' = [req EXCEPT ![r] = Blank]
  BY <1>2 DEF Answer, AnswerDone
<1>3. CASE ReadCreate(r)
  BY <1>1, <1>2, <1>3 DEF ReadCreate, RequestType
<1>4. CASE ReadQuery(r)
  BY <1>1, <1>2, <1>4 DEF ReadQuery, RequestType
<1>5. CASE Count(r)
  BY <1>1, <1>2, <1>5 DEF Count, Goto, RequestType
<1>6. CASE Mint(r)
  <2>1. req' = [req EXCEPT ![r] = [req[r] EXCEPT !.pc = "insert", !.new = minted + 1, !.at = now]]
    BY <1>6 DEF Mint, IInv, TypeOK
  <2> QED
    BY <1>1, <1>6, <2>1 DEF RequestType
<1>7. CASE RunCreate(r)
  BY <1>1, <1>7 DEF RunCreate, RequestType
<1>8. CASE RunRevoke(r)
  BY <1>1, <1>8 DEF RunRevoke, RequestType
<1>9. CASE \E op \in {"create", "revoke", "list"} : Gate(r, op)
  BY <1>1, <1>2, <1>9 DEF Gate, RequestType
<1> QED
  BY <1>3, <1>4, <1>5, <1>6, <1>7, <1>8, <1>9 DEF Start

LEMMA HonestNext ==
  ASSUME LostAcks = 0, Reliable, Unspent, HonestAnswers, [Next]_vars
  PROVE  Unspent' /\ HonestAnswers'
<1>1. IInv
  BY DEF Reliable
<1>2. ASSUME NEW r \in Requests, Start(r) \/ ReadCreate(r) \/ ReadQuery(r) \/ Count(r) \/ Mint(r)
      PROVE  Unspent' /\ HonestAnswers'
  <2>1. \/ said' = Silent
        \/ \E a : a \notin {"created", "revoked"} /\ Answer(r, a)
    BY <1>2 DEF Start, Gate, RunCreate, RunRevoke, ReadCreate, ReadQuery, AdminCheck, Count,
       Goto, Mint
  <2> QED
    BY <1>1, <1>2, <2>1, QuietSteps, QuietStep, PlainAnswer DEF Unspent
<1>3. ASSUME NEW r \in Requests,
             \/ S21Denies(r) \/ InsertConflict(r) \/ RevokeNotFound(r) \/ List(r)
             \/ StoreError(r) \/ Kill(r)
      PROVE  Unspent' /\ HonestAnswers'
  <2>1. \E a : a \notin {"created", "revoked"} /\ Answer(r, a)
    BY <1>3 DEF S21Denies, InsertConflict, InsertResult, RevokeNotFound, List, StoreError, Kill
  <2> QED
    BY <1>1, <2>1, PlainAnswer
<1>4. \A r \in Requests : ~InsertUnacked(r) /\ ~RevokeUnacked(r)
  BY DEF Reliable, InsertUnacked, RevokeUnacked
<1>5. ASSUME NEW r \in Requests, Start(r) \/ Step(r) \/ Kill(r)
      PROVE  Unspent' /\ HonestAnswers'
  BY <1>1, <1>2, <1>3, <1>4, <1>5, InsertAnswer, RevokeAnswer DEF Step
<1>6. CASE Tick
  BY <1>6 DEF Tick, Unspent, HonestAnswers, Silent
<1>7. CASE UNCHANGED vars
  BY <1>7 DEF vars, Unspent, HonestAnswers
<1> QED
  BY <1>5, <1>6, <1>7 DEF Next

\* Without lost acknowledgements every answer is true, whatever interleaves: a
\* 201 stands for one new key, a 204 for one key revoked, and every other
\* answer for a table the request left alone (server.go:684-694, 736-745).
THEOREM AnswersHonest == LostAcks = 0 => (Spec => []HonestAnswers)
<1> SUFFICES ASSUME LostAcks = 0 PROVE Spec => []HonestAnswers
  OBVIOUS
<1>1. Init => Reliable /\ Unspent /\ HonestAnswers
  BY InitInv DEF Init, Reliable, Unspent, HonestAnswers, Blank, Silent
<1>2. Reliable /\ Unspent /\ HonestAnswers /\ [Next]_vars
        => Reliable' /\ Unspent' /\ HonestAnswers'
  BY ReliableNext, HonestNext
<1> QED
  BY <1>1, <1>2, PTL DEF Spec

\* With the gate enforcing, a request past it holds the row of its key.
Gated == NoPanic /\ \A r \in Requests : req[r].pc = "s21" => req[r].held # {}

LEMMA GatedAnswer ==
  ASSUME IInv, Gated, NEW r \in Requests, NEW a, a # "panic",
         Answer(r, a) \/ (\E did : AnswerDone(r, a, did))
  PROVE  Gated'
<1>1. req' = [req EXCEPT ![r] = Blank] /\ said'.answer = a
  BY DEF Answer, AnswerDone
<1> QED
  BY <1>1, BlankOK DEF Gated, NoPanic, IInv, TypeOK

LEMMA GatedMove ==
  ASSUME IInv, Gated, NEW r \in Requests, NEW q, q.pc = "s21" => q.held # {},
         req' = [req EXCEPT ![r] = q], said' = Silent
  PROVE  Gated'
BY DEF Gated, NoPanic, Silent, IInv, TypeOK

LEMMA GatedStart ==
  ASSUME Enforce, IInv, Gated, NEW r \in Requests, Start(r)
  PROVE  Gated'
<1>1. Blank \in RequestType
  BY BlankOK DEF RequestOK
<1>2. CASE \E op \in {"create", "revoke", "list"} : Gate(r, op)
  <2>1. PICK op \in {"create", "revoke", "list"} : Gate(r, op)
    BY <1>2
  <2>2. CASE Answer(r, "internal_error") \/ Answer(r, "unauthorized")
    BY <2>2, GatedAnswer
  <2>3. CASE ~(Answer(r, "internal_error") \/ Answer(r, "unauthorized"))
    <3>1. PICK k \in Keys \cup {NoKey} :
            /\ KeyUsable(k) /\ said' = Silent
            /\ req' = [req EXCEPT ![r] = [Blank EXCEPT !.pc = "s21", !.op = op,
                                 !.held = IF KeyUsable(k) THEN {table[k].scopes} ELSE {}]]
      BY <2>1, <2>3 DEF Gate
    <3> DEFINE q == [Blank EXCEPT !.pc = "s21", !.op = op,
                                 !.held = IF KeyUsable(k) THEN {table[k].scopes} ELSE {}]
    <3>2. q.held # {}
      BY <1>1, <3>1 DEF RequestType
    <3>3. req' = [req EXCEPT ![r] = q]
      BY <3>1
    <3> HIDE DEF q
    <3> QED
      BY <3>1, <3>2, <3>3, GatedMove
  <2> QED
    BY <2>2, <2>3
<1>3. CASE RunCreate(r)
  BY <1>1, <1>3, GatedMove DEF RunCreate, RequestType
<1>4. CASE RunRevoke(r)
  BY <1>1, <1>4, GatedMove DEF RunRevoke, RequestType
<1> QED
  BY <1>2, <1>3, <1>4 DEF Start

LEMMA GatedStep ==
  ASSUME IInv, Gated, NEW r \in Requests, Step(r) \/ Kill(r)
  PROVE  Gated'
<1>1. Blank \in RequestType /\ req[r] \in RequestType
  BY BlankOK, RequestsOK DEF RequestOK
<1>2. CASE ReadCreate(r)
  <2>1. \/ Answer(r, "bad_request")
        \/ /\ said' = Silent
           /\ \E q : q.pc # "s21" /\ req' = [req EXCEPT ![r] = q]
    BY <1>1, <1>2 DEF ReadCreate, RequestType
  <2> QED
    BY <2>1, GatedAnswer, GatedMove
<1>3. CASE ReadQuery(r)
  <2>1. AdminCheck(req[r].held) # "panic"
    BY <1>3 DEF ReadQuery, AdminCheck, Gated
  <2>2. CASE said' # Silent
    BY <1>3, <2>1, <2>2, GatedAnswer DEF ReadQuery
  <2>3. CASE said' = Silent
    <3>1. \/ \E a : a # "panic" /\ Answer(r, a)
          \/ \E q : q.pc # "s21" /\ req' = [req EXCEPT ![r] = q]
      BY <1>1, <1>3, <2>1 DEF ReadQuery, RequestType
    <3> QED
      BY <2>3, <3>1, GatedAnswer, GatedMove
  <2> QED
    BY <2>2, <2>3
<1>4. CASE Count(r)
  BY <1>1, <1>4, GatedAnswer, GatedMove DEF Count, Goto, RequestType
<1>5. CASE Mint(r)
  <2>1. req' = [req EXCEPT ![r] = [req[r] EXCEPT !.pc = "insert", !.new = minted + 1, !.at = now]]
    BY <1>5 DEF Mint, IInv, TypeOK
  <2>2. \E q : q.pc # "s21" /\ req' = [req EXCEPT ![r] = q]
    BY <1>1, <2>1 DEF RequestType
  <2> QED
    BY <1>5, <2>2, GatedMove DEF Mint
<1>6. CASE InsertUnacked(r)
  BY <1>1, <1>6 DEF InsertUnacked, CanInsert, Gated, NoPanic, Silent, IInv, TypeOK, RequestType
<1>7. CASE RevokeUnacked(r)
  BY <1>1, <1>7 DEF RevokeUnacked, Gated, NoPanic, Silent, IInv, TypeOK, RequestType
<1>8. CASE \/ S21Denies(r) \/ Insert(r) \/ InsertConflict(r) \/ Revoke(r) \/ RevokeNotFound(r)
           \/ List(r) \/ StoreError(r) \/ Kill(r)
  <2>1. \E a : a # "panic" /\ (Answer(r, a) \/ (\E did : AnswerDone(r, a, did)))
    BY <1>8 DEF S21Denies, Insert, InsertConflict, InsertResult, Revoke, RevokeNotFound, List,
       StoreError, Kill
  <2> QED
    BY <2>1, GatedAnswer
<1> QED
  BY <1>2, <1>3, <1>4, <1>5, <1>6, <1>7, <1>8 DEF Step

\* With API_KEY_ENFORCE set no request dereferences a nil row, for any number
\* of requests (server.go:731, 773; the run keys_dry_run shows what happens
\* without it).
THEOREM RowAtHand == Enforce => (Spec => []NoPanic)
<1> SUFFICES ASSUME Enforce PROVE Spec => []NoPanic
  OBVIOUS
<1>1. Init => IInv /\ Gated
  BY InitInv, BlankOK DEF Init, Gated, NoPanic, Silent
<1>2. IInv /\ Gated /\ [Next]_vars => IInv' /\ Gated'
  <2> SUFFICES ASSUME IInv, Gated, [Next]_vars PROVE Gated'
    BY NextInv
  <2>1. CASE Tick
    BY <2>1 DEF Tick, Gated, NoPanic, Silent
  <2>2. CASE UNCHANGED vars
    BY <2>2 DEF vars, Gated, NoPanic
  <2> QED
    BY <2>1, <2>2, GatedStart, GatedStep DEF Next
<1>3. Gated => NoPanic
  BY DEF Gated
<1> QED
  BY <1>1, <1>2, <1>3, PTL DEF Spec
=============================================================================
