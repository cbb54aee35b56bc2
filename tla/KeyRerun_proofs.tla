--------------------------- MODULE KeyRerun_proofs ----------------------------
(***************************************************************************)
(* Proofs about module KeyAdmin when acknowledgements are lost and the     *)
(* driver runs a committed transaction again: what a rerun can do to the   *)
(* table, and how far the answer can be from what was done.                *)
(***************************************************************************)
EXTENDS KeyAdmin_proofs, FiniteSetTheorems

SameTerms(a, b) ==
  a.name = b.name /\ a.scopes = b.scopes /\ a.owner = b.owner /\ a.createdAt = b.createdAt

\* What request q has done to table tb, after n lost acknowledgements: a change
\* for each at most; before it writes, nothing; a creation, at most its own
\* row, which is then there as it wrote it, or revoked since.
Accounted(q, tb, n) ==
  /\ IsFiniteSet(q.did) /\ Cardinality(q.did) <= n
  /\ q.pc \notin {"insert", "revoke"} => q.did = {}
  /\ q.pc = "insert" =>
       /\ q.did \subseteq {q.new}
       /\ q.new \in DOMAIN tb => q.new \in q.did /\ SameTerms(tb[q.new], RowOf(q))

AllAccounted == \A r \in Requests : Accounted(req[r], table, lost)

RerunInv == IInv /\ AllAccounted /\ AnswersAccounted

\* A request that has done nothing is accounted for ...
LEMMA Undone ==
  ASSUME NEW q, NEW tb, NEW n \in Nat, q.did = {}, q.pc = "insert" => q.new \notin DOMAIN tb
  PROVE  Accounted(q, tb, n)
BY FS_EmptySet DEF Accounted

\* ... and one more change is one element more.
LEMMA OneMore ==
  ASSUME NEW D, NEW n \in Nat, IsFiniteSet(D), Cardinality(D) <= n, NEW k
  PROVE  /\ IsFiniteSet(D \cup {k})
         /\ Cardinality(D \cup {k}) >= 1 /\ Cardinality(D \cup {k}) <= n + 1
<1>1. /\ IsFiniteSet(D \cup {k}) /\ Cardinality(D) \in Nat
      /\ Cardinality(D \cup {k}) \in {Cardinality(D), Cardinality(D) + 1}
  BY FS_AddElement, FS_CardinalityType
<1>2. Cardinality({k}) = 1 /\ Cardinality({k}) <= Cardinality(D \cup {k})
  BY <1>1, FS_Singleton, FS_Subset
<1> QED
  BY <1>1, <1>2

\* The requests other than r, where the rows they are about to write again
\* keep their terms and no row of theirs appears.
LEMMA AccountedOthers ==
  ASSUME IInv, AllAccounted, NEW r \in Requests, NEW q, req' = [req EXCEPT ![r] = q],
         lost' \in {lost, lost + 1}, Accounted(q, table', lost'),
         \A s \in Requests \ {r} : req[s].pc = "insert" /\ req[s].new \in DOMAIN table' =>
           req[s].new \in DOMAIN table /\ SameTerms(table'[req[s].new], table[req[s].new])
  PROVE  AllAccounted'
<1>1. \A s \in Requests : req'[s] = IF s = r THEN q ELSE req[s]
  BY DEF IInv, TypeOK
<1>2. lost \in Nat /\ lost <= lost'
  BY DEF IInv, TypeOK
<1>3. ASSUME NEW s \in Requests \ {r}
      PROVE  Accounted(req[s], table', lost')
  <2>1. Accounted(req[s], table, lost)
    BY DEF AllAccounted
  <2>2. Cardinality(req[s].did) <= lost'
    BY <1>2, <2>1, FS_CardinalityType DEF Accounted
  <2>3. req[s].pc = "insert" /\ req[s].new \in DOMAIN table' =>
          req[s].new \in req[s].did /\ SameTerms(table'[req[s].new], RowOf(req[s]))
    BY <2>1 DEF Accounted, SameTerms
  <2> QED
    BY <2>1, <2>2, <2>3 DEF Accounted
<1>4. \A s \in Requests : Accounted(req'[s], table', lost')
  BY <1>1, <1>3
<1> QED
  BY <1>4 DEF AllAccounted

\* A step that leaves the table alone and has r go on with nothing done.
LEMMA AccountedQuiet ==
  ASSUME IInv, AllAccounted, NEW r \in Requests, NEW q, req' = [req EXCEPT ![r] = q],
         q.did = {}, q.pc = "insert" => q.new = minted + 1, UNCHANGED <<table, lost>>
  PROVE  AllAccounted'
<1>1. minted \in Nat /\ DOMAIN table \subseteq 1..minted /\ lost \in Nat
  BY DEF IInv, TypeOK, KeysFresh
<1>2. minted + 1 \notin DOMAIN table
  BY <1>1
<1>3. Accounted(q, table', lost')
  BY <1>1, <1>2, Undone
<1> QED
  BY <1>3, AccountedOthers DEF SameTerms

\* The table when r commits an insertion: only the row of r's own key appears
\* or changes, and if it was there it keeps its terms.
LEMMA AccountedInsert ==
  ASSUME IInv, AllAccounted, NEW r \in Requests, CanInsert(r), InsertRow(r)
  PROVE  /\ req[r].new \in DOMAIN table' /\ req[r].did \subseteq {req[r].new}
         /\ SameTerms(table'[req[r].new], RowOf(req[r]))
         /\ \A s \in Requests \ {r} : req[s].pc = "insert" /\ req[s].new \in DOMAIN table' =>
              req[s].new \in DOMAIN table /\ table'[req[s].new] = table[req[s].new]
         /\ \A k \in DOMAIN table :
              /\ k \in DOMAIN table' /\ SameTerms(table'[k], table[k]) /\ table'[k] \in RowType
              /\ table'[k] # table[k] => k = req[r].new /\ k \in req[r].did
<1> DEFINE k == req[r].new
           row == RowOf(req[r])
<1>1. /\ row \in RowType
      /\ table' = [x \in DOMAIN table \cup {k} |-> IF x = k THEN row ELSE table[x]]
  BY InsertRowOK DEF InsertRow
<1>2. req[r].pc = "insert" /\ \A s \in Requests \ {r} : req[s].pc = "insert" => req[s].new # k
  BY DEF CanInsert, IInv, KeysFresh
<1>3. /\ req[r].did \subseteq {k}
      /\ k \in DOMAIN table => k \in req[r].did /\ SameTerms(table[k], row)
  BY <1>2 DEF AllAccounted, Accounted
<1>4. \A x \in DOMAIN table : table[x] \in RowType
  BY DEF IInv, TypeOK
<1> HIDE DEF k, row
<1> SUFFICES /\ k \in DOMAIN table' /\ SameTerms(table'[k], row)
             /\ \A s \in Requests \ {r} : req[s].pc = "insert" /\ req[s].new \in DOMAIN table' =>
                  req[s].new \in DOMAIN table /\ table'[req[s].new] = table[req[s].new]
             /\ \A x \in DOMAIN table :
                  /\ x \in DOMAIN table' /\ SameTerms(table'[x], table[x]) /\ table'[x] \in RowType
                  /\ table'[x] # table[x] => x = k /\ x \in req[r].did
  BY <1>3 DEF k, row
<1>5. k \in DOMAIN table' /\ SameTerms(table'[k], row)
  BY <1>1 DEF SameTerms
<1>6. \A x \in DOMAIN table :
        /\ x \in DOMAIN table' /\ SameTerms(table'[x], table[x]) /\ table'[x] \in RowType
        /\ table'[x] # table[x] => x = k /\ x \in req[r].did
  BY <1>1, <1>3, <1>4 DEF SameTerms
<1> QED
  BY <1>1, <1>2, <1>5, <1>6

\* The table when r commits a revocation: an active row is revoked.
LEMMA AccountedRevoke ==
  ASSUME IInv, NEW r \in Requests, NEW k \in RevokeTargets(r),
         table' = Revoked(table, k, req[r].at)
  PROVE  /\ DOMAIN table' = DOMAIN table
         /\ \A x \in DOMAIN table : /\ SameTerms(table'[x], table[x]) /\ table'[x] \in RowType
                                    /\ table'[x] # table[x] => IsActive(table[x])
<1>1. /\ k \in DOMAIN table /\ IsActive(table[k]) /\ req[r].at \in Nat
      /\ table' = [table EXCEPT ![k] = [table[k] EXCEPT !.revokedAt = req[r].at]]
  BY RequestsOK DEF RevokeTargets, Revocable, ActiveKeys, Revoked, RequestOK, RequestType
<1>2. \A x \in DOMAIN table : table[x] \in RowType
  BY DEF IInv, TypeOK
<1> QED
  BY <1>1, <1>2 DEF SameTerms, RowType

\* A plain answer: nothing was done that a lost acknowledgement does not
\* explain.
LEMMA AccountedAnswer ==
  ASSUME IInv, AllAccounted, NEW r \in Requests, NEW a, a \notin {"created", "revoked"},
         Answer(r, a), UNCHANGED lost
  PROVE  AnswersAccounted' /\ req' = [req EXCEPT ![r] = Blank]
<1>1. /\ req' = [req EXCEPT ![r] = Blank]
      /\ said' = [answer |-> a, did |-> req[r].did]
  BY DEF Answer, AnswerDone
<1>2. IsFiniteSet(req[r].did) /\ Cardinality(req[r].did) <= lost
  BY DEF AllAccounted, Accounted
<1>3. Cardinality(req[r].did) \in Nat /\ lost \in Nat
  BY <1>2, FS_CardinalityType DEF IInv, TypeOK
<1> QED
  BY <1>1, <1>2, <1>3 DEF AnswersAccounted

LEMMA AccountedSilent ==
  ASSUME said' = Silent, lost' \in Nat
  PROVE  AnswersAccounted'
BY FS_EmptySet DEF AnswersAccounted, Silent

\* Insert, acknowledged, unacknowledged or cut off.
LEMMA RerunInsert ==
  ASSUME RerunInv, NEW r \in Requests, Insert(r) \/ InsertUnacked(r)
  PROVE  AllAccounted' /\ AnswersAccounted'
<1> DEFINE k == req[r].new
<1>1. /\ k \in DOMAIN table' /\ req[r].did \subseteq {k}
      /\ SameTerms(table'[k], RowOf(req[r]))
      /\ \A s \in Requests \ {r} : req[s].pc = "insert" /\ req[s].new \in DOMAIN table' =>
           req[s].new \in DOMAIN table /\ SameTerms(table'[req[s].new], table[req[s].new])
  BY AccountedInsert DEF RerunInv, Insert, InsertUnacked, SameTerms
<1>2. /\ lost \in Nat /\ IsFiniteSet({k}) /\ Cardinality({k}) = 1
      /\ req[r].did \cup {k} = {k}
  BY <1>1, FS_Singleton DEF RerunInv, IInv, TypeOK
<1>3. CASE Insert(r)
  <2>1. /\ req' = [req EXCEPT ![r] = Blank] /\ said' = [answer |-> "created", did |-> {k}]
        /\ lost' = lost
    BY <1>2, <1>3 DEF Insert, AnswerDone
  <2>2. Accounted(Blank, table', lost')
    BY <1>2, <2>1, BlankOK, Undone DEF Blank
  <2>3. AnswersAccounted'
    BY <1>1, <1>2, <2>1 DEF AnswersAccounted
  <2>4. AllAccounted'
    BY <1>1, <2>1, <2>2, AccountedOthers DEF RerunInv
  <2> QED
    BY <2>3, <2>4
<1>4. CASE InsertUnacked(r)
  <2> DEFINE q == [req[r] EXCEPT !.did = @ \cup {k}]
  <2>1. req' = [req EXCEPT ![r] = q] /\ said' = Silent /\ lost' = lost + 1
    BY <1>4 DEF InsertUnacked
  <2>2. /\ q.did = {k} /\ q.new = k /\ q.pc = "insert" /\ RowOf(q) = RowOf(req[r])
    BY <1>2, <1>4, RequestsOK DEF InsertUnacked, CanInsert, RequestOK, RequestType, RerunInv, RowOf
  <2> HIDE DEF q, k
  <2>3. Accounted(q, table', lost')
    BY <1>1, <1>2, <2>1, <2>2 DEF Accounted
  <2>4. AllAccounted'
    BY <1>1, <2>1, <2>3, AccountedOthers DEF RerunInv
  <2> QED
    BY <1>2, <2>1, <2>4, AccountedSilent
<1> QED
  BY <1>3, <1>4

LEMMA RerunRevoke ==
  ASSUME RerunInv, NEW r \in Requests, Revoke(r) \/ RevokeUnacked(r)
  PROVE  AllAccounted' /\ AnswersAccounted'
<1>1. PICK k \in RevokeTargets(r) :
        /\ table' = Revoked(table, k, req[r].at)
        /\ \/ AnswerDone(r, "revoked", req[r].did \cup {k}) /\ lost' = lost
           \/ /\ req' = [req EXCEPT ![r].did = @ \cup {k}]
              /\ said' = Silent /\ lost' = lost + 1
  BY DEF Revoke, RevokeUnacked
<1>2. \A s \in Requests \ {r} : req[s].pc = "insert" /\ req[s].new \in DOMAIN table' =>
        req[s].new \in DOMAIN table /\ SameTerms(table'[req[s].new], table[req[s].new])
  BY <1>1, AccountedRevoke DEF RerunInv
<1> DEFINE D == req[r].did \cup {k}
<1>3. /\ lost \in Nat /\ IsFiniteSet(D) /\ Cardinality(D) \in Nat
      /\ Cardinality(D) >= 1 /\ Cardinality(D) <= lost + 1
  <2>1. IsFiniteSet(req[r].did) /\ Cardinality(req[r].did) <= lost /\ lost \in Nat
    BY DEF RerunInv, AllAccounted, Accounted, IInv, TypeOK
  <2> QED
    BY <2>1, OneMore, FS_CardinalityType
<1> HIDE DEF D
<1>4. CASE AnswerDone(r, "revoked", D) /\ lost' = lost
  <2>1. req' = [req EXCEPT ![r] = Blank] /\ said' = [answer |-> "revoked", did |-> D]
    BY <1>4 DEF AnswerDone
  <2>2. Accounted(Blank, table', lost')
    BY <1>3, <1>4, BlankOK, Undone DEF Blank
  <2>3. AnswersAccounted'
    BY <1>3, <1>4, <2>1 DEF AnswersAccounted
  <2>4. AllAccounted'
    BY <1>2, <1>4, <2>1, <2>2, AccountedOthers DEF RerunInv
  <2> QED
    BY <2>3, <2>4
<1>5. CASE req' = [req EXCEPT ![r].did = D] /\ said' = Silent /\ lost' = lost + 1
  <2> DEFINE q == [req[r] EXCEPT !.did = D]
  <2>1. req' = [req EXCEPT ![r] = q]
    BY <1>5
  <2>2. q.did = D /\ q.pc = "revoke"
    BY RequestsOK DEF Revoke, RevokeUnacked, RequestOK, RequestType, RerunInv
  <2> HIDE DEF q
  <2>3. Accounted(q, table', lost')
    BY <1>3, <1>5, <2>2 DEF Accounted
  <2>4. AllAccounted'
    BY <1>2, <1>5, <2>1, <2>3, AccountedOthers DEF RerunInv
  <2> QED
    BY <1>3, <1>5, <2>4, AccountedSilent
<1> QED
  BY <1>1, <1>4, <1>5 DEF D

LEMMA RerunKill ==
  ASSUME RerunInv, NEW r \in Requests, Kill(r)
  PROVE  AllAccounted' /\ AnswersAccounted'
<1>1. Answer(r, "killed") /\ lost' = lost
  BY DEF Kill
<1>2. AnswersAccounted' /\ req' = [req EXCEPT ![r] = Blank]
  BY <1>1, AccountedAnswer DEF RerunInv
<1>3. Accounted(Blank, table', lost')
  BY <1>1, BlankOK, Undone DEF Blank, RerunInv, IInv, TypeOK
<1>4. \A s \in Requests \ {r} : req[s].pc = "insert" /\ req[s].new \in DOMAIN table' =>
        req[s].new \in DOMAIN table /\ SameTerms(table'[req[s].new], table[req[s].new])
  <2>1. CASE UNCHANGED table
    BY <2>1 DEF SameTerms
  <2>2. CASE CanInsert(r) /\ InsertRow(r)
    BY <2>2, AccountedInsert DEF RerunInv, SameTerms
  <2>3. CASE \E k \in RevokeTargets(r) : table' = Revoked(table, k, req[r].at)
    BY <2>3, AccountedRevoke DEF RerunInv
  <2> QED
    BY <2>1, <2>2, <2>3 DEF Kill
<1> QED
  BY <1>1, <1>2, <1>3, <1>4, AccountedOthers DEF RerunInv

LEMMA RerunNext == RerunInv /\ [Next]_vars => RerunInv'
<1> SUFFICES ASSUME RerunInv, [Next]_vars PROVE AllAccounted' /\ AnswersAccounted'
  BY NextInv DEF RerunInv
<1>1. IInv /\ AllAccounted /\ lost \in Nat
  BY DEF RerunInv, IInv, TypeOK
<1>2. ASSUME NEW r \in Requests, NEW a, a \notin {"created", "revoked"}, Answer(r, a),
             UNCHANGED <<table, lost>>
      PROVE  AllAccounted' /\ AnswersAccounted'
  BY <1>1, <1>2, AccountedAnswer, AccountedQuiet, BlankOK DEF Blank
<1>3. ASSUME NEW r \in Requests, Start(r) \/ ReadCreate(r) \/ ReadQuery(r) \/ Count(r) \/ Mint(r)
      PROVE  AllAccounted' /\ AnswersAccounted'
  <2>1. UNCHANGED <<table, lost>>
    BY <1>3 DEF Start, Gate, RunCreate, RunRevoke, ReadCreate, ReadQuery, Count, Mint
  <2>2. CASE said' = Silent
    <3>1. req[r].pc \in {"count", "mint"} => req[r].did = {}
      BY <1>1 DEF AllAccounted, Accounted
    <3> QED
      BY <1>1, <1>3, <2>1, <2>2, <3>1, QuietSteps, AccountedQuiet, AccountedSilent
  <2>3. CASE \E a : a \notin {"created", "revoked"} /\ Answer(r, a)
    BY <1>2, <2>1, <2>3
  <2> QED
    BY <1>3, <2>2, <2>3 DEF Start, Gate, RunCreate, RunRevoke, ReadCreate, ReadQuery,
       AdminCheck, Count, Goto, Mint
<1>4. ASSUME NEW r \in Requests,
             S21Denies(r) \/ InsertConflict(r) \/ RevokeNotFound(r) \/ List(r) \/ StoreError(r)
      PROVE  AllAccounted' /\ AnswersAccounted'
  BY <1>2, <1>4 DEF S21Denies, InsertConflict, InsertResult, RevokeNotFound, List, StoreError
<1>5. CASE \E r \in Requests : Start(r) \/ Step(r) \/ Kill(r)
  BY <1>3, <1>4, <1>5, RerunInsert, RerunRevoke, RerunKill DEF Step
<1>6. CASE Tick
  BY <1>1, <1>6, AccountedSilent DEF Tick, AllAccounted
<1>7. CASE UNCHANGED vars
  BY <1>7 DEF vars, RerunInv, AllAccounted, AnswersAccounted
<1> QED
  BY <1>5, <1>6, <1>7 DEF Next

LEMMA RerunInit == Init => RerunInv
<1> SUFFICES ASSUME Init PROVE RerunInv
  OBVIOUS
<1>1. IInv /\ lost = 0 /\ said = Silent
  BY InitInv DEF Init
<1>2. AllAccounted
  BY <1>1, Undone, BlankOK DEF Init, AllAccounted, Blank
<1>3. AnswersAccounted
  BY <1>1, FS_EmptySet DEF AnswersAccounted, Silent
<1> QED
  BY <1>1, <1>2, <1>3 DEF RerunInv

\* Every answer is accounted for, whatever interleaves, is cut off or is rerun:
\* a 201 stands for exactly one key, a 204 for one key revoked and at most one
\* more per lost acknowledgement, a refusal for at most one change per lost
\* acknowledgement (ydbstore.doTx, server.go:684-694, 736-745).
THEOREM EveryAnswerAccounted == Spec => []AnswersAccounted
<1>1. RerunInv => AnswersAccounted
  BY DEF RerunInv
<1> QED
  BY <1>1, RerunInit, RerunNext, PTL DEF Spec

\* A row that keeps its terms differs in the time of its revocation only.
LEMMA OnlyRevokedAt ==
  ASSUME NEW a \in RowType, NEW b \in RowType, SameTerms(b, a)
  PROVE  b = [a EXCEPT !.revokedAt = b.revokedAt]
BY DEF RowType, SameTerms

LEMMA TermsNext ==
  ASSUME RerunInv, [Next]_vars, NEW k \in DOMAIN table
  PROVE  /\ k \in DOMAIN table'
         /\ table'[k] = [table[k] EXCEPT !.revokedAt = table'[k].revokedAt]
         /\ ~IsActive(table[k]) /\ table'[k] # table[k] =>
              \E r \in Requests : req[r].pc = "insert" /\ req[r].new = k /\ k \in req[r].did
<1>1. IInv /\ AllAccounted /\ table[k] \in RowType
  BY DEF RerunInv, IInv, TypeOK
<1>2. CASE UNCHANGED table
  <2>1. table'[k] \in RowType /\ SameTerms(table'[k], table[k])
    BY <1>1, <1>2 DEF SameTerms
  <2> QED
    BY <1>1, <1>2, <2>1, OnlyRevokedAt
<1>3. CASE \E r \in Requests : CanInsert(r) /\ InsertRow(r)
  <2>1. PICK r \in Requests : CanInsert(r) /\ InsertRow(r)
    BY <1>3
  <2>2. /\ k \in DOMAIN table' /\ SameTerms(table'[k], table[k]) /\ table'[k] \in RowType
        /\ table'[k] # table[k] => k = req[r].new /\ k \in req[r].did
    BY <1>1, <2>1, AccountedInsert
  <2> QED
    BY <1>1, <2>1, <2>2, OnlyRevokedAt DEF CanInsert
<1>4. CASE \E r \in Requests : \E x \in RevokeTargets(r) : table' = Revoked(table, x, req[r].at)
  <2>1. /\ k \in DOMAIN table' /\ SameTerms(table'[k], table[k]) /\ table'[k] \in RowType
        /\ table'[k] # table[k] => IsActive(table[k])
    BY <1>1, <1>4, AccountedRevoke
  <2> QED
    BY <1>1, <2>1, OnlyRevokedAt
<1> QED
  BY <1>2, <1>3, <1>4 DEF Next, vars, Start, Step, Gate, RunCreate, RunRevoke, S21Denies,
     ReadCreate, ReadQuery, Count, Mint, Insert, InsertConflict, InsertUnacked, Revoke,
     RevokeNotFound, RevokeUnacked, List, StoreError, Kill, Tick

\* The table is a record of what was issued even when commits are rerun: no
\* step takes a row away or changes its terms, and a revoked key comes back
\* only through the rerun of the creation that is issuing it
\* (ydbstore.go:339-446).
THEOREM TermsForGood == Spec => TermsKept
<1>1. RerunInv /\ [Next]_vars =>
        [\A k \in DOMAIN table :
           /\ k \in DOMAIN table'
           /\ table'[k] = [table[k] EXCEPT !.revokedAt = table'[k].revokedAt]
           /\ ~IsActive(table[k]) /\ table'[k] # table[k] =>
                \E r \in Requests : req[r].pc = "insert" /\ req[r].new = k /\ k \in req[r].did]_vars
  BY TermsNext
<1> QED
  BY <1>1, RerunInit, RerunNext, PTL DEF Spec, TermsKept
=============================================================================
