---------------------------- MODULE KeyRate_proofs ----------------------------
(***************************************************************************)
(* Proofs about the creation limit of module KeyAdmin, for any number of   *)
(* requests, users, cut-offs and reruns: what the limit gives when         *)
(* requests overlap, and that it is exact when they do not.                *)
(***************************************************************************)
EXTENDS KeyAdmin_proofs, FiniteSetTheorems

\* The keys created for a user in the window that ends at x ...
CreatedIn(by, x) == CreatedWithin(by, x - RateWindow, x)

\* ... and the requests that passed the limit and may still add one to it.
Pending(by, x) ==
  {r \in Requests :
     /\ req[r].owner = by
     /\ \/ req[r].pc = "mint" /\ x = now
        \/ /\ req[r].pc = "insert" /\ req[r].new \notin DOMAIN table
           /\ x - RateWindow <= req[r].at /\ req[r].at <= x}

Bound == RateMax - 1 + Cardinality(Requests)

Within(by, x) == Cardinality(CreatedIn(by, x)) + Cardinality(Pending(by, x)) <= Bound

\* A row that a request is about to write again is the one it wrote.
OwnRows ==
  \A r \in Requests : req[r].pc = "insert" /\ req[r].new \in DOMAIN table =>
    table[req[r].new].owner = req[r].owner /\ table[req[r].new].createdAt = req[r].at

NoneAhead ==
  /\ \A k \in DOMAIN table : table[k].createdAt <= now
  /\ \A r \in Requests : req[r].pc = "insert" => req[r].at <= now

RateInv ==
  /\ IInv /\ OwnRows /\ NoneAhead
  /\ \A by \in Owners, x \in 0..now : Within(by, x)

\* The hypotheses: finitely many requests at a time, and an operator who
\* mints no keys for users, since the CLI does not count.
Counted == IsFiniteSet(Requests) /\ CliOwners \cap Owners = {}

LEMMA Less ==
  ASSUME NEW A, NEW B, IsFiniteSet(A), IsFiniteSet(B),
         NEW C \in SUBSET A, NEW D \in SUBSET B
  PROVE  Cardinality(C) + Cardinality(D) <= Cardinality(A) + Cardinality(B)
<1>1. Cardinality(C) <= Cardinality(A) /\ Cardinality(D) <= Cardinality(B)
  BY FS_Subset
<1>2. IsFiniteSet(C) /\ IsFiniteSet(D)
  BY FS_Subset
<1>3. /\ Cardinality(A) \in Nat /\ Cardinality(B) \in Nat
      /\ Cardinality(C) \in Nat /\ Cardinality(D) \in Nat
  BY <1>2, FS_CardinalityType
<1> QED
  BY <1>1, <1>3

LEMMA Exchanged ==
  ASSUME NEW A, NEW B, IsFiniteSet(A), IsFiniteSet(B), NEW k, NEW r \in B,
         NEW C \in SUBSET (A \cup {k}), NEW D \in SUBSET (B \ {r})
  PROVE  Cardinality(C) + Cardinality(D) <= Cardinality(A) + Cardinality(B)
<1>1. /\ IsFiniteSet(A \cup {k}) /\ IsFiniteSet(B \ {r})
      /\ Cardinality(A \cup {k}) <= Cardinality(A) + 1
      /\ Cardinality(B \ {r}) = Cardinality(B) - 1
  <2>1. Cardinality(A) \in Nat
    BY FS_CardinalityType
  <2>2. IsFiniteSet(A \cup {k}) /\ Cardinality(A \cup {k}) \in {Cardinality(A), Cardinality(A) + 1}
    BY FS_AddElement
  <2>3. IsFiniteSet(B \ {r}) /\ Cardinality(B \ {r}) = Cardinality(B) - 1
    BY FS_RemoveElement
  <2> QED
    BY <2>1, <2>2, <2>3
<1>2. Cardinality(C) + Cardinality(D) <= Cardinality(A \cup {k}) + Cardinality(B \ {r})
  BY <1>1, Less
<1>3. /\ Cardinality(A) \in Nat /\ Cardinality(B) \in Nat /\ Cardinality(A \cup {k}) \in Nat
  BY <1>1, FS_CardinalityType
<1>4. Cardinality(C) \in Nat /\ Cardinality(D) \in Nat
  BY <1>1, FS_Subset, FS_CardinalityType
<1> QED
  BY <1>1, <1>2, <1>3, <1>4

LEMMA Finite ==
  ASSUME Counted, IInv
  PROVE  /\ IsFiniteSet(DOMAIN table) /\ Cardinality(Requests) \in Nat /\ Bound \in Nat
         /\ \A by, x : IsFiniteSet(CreatedIn(by, x)) /\ IsFiniteSet(Pending(by, x))
<1>1. IsFiniteSet(DOMAIN table)
  <2>1. minted \in Nat /\ DOMAIN table \subseteq 1..minted
    BY DEF IInv, TypeOK, KeysFresh
  <2> QED
    <3>1. IsFiniteSet(1..minted)
      BY <2>1, FS_Interval
    <3> QED
      BY <2>1, <3>1, FS_Subset
<1>2. Cardinality(Requests) \in Nat
  BY FS_CardinalityType DEF Counted
<1>3. \A by, x : CreatedIn(by, x) \subseteq DOMAIN table /\ Pending(by, x) \subseteq Requests
  BY DEF CreatedIn, CreatedWithin, Pending
<1>4. \A by, x : IsFiniteSet(CreatedIn(by, x)) /\ IsFiniteSet(Pending(by, x))
  BY <1>1, <1>3, FS_Subset DEF Counted
<1> QED
  BY <1>1, <1>2, <1>4, RateAssumption DEF Bound

\* Less of what is counted, or one request exchanged for the key it inserts.
LEMMA WithinLess ==
  ASSUME Counted, IInv, NEW by, NEW x, Within(by, x), IInv',
         NEW y, CreatedIn(by, y)' \subseteq CreatedIn(by, x),
         Pending(by, y)' \subseteq Pending(by, x)
  PROVE  Within(by, y)'
<1> DEFINE a == CreatedIn(by, x)
           b == Pending(by, x)
           c == CreatedIn(by, y)'
           d == Pending(by, y)'
<1>1. IsFiniteSet(a) /\ IsFiniteSet(b) /\ Bound \in Nat
  BY Finite
<1>2. Cardinality(a) \in Nat /\ Cardinality(b) \in Nat
  BY <1>1, FS_CardinalityType
<1>3. Cardinality(c) \in Nat /\ Cardinality(d) \in Nat
  BY <1>1, FS_Subset, FS_CardinalityType
<1>4. Cardinality(c) + Cardinality(d) <= Cardinality(a) + Cardinality(b)
  BY <1>1, Less
<1> HIDE DEF a, b, c, d
<1>5. Cardinality(a) + Cardinality(b) <= Bound
  BY DEF Within, a, b
<1>6. Cardinality(c) + Cardinality(d) <= Bound
  BY <1>1, <1>2, <1>3, <1>4, <1>5
<1> QED
  BY <1>6 DEF Within, Bound, c, d
LEMMA WithinExchanged ==
  ASSUME Counted, IInv, NEW by, NEW x, Within(by, x), IInv', NEW r \in Pending(by, x), NEW k,
         CreatedIn(by, x)' \subseteq CreatedIn(by, x) \cup {k},
         Pending(by, x)' \subseteq Pending(by, x) \ {r}
  PROVE  Within(by, x)'
<1> DEFINE a == CreatedIn(by, x)
           b == Pending(by, x)
           c == CreatedIn(by, x)'
           d == Pending(by, x)'
<1>1. IsFiniteSet(a) /\ IsFiniteSet(b) /\ Bound \in Nat
  BY Finite
<1>2. IsFiniteSet(c) /\ IsFiniteSet(d)
  <2>1. IsFiniteSet(a \cup {k}) /\ c \subseteq a \cup {k} /\ d \subseteq b
    BY <1>1, FS_AddElement
  <2> QED
    BY <1>1, <2>1, FS_Subset
<1>3. Cardinality(c) + Cardinality(d) <= Cardinality(a) + Cardinality(b)
  BY <1>1, Exchanged
<1>4. /\ Cardinality(a) \in Nat /\ Cardinality(b) \in Nat
      /\ Cardinality(c) \in Nat /\ Cardinality(d) \in Nat
  BY <1>1, <1>2, FS_CardinalityType
<1> HIDE DEF a, b, c, d
<1>5. Cardinality(a) + Cardinality(b) <= Bound
  BY DEF Within, a, b
<1>6. Cardinality(c) + Cardinality(d) <= Bound
  BY <1>1, <1>3, <1>4, <1>5
<1> QED
  BY <1>6 DEF Within, Bound, c, d

\* The other parts of the invariant, where a request r goes on as q and the
\* creators and times of the rows stay.
LEMMA RequestGoes ==
  ASSUME RateInv, IInv', Counted, NEW r \in Requests, NEW q, req' = [req EXCEPT ![r] = q],
         q.pc = "insert" => /\ req[r].pc = "insert" /\ q.new = req[r].new
                            /\ q.owner = req[r].owner /\ q.at = req[r].at,
         q.pc = "mint" => q.owner \notin Owners,
         DOMAIN table' = DOMAIN table, now' = now,
         \A k \in DOMAIN table : /\ table'[k].owner = table[k].owner
                                 /\ table'[k].createdAt = table[k].createdAt
  PROVE  RateInv'
<1>1. \A s \in Requests : req'[s] = IF s = r THEN q ELSE req[s]
  BY DEF RateInv, IInv, TypeOK
<1>2. OwnRows' /\ NoneAhead'
  BY <1>1 DEF RateInv, OwnRows, NoneAhead
<1>3. ASSUME NEW by \in Owners, NEW x \in 0..now
      PROVE  Within(by, x)'
  <2>1. CreatedIn(by, x)' \subseteq CreatedIn(by, x)
    BY DEF CreatedIn, CreatedWithin
  <2>2. Pending(by, x)' \subseteq Pending(by, x)
    BY <1>1 DEF Pending
  <2> QED
    BY <2>1, <2>2, WithinLess DEF RateInv
<1> QED
  BY <1>2, <1>3 DEF RateInv

\* The transaction of r commits: r gives its place to the key it inserts.
LEMMA RateInsert ==
  ASSUME RateInv, IInv', Counted, NEW r \in Requests, CanInsert(r), InsertRow(r),
         NEW q, req' = [req EXCEPT ![r] = q], now' = now,
         q.pc # "mint",
         q.pc = "insert" => /\ q.new = req[r].new
                            /\ q.owner = req[r].owner /\ q.at = req[r].at
  PROVE  RateInv'
<1> DEFINE k == req[r].new
<1>1. \A s \in Requests : req'[s] = IF s = r THEN q ELSE req[s]
  BY DEF RateInv, IInv, TypeOK
<1>2. /\ DOMAIN table' = DOMAIN table \cup {k}
      /\ table'[k].owner = req[r].owner /\ table'[k].createdAt = req[r].at
      /\ \A x \in DOMAIN table \ {k} : table'[x] = table[x]
  BY DEF InsertRow, Inserted, RowOf
<1>3. req[r].pc = "insert" /\ \A s \in Requests \ {r} : req[s].pc = "insert" => req[s].new # k
  BY DEF CanInsert, RateInv, IInv, KeysFresh
<1>4. req[r].at <= now
  BY <1>3 DEF RateInv, NoneAhead
<1>5. k \in DOMAIN table => table[k].owner = req[r].owner /\ table[k].createdAt = req[r].at
  BY <1>3 DEF RateInv, OwnRows
<1> HIDE DEF k
<1>6. NoneAhead'
  <2>1. \A x \in DOMAIN table' : table'[x].createdAt <= now
    BY <1>2, <1>4 DEF RateInv, NoneAhead
  <2> QED
    BY <1>1, <1>3, <1>4, <2>1 DEF RateInv, NoneAhead
<1>7. OwnRows'
  BY <1>1, <1>2, <1>3 DEF RateInv, OwnRows, k
<1>8. ASSUME NEW by \in Owners, NEW x \in 0..now
      PROVE  Within(by, x)'
  <2>1. Pending(by, x)' \subseteq Pending(by, x) \ {r}
    BY <1>1, <1>2, <1>3 DEF Pending, k
  <2>2. CASE r \in Pending(by, x)
    <3>1. CreatedIn(by, x)' \subseteq CreatedIn(by, x) \cup {k}
      BY <1>2 DEF CreatedIn, CreatedWithin
    <3> QED
      BY <2>1, <2>2, <3>1, WithinExchanged DEF RateInv
  <2>3. CASE r \notin Pending(by, x)
    <3>1. CreatedIn(by, x)' \subseteq CreatedIn(by, x)
      BY <1>2, <1>3, <1>5, <2>3 DEF CreatedIn, CreatedWithin, Pending, k
    <3> QED
      BY <2>1, <3>1, WithinLess DEF RateInv
  <2> QED
    BY <2>2, <2>3
<1> QED
  BY <1>6, <1>7, <1>8 DEF RateInv

\* The limit lets r pass: at most RateMax - 1 keys are in the window.
LEMMA RateCount ==
  ASSUME RateInv, IInv', Counted, NEW r \in Requests, req[r].pc = "count",
         ~(CountByCreatorSince(table, req[r].owner, now - RateWindow) >= RateMax),
         Goto(r, "mint"), UNCHANGED <<now, table>>
  PROVE  RateInv'
<1> DEFINE q == [req[r] EXCEPT !.pc = "mint"]
<1>1. \A s \in Requests : req'[s] = IF s = r THEN q ELSE req[s]
  BY DEF RateInv, IInv, TypeOK, Goto
<1>2. q.pc = "mint" /\ q.owner = req[r].owner
  BY RequestsOK DEF RateInv, RequestOK, RequestType
<1> HIDE DEF q
<1>3. OwnRows' /\ NoneAhead'
  BY <1>1, <1>2 DEF RateInv, OwnRows, NoneAhead
<1>4. ASSUME NEW by \in Owners, NEW x \in 0..now
      PROVE  Within(by, x)'
  <2>1. CreatedIn(by, x)' = CreatedIn(by, x)
    BY DEF CreatedIn, CreatedWithin
  <2>2. CASE by = req[r].owner /\ x = now
    <3> DEFINE a == CreatedIn(by, x)
               b == Pending(by, x)'
               n == Cardinality(CreatedSince(table, by, now - RateWindow))
    <3>1. IsFiniteSet(CreatedSince(table, by, now - RateWindow)) /\ IsFiniteSet(a)
      <4>1. CreatedSince(table, by, now - RateWindow) \subseteq DOMAIN table
        BY DEF CreatedSince
      <4> QED
        BY <4>1, Finite, FS_Subset DEF RateInv
    <3>2. a \subseteq CreatedSince(table, by, now - RateWindow)
      BY <2>2 DEF CreatedIn, CreatedWithin, CreatedSince, RateInv, IInv, TypeOK, RowType
    <3>3. Cardinality(a) <= n /\ n \in Nat /\ Cardinality(a) \in Nat
      BY <3>1, <3>2, FS_Subset, FS_CardinalityType
    <3>4. n < RateMax
      BY <2>2, <3>3, RateAssumption DEF CountByCreatorSince
    <3>5. Cardinality(b) \in Nat /\ Cardinality(b) <= Cardinality(Requests)
      <4>1. b \subseteq Requests
        BY DEF Pending
      <4> QED
        BY <4>1, FS_Subset, FS_CardinalityType DEF Counted
    <3>6. Cardinality(Requests) \in Nat
      BY FS_CardinalityType DEF Counted
    <3> HIDE DEF a, b, n
    <3>7. Cardinality(a) + Cardinality(b) <= RateMax - 1 + Cardinality(Requests)
      BY <3>3, <3>4, <3>5, <3>6, RateAssumption
    <3> QED
      BY <2>1, <3>7 DEF Within, Bound, a, b
  <2>3. CASE ~(by = req[r].owner /\ x = now)
    <3>1. Pending(by, x)' \subseteq Pending(by, x)
      BY <1>1, <1>2, <2>3 DEF Pending
    <3> QED
      BY <2>1, <3>1, WithinLess DEF RateInv
  <2> QED
    BY <2>2, <2>3
<1> QED
  BY <1>3, <1>4 DEF RateInv

\* A request that will create now is one that creates at the time it stamps.
LEMMA RateMint ==
  ASSUME RateInv, IInv', Counted, NEW r \in Requests, Mint(r)
  PROVE  RateInv'
<1> DEFINE q == [req[r] EXCEPT !.pc = "insert", !.new = minted + 1, !.at = now]
<1>1. \A s \in Requests : req'[s] = IF s = r THEN q ELSE req[s]
  BY DEF RateInv, IInv, TypeOK, Mint
<1>2. /\ q.pc = "insert" /\ q.new = minted + 1 /\ q.at = now /\ q.owner = req[r].owner
      /\ req[r].pc = "mint" /\ table' = table /\ now' = now
  BY RequestsOK DEF RateInv, RequestOK, RequestType, Mint
<1> HIDE DEF q
<1>3. minted + 1 \notin DOMAIN table /\ now \in Nat
  BY DEF RateInv, IInv, KeysFresh, TypeOK
<1>4. OwnRows' /\ NoneAhead'
  BY <1>1, <1>2, <1>3 DEF RateInv, OwnRows, NoneAhead
<1>5. ASSUME NEW by \in Owners, NEW x \in 0..now
      PROVE  Within(by, x)'
  <2>1. CreatedIn(by, x)' \subseteq CreatedIn(by, x)
    BY <1>2 DEF CreatedIn, CreatedWithin
  <2>2. Pending(by, x)' \subseteq Pending(by, x)
    BY <1>1, <1>2, <1>3 DEF Pending
  <2> QED
    BY <2>1, <2>2, WithinLess DEF RateInv
<1> QED
  BY <1>2, <1>4, <1>5 DEF RateInv

\* The window moves on and takes up nothing new.
LEMMA RateTick ==
  ASSUME RateInv, IInv', Counted, Tick
  PROVE  RateInv'
<1>1. now \in Nat /\ now' = now + 1 /\ table' = table /\ req' = req
  BY DEF Tick, RateInv, IInv, TypeOK
<1>2. /\ \A k \in DOMAIN table : table[k].createdAt \in Nat
      /\ \A r \in Requests : req[r].at \in Nat
  BY DEF RateInv, IInv, TypeOK, RowType, RequestType
<1>3. OwnRows' /\ NoneAhead'
  BY <1>1, <1>2 DEF RateInv, OwnRows, NoneAhead
<1>4. ASSUME NEW by \in Owners, NEW x \in 0..now
      PROVE  Within(by, x)'
  <2>1. CreatedIn(by, x)' \subseteq CreatedIn(by, x)
    BY <1>1 DEF CreatedIn, CreatedWithin
  <2>2. Pending(by, x)' \subseteq Pending(by, x)
    BY <1>1 DEF Pending
  <2> QED
    BY <2>1, <2>2, WithinLess DEF RateInv
<1>5. ASSUME NEW by \in Owners, NEW x, x = now + 1
      PROVE  Within(by, x)'
  <2>1. CreatedIn(by, x)' \subseteq CreatedIn(by, now)
    BY <1>1, <1>2, <1>5, Constants DEF CreatedIn, CreatedWithin, RateInv, NoneAhead
  <2>2. Pending(by, x)' \subseteq Pending(by, now)
    BY <1>1, <1>2, <1>5, Constants DEF Pending, RateInv, NoneAhead
  <2>3. Within(by, now)
    BY <1>1 DEF RateInv
  <2> QED
    BY <1>1, <2>1, <2>2, <2>3, WithinLess DEF RateInv
<1>6. ASSUME NEW by \in Owners, NEW x \in 0..now'
      PROVE  Within(by, x)'
  <2>1. x \in 0..now \/ x = now + 1
    BY <1>1
  <2> QED
    BY <1>4, <1>5, <2>1
<1> QED
  BY <1>3, <1>6 DEF RateInv

\* A request that answers or goes on without a key to insert, and does not
\* touch the table.
LEMMA RateQuiet ==
  ASSUME RateInv, IInv', Counted, NEW r \in Requests,
         \E q : /\ req' = [req EXCEPT ![r] = q] /\ q.pc # "insert"
                /\ q.pc = "mint" => q.owner \notin Owners,
         UNCHANGED <<now, table>>
  PROVE  RateInv'
BY RequestGoes

\* A revocation keeps the creator and the creation time of the row.
LEMMA RateRevoke ==
  ASSUME RateInv, IInv', Counted, NEW r \in Requests, NEW k \in RevokeTargets(r),
         table' = Revoked(table, k, req[r].at), NEW q, req' = [req EXCEPT ![r] = q],
         q.pc \notin {"mint", "insert"}, now' = now
  PROVE  RateInv'
<1>1. k \in DOMAIN table /\ table[k] \in RowType
  BY DEF RevokeTargets, Revocable, ActiveKeys, RateInv, IInv, TypeOK
<1>2. /\ DOMAIN table' = DOMAIN table
      /\ \A x \in DOMAIN table : /\ table'[x].owner = table[x].owner
                                 /\ table'[x].createdAt = table[x].createdAt
  BY <1>1 DEF Revoked, RowType
<1> QED
  BY <1>2, RequestGoes

LEMMA RateStart ==
  ASSUME RateInv, IInv', Counted, NEW r \in Requests, Start(r)
  PROVE  RateInv'
<1>1. Blank \in RequestType /\ Blank.pc = "idle" /\ UNCHANGED <<now, table>>
  BY BlankOK DEF RequestOK, Start, Gate, RunCreate, RunRevoke
<1>2. CASE \E op \in {"create", "revoke", "list"} : Gate(r, op)
  <2>1. PICK op \in {"create", "revoke", "list"} : Gate(r, op)
    BY <1>2
  <2>2. CASE Answer(r, "internal_error") \/ Answer(r, "unauthorized")
    BY <1>1, <2>2, RateQuiet DEF Answer, AnswerDone
  <2>3. CASE ~(Answer(r, "internal_error") \/ Answer(r, "unauthorized"))
    <3>1. PICK held :
            req' = [req EXCEPT ![r] = [Blank EXCEPT !.pc = "s21", !.op = op, !.held = held]]
      BY <2>1, <2>3 DEF Gate
    <3>2. \E q : q.pc = "s21" /\ req' = [req EXCEPT ![r] = q]
      BY <1>1, <3>1 DEF RequestType
    <3> QED
      BY <1>1, <3>2, RateQuiet
  <2> QED
    BY <2>2, <2>3
<1>3. CASE RunCreate(r)
  <2>1. \E q : q.pc = "mint" /\ q.owner \in CliOwners /\ req' = [req EXCEPT ![r] = q]
    BY <1>1, <1>3 DEF RunCreate, RequestType
  <2> QED
    BY <1>1, <2>1, RateQuiet DEF Counted
<1>4. CASE RunRevoke(r)
  <2>1. \E q : q.pc = "revoke" /\ req' = [req EXCEPT ![r] = q]
    BY <1>1, <1>4 DEF RunRevoke, RequestType
  <2> QED
    BY <1>1, <2>1, RateQuiet
<1> QED
  BY <1>2, <1>3, <1>4 DEF Start

LEMMA RateStep ==
  ASSUME RateInv, IInv', Counted, NEW r \in Requests, Step(r) \/ Kill(r)
  PROVE  RateInv'
<1>1. Blank \in RequestType /\ Blank.pc = "idle" /\ req[r] \in RequestType
  BY BlankOK, RequestsOK DEF RequestOK, RateInv
<1>2. CASE \E a, did : AnswerDone(r, a, did) /\ UNCHANGED <<now, table>>
  BY <1>1, <1>2, RateQuiet DEF AnswerDone
<1>3. CASE ReadCreate(r)
  <2>1. /\ UNCHANGED <<now, table>>
        /\ \E q : /\ q.pc \in {"idle", "count", "mint"} /\ (q.pc = "mint" => q.owner = NoOwner)
                  /\ req' = [req EXCEPT ![r] = q]
    BY <1>1, <1>3 DEF ReadCreate, Answer, AnswerDone, RequestType
  <2> QED
    BY <2>1, RateQuiet, Constants
<1>4. CASE ReadQuery(r)
  <2>1. UNCHANGED <<now, table>> /\ req[r].op \in {"revoke", "list"}
    BY <1>4 DEF ReadQuery
  <2>2. CASE \E a : Answer(r, a)
    BY <1>2, <2>1, <2>2 DEF Answer
  <2>3. CASE ~\E a : Answer(r, a)
    <3>1. PICK n \in Names, o \in Owners \cup {NoOwner} :
            req' = [req EXCEPT ![r] = [Blank EXCEPT !.pc = req[r].op, !.op = req[r].op,
                                                    !.name = n, !.owner = o, !.at = now]]
      BY <1>4, <2>3 DEF ReadQuery
    <3> DEFINE q == [Blank EXCEPT !.pc = req[r].op, !.op = req[r].op,
                                  !.name = n, !.owner = o, !.at = now]
    <3>2. q.pc = req[r].op /\ req' = [req EXCEPT ![r] = q]
      BY <1>1, <3>1 DEF RequestType
    <3> HIDE DEF q
    <3> QED
      BY <2>1, <3>2, RateQuiet
  <2> QED
    BY <2>2, <2>3
<1>5. CASE Count(r)
  BY <1>2, <1>5, RateCount DEF Count, Answer
<1>6. CASE Mint(r)
  BY <1>6, RateMint
<1>7. CASE Insert(r) \/ (Kill(r) /\ CanInsert(r) /\ InsertRow(r))
  <2>1. CanInsert(r) /\ InsertRow(r) /\ now' = now /\ req' = [req EXCEPT ![r] = Blank]
    BY <1>7 DEF Insert, Kill, Answer, AnswerDone
  <2> QED
    BY <1>1, <2>1, RateInsert
<1>8. CASE InsertUnacked(r)
  <2> DEFINE q == [req[r] EXCEPT !.did = @ \cup {req[r].new}]
  <2>1. /\ CanInsert(r) /\ InsertRow(r) /\ now' = now /\ req' = [req EXCEPT ![r] = q]
        /\ q.pc = "insert" /\ q.new = req[r].new /\ q.owner = req[r].owner /\ q.at = req[r].at
    BY <1>1, <1>8 DEF InsertUnacked, CanInsert, RequestType
  <2> HIDE DEF q
  <2> QED
    BY <2>1, RateInsert
<1>9. CASE \/ Revoke(r)
           \/ Kill(r) /\ \E k \in RevokeTargets(r) : table' = Revoked(table, k, req[r].at)
  <2>1. PICK k \in RevokeTargets(r) : table' = Revoked(table, k, req[r].at)
    BY <1>9 DEF Revoke
  <2>2. now' = now /\ req' = [req EXCEPT ![r] = Blank]
    BY <1>9 DEF Revoke, Kill, Answer, AnswerDone
  <2> QED
    BY <1>1, <2>1, <2>2, RateRevoke
<1>10. CASE RevokeUnacked(r)
  <2>1. PICK k \in RevokeTargets(r) :
          /\ table' = Revoked(table, k, req[r].at)
          /\ req' = [req EXCEPT ![r].did = @ \cup {k}]
    BY <1>10 DEF RevokeUnacked
  <2>2. \E q : q.pc = "revoke" /\ req' = [req EXCEPT ![r] = q]
    BY <1>1, <1>10, <2>1 DEF RevokeUnacked, RequestType
  <2> QED
    BY <1>10, <2>1, <2>2, RateRevoke DEF RevokeUnacked
<1>11. CASE \/ S21Denies(r) \/ InsertConflict(r) \/ RevokeNotFound(r) \/ List(r)
            \/ StoreError(r) \/ (Kill(r) /\ UNCHANGED table)
  BY <1>2, <1>11 DEF S21Denies, InsertConflict, RevokeNotFound, List, StoreError, Kill, Answer
<1> QED
  BY <1>3, <1>4, <1>5, <1>6, <1>7, <1>8, <1>9, <1>10, <1>11 DEF Step, Kill

LEMMA RateInit == Counted /\ Init => RateInv
<1> SUFFICES ASSUME Counted, Init PROVE RateInv
  OBVIOUS
<1>1. IInv /\ (\A r \in Requests : req[r].pc = "idle") /\ now = 0
  BY InitInv, BlankOK DEF Init
<1>2. DOMAIN table = {1} /\ table[1].owner = NoOwner /\ table[1].createdAt = 0
  BY DEF Init, FirstRow
<1>3. OwnRows /\ NoneAhead
  BY <1>1, <1>2 DEF OwnRows, NoneAhead
<1>4. ASSUME NEW by \in Owners, NEW x \in 0..now
      PROVE  Within(by, x)
  <2>1. CreatedIn(by, x) = {}
    BY <1>2, Constants DEF CreatedIn, CreatedWithin
  <2>2. Pending(by, x) = {}
    BY <1>1 DEF Pending
  <2>3. Bound \in Nat
    BY <1>1, Finite
  <2> QED
    BY <2>1, <2>2, <2>3, FS_EmptySet DEF Within
<1> QED
  BY <1>1, <1>3, <1>4 DEF RateInv

LEMMA RateNext == Counted /\ RateInv /\ [Next]_vars => RateInv'
<1> SUFFICES ASSUME Counted, RateInv, [Next]_vars PROVE RateInv'
  OBVIOUS
<1>1. IInv'
  BY NextInv DEF RateInv
<1>2. CASE UNCHANGED vars
  <2>1. \A by \in Owners, x \in 0..now : Within(by, x)'
    BY <1>2 DEF vars, RateInv, Within, CreatedIn, CreatedWithin, Pending
  <2> QED
    BY <1>1, <1>2, <2>1 DEF vars, RateInv, OwnRows, NoneAhead
<1> QED
  BY <1>1, <1>2, RateStart, RateStep, RateTick DEF Next

LEMMA RateMeans == Counted /\ RateInv => CreationsAtMost(Bound)
<1> SUFFICES ASSUME Counted, RateInv, NEW by \in Owners, NEW k \in DOMAIN table
             PROVE  Cardinality(CreatedIn(by, table[k].createdAt)) <= Bound
  BY DEF CreationsAtMost, CreatedIn
<1> DEFINE x == table[k].createdAt
<1>1. x \in 0..now
  BY DEF RateInv, NoneAhead, IInv, TypeOK, RowType
<1>2. IsFiniteSet(CreatedIn(by, x)) /\ IsFiniteSet(Pending(by, x)) /\ Bound \in Nat
  BY Finite DEF RateInv
<1>3. Cardinality(CreatedIn(by, x)) \in Nat /\ Cardinality(Pending(by, x)) \in Nat
  BY <1>2, FS_CardinalityType
<1>4. Within(by, x)
  BY <1>1 DEF RateInv
<1> QED
  BY <1>2, <1>3, <1>4 DEF Within

\* However many requests count and insert at the same time, are cut off or
\* rerun, a creator exceeds the limit in no window by more than the other
\* requests in flight (server.go:658-684), as long as the operator mints no
\* keys for users at the CLI, which does not count.
THEOREM Overlapping == Counted => (Spec => []RateBound)
<1> SUFFICES ASSUME Counted PROVE Spec => []RateBound
  OBVIOUS
<1>1. Init => RateInv
  BY RateInit
<1>2. RateInv /\ [Next]_vars => RateInv'
  BY RateNext
<1>3. RateInv => RateBound
  BY RateMeans DEF RateBound, Bound
<1> QED
  BY <1>1, <1>2, <1>3, PTL DEF Spec

\* One request at a time never exceeds "10 creations per rolling hour"
\* (server.go:626-631).
THEOREM OneAtATime == Counted /\ Cardinality(Requests) = 1 => (Spec => []RateLimit)
<1> SUFFICES ASSUME Counted, Cardinality(Requests) = 1 PROVE Spec => []RateLimit
  OBVIOUS
<1>1. RateMax - 1 + Cardinality(Requests) = RateMax
  BY RateAssumption
<1>2. RateBound => RateLimit
  BY <1>1 DEF RateBound, RateLimit
<1> QED
  BY <1>2, Overlapping, PTL
=============================================================================
