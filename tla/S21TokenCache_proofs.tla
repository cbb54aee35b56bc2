------------------------- MODULE S21TokenCache_proofs -------------------------
(***************************************************************************)
(* Proofs about module S21TokenCache: the map and the recency list agree,  *)
(* and together they implement ExpiringLru, for every number of tokens and *)
(* every cap.                                                              *)
(***************************************************************************)
EXTENDS S21TokenCache, FiniteSetTheorems, SequenceTheorems, TLAPS

LEMMA Constants ==
  /\ TTL \in Nat /\ MaxEntries \in Nat /\ MaxEntries >= 1
  /\ EmptyToken \notin Tokens
BY TTLAssumption, MaxEntriesAssumption, EmptyTokenAssumption

\* The list l holds the tokens of S, each once.
Lists(l, S) ==
  /\ l \in Seq(Tokens) /\ IsFiniteSet(S) /\ Len(l) = Cardinality(S)
  /\ \A i, j \in 1..Len(l) : l[i] = l[j] => i = j
  /\ \A i \in 1..Len(l) : l[i] \in S
  /\ \A t \in S : \E i \in 1..Len(l) : l[i] = t

\* a was used more recently than b.
Before(l, a, b) == \E i, j \in 1..Len(l) : i < j /\ l[i] = a /\ l[j] = b

Order(l) == {p \in Tokens \X Tokens : Before(l, p[1], p[2])}

\* The invariant of the cache: a list of the tokens of the map, within the cap.
CacheOK(c) ==
  /\ DOMAIN c = {"entries", "lru"}
  /\ DOMAIN c.entries \subseteq Tokens
  /\ \A t \in DOMAIN c.entries : c.entries[t] \in EntryType
  /\ Lists(c.lru, DOMAIN c.entries)
  /\ Len(c.lru) <= MaxEntries

IInv == CacheOK(cache) /\ now \in Nat /\ answer \in Logins \cup {Miss}

\* The list m is l with the token t, one of S, moved or linked to the front ...
ToFront(l, m, S, t) ==
  \A a, b : Before(m, a, b) <=>
              (a = t /\ b \in S \ {t}) \/ (a # t /\ b # t /\ Before(l, a, b))

\* ... or without it.
Gone(l, m, t) == \A a, b : Before(m, a, b) <=> a # t /\ b # t /\ Before(l, a, b)

\* u is the list l without the element that holds t.
WithoutElement(l, t, u) ==
  /\ u \in Seq(Tokens) /\ Len(u) = Len(l) - 1
  /\ \E i \in 1..Len(l) :
       /\ l[i] = t
       /\ \A j \in 1..(Len(l) - 1) : u[j] = IF j < i THEN l[j] ELSE l[j + 1]

LEMMA UnlinkedElements ==
  ASSUME NEW c, NEW S, Lists(c.lru, S), NEW t \in S
  PROVE  WithoutElement(c.lru, t, Unlinked(c, t))
<1> DEFINE l == c.lru
           n == Len(l)
           i == ElementOf(c, t)
           a == SubSeq(l, 1, i - 1)
           b == SubSeq(l, i + 1, n)
<1>1. l \in Seq(Tokens) /\ n \in Nat /\ DOMAIN l = 1..n /\ \A k \in 1..n : l[k] \in Tokens
  BY LenProperties, ElementOfSeq DEF Lists
<1>2. i \in 1..n /\ l[i] = t
  <2>1. \E k \in DOMAIN c.lru : c.lru[k] = t
    BY <1>1 DEF Lists
  <2> QED
    BY <1>1, <2>1 DEF ElementOf
<1>3. Unlinked(c, t) = a \o b
  BY DEF Unlinked
<1> HIDE DEF l, n, i
<1>4. a \in Seq(Tokens) /\ Len(a) = i - 1 /\ \A k \in 1..(i - 1) : a[k] = l[k]
  <2>1. \A k \in 1..(i - 1) : l[k] \in Tokens
    BY <1>1, <1>2
  <2>2. 1 \in Int /\ i - 1 \in Int
    BY <1>1, <1>2
  <2> HIDE DEF a
  <2>3. /\ SubSeq(l, 1, i - 1) \in Seq(Tokens)
        /\ Len(SubSeq(l, 1, i - 1)) = IF 1 <= i - 1 THEN (i - 1) - 1 + 1 ELSE 0
        /\ \A k \in 1..((i - 1) - 1 + 1) : SubSeq(l, 1, i - 1)[k] = l[1 + k - 1]
    BY <2>1, <2>2, SubSeqProperties
  <2> QED
    BY <1>1, <1>2, <2>3 DEF a
<1>5. b \in Seq(Tokens) /\ Len(b) = n - i /\ \A k \in 1..(n - i) : b[k] = l[k + i]
  <2>1. \A k \in (i + 1)..n : l[k] \in Tokens
    BY <1>1, <1>2
  <2>2. i + 1 \in Int /\ n \in Int
    BY <1>1, <1>2
  <2> HIDE DEF b
  <2>3. /\ SubSeq(l, i + 1, n) \in Seq(Tokens)
        /\ Len(SubSeq(l, i + 1, n)) = IF i + 1 <= n THEN n - (i + 1) + 1 ELSE 0
        /\ \A k \in 1..(n - (i + 1) + 1) : SubSeq(l, i + 1, n)[k] = l[(i + 1) + k - 1]
    BY <2>1, <2>2, SubSeqProperties
  <2> QED
    BY <1>1, <1>2, <2>3 DEF b
<1> HIDE DEF a, b
<1>6. /\ a \o b \in Seq(Tokens) /\ Len(a \o b) = Len(a) + Len(b)
      /\ \A k \in 1..(Len(a) + Len(b)) : (a \o b)[k] = IF k <= Len(a) THEN a[k] ELSE b[k - Len(a)]
  BY <1>4, <1>5, ConcatProperties
<1>7. /\ a \o b \in Seq(Tokens) /\ Len(a \o b) = n - 1
      /\ \A j \in 1..(n - 1) : (a \o b)[j] = IF j < i THEN l[j] ELSE l[j + 1]
  BY <1>1, <1>2, <1>4, <1>5, <1>6
<1> QED
  BY <1>2, <1>3, <1>7 DEF l, n, WithoutElement

LEMMA UnlinkedLists ==
  ASSUME NEW c, NEW S, Lists(c.lru, S), NEW t \in S
  PROVE  /\ Lists(Unlinked(c, t), S \ {t})
         /\ Len(Unlinked(c, t)) = Len(c.lru) - 1
         /\ \A a, b : Before(Unlinked(c, t), a, b) <=> a # t /\ b # t /\ Before(c.lru, a, b)
<1> DEFINE l == c.lru
           n == Len(l)
           u == Unlinked(c, t)
<1>1. PICK i \in 1..n :
        /\ l[i] = t /\ u \in Seq(Tokens) /\ Len(u) = n - 1
        /\ \A j \in 1..(n - 1) : u[j] = IF j < i THEN l[j] ELSE l[j + 1]
  <2>1. WithoutElement(l, t, u)
    BY UnlinkedElements
  <2> HIDE DEF l, n, u
  <2> QED
    BY <2>1 DEF WithoutElement, n
<1>2. n \in Nat /\ \A j, k \in 1..n : l[j] = l[k] => j = k
  BY LenProperties DEF Lists
<1>3. \A j \in 1..n : l[j] \in S
  BY DEF Lists
<1>4. \A x \in S : \E j \in 1..n : l[j] = x
  BY DEF Lists
<1>5. IsFiniteSet(S \ {t}) /\ Cardinality(S \ {t}) = Cardinality(S) - 1 /\ n = Cardinality(S)
  BY FS_RemoveElement DEF Lists
<1> HIDE DEF l, n, u
<1>6. \A j \in 1..n : j # i => \E k \in 1..(n - 1) : u[k] = l[j] /\ k = IF j < i THEN j ELSE j - 1
  BY <1>1, <1>2
<1>7. Lists(u, S \ {t})
  <2>1. \A j, k \in 1..Len(u) : u[j] = u[k] => j = k
    BY <1>1, <1>2
  <2>2. \A j \in 1..Len(u) : u[j] \in S \ {t}
    BY <1>1, <1>2, <1>3
  <2>3. \A x \in S \ {t} : \E j \in 1..Len(u) : u[j] = x
    <3> TAKE x \in S \ {t}
    <3>1. PICK j \in 1..n : l[j] = x
      BY <1>4
    <3>2. j # i
      BY <1>1, <3>1
    <3> QED
      BY <1>1, <1>6, <3>1, <3>2
  <2> QED
    BY <1>1, <1>5, <2>1, <2>2, <2>3 DEF Lists
<1>8. ASSUME NEW a, NEW b, Before(u, a, b)
      PROVE  a # t /\ b # t /\ Before(l, a, b)
  <2>1. PICK j, k \in 1..(n - 1) : j < k /\ u[j] = a /\ u[k] = b
    BY <1>1, <1>8 DEF Before
  <2> DEFINE p == IF j < i THEN j ELSE j + 1
             q == IF k < i THEN k ELSE k + 1
  <2>2. p \in 1..n /\ q \in 1..n /\ p < q /\ p # i /\ q # i
    BY <1>1, <1>2, <2>1
  <2>3. l[p] = a /\ l[q] = b
    BY <1>1, <2>1
  <2> HIDE DEF p, q
  <2>4. a # t /\ b # t
    BY <1>1, <1>2, <2>2, <2>3
  <2> QED
    BY <2>2, <2>3, <2>4 DEF Before, n
<1>9. ASSUME NEW a, NEW b, a # t, b # t, Before(l, a, b)
      PROVE  Before(u, a, b)
  <2>1. PICK p, q \in 1..n : p < q /\ l[p] = a /\ l[q] = b
    BY <1>9 DEF Before, n
  <2>2. p # i /\ q # i
    BY <1>1, <1>9, <2>1
  <2>3. PICK j \in 1..(n - 1) : u[j] = a /\ j = IF p < i THEN p ELSE p - 1
    BY <1>6, <2>1, <2>2
  <2>4. PICK k \in 1..(n - 1) : u[k] = b /\ k = IF q < i THEN q ELSE q - 1
    BY <1>6, <2>1, <2>2
  <2>5. j < k
    BY <1>1, <1>2, <2>1, <2>2, <2>3, <2>4
  <2> QED
    BY <1>1, <2>3, <2>4, <2>5 DEF Before
<1> QED
  BY <1>1, <1>7, <1>8, <1>9 DEF l, n, u

\* A token the list lacks is linked at its front.
LEMMA PushedLists ==
  ASSUME NEW l, NEW S, Lists(l, S), NEW t \in Tokens, t \notin S
  PROVE  /\ Lists(<<t>> \o l, S \cup {t})
         /\ Len(<<t>> \o l) = Len(l) + 1
         /\ \A a, b : Before(<<t>> \o l, a, b) <=> (a = t /\ b \in S) \/ Before(l, a, b)
<1> DEFINE n == Len(l)
           v == <<t>> \o l
<1>1. l \in Seq(Tokens) /\ n \in Nat /\ <<t>> \in Seq(Tokens) /\ Len(<<t>>) = 1 /\ <<t>>[1] = t
  BY LenProperties DEF Lists
<1>2. /\ v \in Seq(Tokens) /\ Len(v) = n + 1 /\ v[1] = t
      /\ \A j \in 1..n : v[j + 1] = l[j]
  <2>1. /\ v \in Seq(Tokens) /\ Len(v) = 1 + n
        /\ \A k \in 1..(1 + n) : v[k] = IF k <= 1 THEN <<t>>[k] ELSE l[k - 1]
    BY <1>1, ConcatProperties
  <2> QED
    BY <1>1, <2>1
<1>3. /\ \A j, k \in 1..n : l[j] = l[k] => j = k
      /\ \A j \in 1..n : l[j] \in S
      /\ \A x \in S : \E j \in 1..n : l[j] = x
  BY DEF Lists
<1>4. /\ IsFiniteSet(S \cup {t}) /\ Cardinality(S \cup {t}) = Cardinality(S) + 1
      /\ n = Cardinality(S)
  BY FS_AddElement DEF Lists
<1> HIDE DEF n, v
<1>5. \A k \in 1..(n + 1) : k = 1 \/ (k - 1 \in 1..n /\ v[k] = l[k - 1])
  BY <1>1, <1>2
<1>6. Lists(v, S \cup {t})
  <2>1. \A j, k \in 1..Len(v) : v[j] = v[k] => j = k
    BY <1>1, <1>2, <1>3, <1>5
  <2>2. \A j \in 1..Len(v) : v[j] \in S \cup {t}
    BY <1>1, <1>2, <1>3, <1>5
  <2>3. \A x \in S \cup {t} : \E j \in 1..Len(v) : v[j] = x
    <3> TAKE x \in S \cup {t}
    <3>1. CASE x = t
      BY <1>1, <1>2, <3>1
    <3>2. CASE x # t
      <4>1. PICK j \in 1..n : l[j] = x
        BY <1>3, <3>2
      <4> QED
        BY <1>1, <1>2, <4>1
    <3> QED
      BY <3>1, <3>2
  <2> QED
    BY <1>2, <1>4, <2>1, <2>2, <2>3 DEF Lists
<1>7. ASSUME NEW a, NEW b, Before(v, a, b)
      PROVE  (a = t /\ b \in S) \/ Before(l, a, b)
  <2>1. PICK j, k \in 1..(n + 1) : j < k /\ v[j] = a /\ v[k] = b
    BY <1>2, <1>7 DEF Before
  <2>2. k - 1 \in 1..n /\ l[k - 1] = b
    BY <1>1, <1>5, <2>1
  <2>3. CASE j = 1
    BY <1>2, <1>3, <2>1, <2>2, <2>3
  <2>4. CASE j # 1
    <3>1. j - 1 \in 1..n /\ l[j - 1] = a /\ j - 1 < k - 1
      BY <1>1, <1>5, <2>1, <2>4
    <3> QED
      BY <2>2, <3>1 DEF Before, n
  <2> QED
    BY <2>3, <2>4
<1>8. ASSUME NEW a, NEW b, (a = t /\ b \in S) \/ Before(l, a, b)
      PROVE  Before(v, a, b)
  <2>1. CASE a = t /\ b \in S
    <3>1. PICK k \in 1..n : l[k] = b
      BY <1>3, <2>1
    <3>2. 1 \in 1..(n + 1) /\ k + 1 \in 1..(n + 1) /\ 1 < k + 1 /\ v[1] = a /\ v[k + 1] = b
      BY <1>1, <1>2, <2>1, <3>1
    <3> QED
      BY <1>2, <3>2 DEF Before
  <2>2. CASE Before(l, a, b)
    <3>1. PICK j, k \in 1..n : j < k /\ l[j] = a /\ l[k] = b
      BY <2>2 DEF Before, n
    <3>2. j + 1 \in 1..(n + 1) /\ k + 1 \in 1..(n + 1) /\ j + 1 < k + 1
          /\ v[j + 1] = a /\ v[k + 1] = b
      BY <1>1, <1>2, <3>1
    <3> QED
      BY <1>2, <3>2 DEF Before
  <2> QED
    BY <1>8, <2>1, <2>2
<1> QED
  BY <1>2, <1>6, <1>7, <1>8 DEF n, v

\* MoveToFront: the same tokens, t before all others.
LEMMA MovedLists ==
  ASSUME NEW c, NEW S, Lists(c.lru, S), NEW t \in S, S \subseteq Tokens
  PROVE  /\ Lists(MovedToFront(c, t), S)
         /\ Len(MovedToFront(c, t)) = Len(c.lru)
         /\ \A a, b : Before(MovedToFront(c, t), a, b) <=>
                        (a = t /\ b \in S \ {t}) \/ (a # t /\ b # t /\ Before(c.lru, a, b))
<1> DEFINE u == Unlinked(c, t)
<1>1. /\ Lists(u, S \ {t}) /\ Len(u) = Len(c.lru) - 1
      /\ \A a, b : Before(u, a, b) <=> a # t /\ b # t /\ Before(c.lru, a, b)
  BY UnlinkedLists
<1>2. MovedToFront(c, t) = <<t>> \o u
  BY DEF MovedToFront
<1>3. (S \ {t}) \cup {t} = S /\ t \in Tokens /\ t \notin S \ {t}
  OBVIOUS
<1>4. Len(c.lru) \in Nat
  BY LenProperties DEF Lists
<1> HIDE DEF u
<1> DEFINE v == <<t>> \o u
<1>5. /\ Lists(v, (S \ {t}) \cup {t}) /\ Len(v) = Len(u) + 1
      /\ \A a, b : Before(v, a, b) <=> (a = t /\ b \in S \ {t}) \/ Before(u, a, b)
  BY <1>1, <1>3, PushedLists
<1>6. v = MovedToFront(c, t)
  BY <1>2
<1> HIDE DEF v
<1>7. Lists(v, S)
  BY <1>3, <1>5
<1>8. Len(v) = Len(c.lru)
  BY <1>1, <1>4, <1>5
<1>9. \A a, b : Before(v, a, b) <=>
                (a = t /\ b \in S \ {t}) \/ (a # t /\ b # t /\ Before(c.lru, a, b))
  BY <1>1, <1>5
<1> QED
  BY <1>6, <1>7, <1>8, <1>9

\* The list without its last element, which every other was used after.
LEMMA ShortenedLists ==
  ASSUME NEW l, NEW S, Lists(l, S), Len(l) >= 1
  PROVE  LET o == l[Len(l)]
             k == SubSeq(l, 1, Len(l) - 1)
         IN  /\ o \in S /\ Lists(k, S \ {o}) /\ Len(k) = Len(l) - 1
             /\ \A a, b : Before(k, a, b) <=> b # o /\ Before(l, a, b)
             /\ \A a \in S \ {o} : Before(l, a, o)
<1> DEFINE n == Len(l)
           o == l[n]
           k == SubSeq(l, 1, n - 1)
<1>1. l \in Seq(Tokens) /\ n \in Nat /\ n >= 1 /\ \A j \in 1..n : l[j] \in Tokens
  BY LenProperties, ElementOfSeq DEF Lists
<1>2. /\ \A i, j \in 1..n : l[i] = l[j] => i = j
      /\ \A j \in 1..n : l[j] \in S
      /\ \A x \in S : \E j \in 1..n : l[j] = x
  BY DEF Lists
<1>3. k \in Seq(Tokens) /\ Len(k) = n - 1 /\ \A j \in 1..(n - 1) : k[j] = l[j]
  <2> HIDE DEF n
  <2>1. \A j \in 1..(n - 1) : l[j] \in Tokens
    BY <1>1
  <2>2. 1 \in Int /\ n - 1 \in Int
    BY <1>1
  <2> HIDE DEF k
  <2>3. /\ SubSeq(l, 1, n - 1) \in Seq(Tokens)
        /\ Len(SubSeq(l, 1, n - 1)) = IF 1 <= n - 1 THEN (n - 1) - 1 + 1 ELSE 0
        /\ \A j \in 1..((n - 1) - 1 + 1) : SubSeq(l, 1, n - 1)[j] = l[1 + j - 1]
    BY <2>1, <2>2, SubSeqProperties
  <2> QED
    BY <1>1, <2>3 DEF k
<1>4. o \in S /\ IsFiniteSet(S \ {o}) /\ Cardinality(S \ {o}) = Cardinality(S) - 1
      /\ n = Cardinality(S)
  BY <1>1, <1>2, FS_RemoveElement DEF Lists
<1>5. n \in 1..n /\ o = l[n]
  BY <1>1
<1> HIDE DEF n, o, k
<1>6. Lists(k, S \ {o})
  <2>1. \A i, j \in 1..Len(k) : k[i] = k[j] => i = j
    BY <1>1, <1>2, <1>3
  <2>2. \A j \in 1..Len(k) : k[j] \in S \ {o}
    BY <1>1, <1>2, <1>3, <1>5
  <2>3. \A x \in S \ {o} : \E j \in 1..Len(k) : k[j] = x
    <3> TAKE x \in S \ {o}
    <3>1. PICK j \in 1..n : l[j] = x
      BY <1>2
    <3>2. j \in 1..(n - 1)
      BY <1>1, <1>5, <3>1
    <3> QED
      BY <1>3, <3>1, <3>2
  <2> QED
    BY <1>3, <1>4, <2>1, <2>2, <2>3 DEF Lists
<1>7. ASSUME NEW a, NEW b, Before(k, a, b)
      PROVE  b # o /\ Before(l, a, b)
  <2>1. PICK i, j \in 1..(n - 1) : i < j /\ k[i] = a /\ k[j] = b
    BY <1>3, <1>7 DEF Before
  <2>2. i \in 1..n /\ j \in 1..n /\ l[i] = a /\ l[j] = b /\ j # n
    BY <1>1, <1>3, <2>1
  <2> QED
    BY <1>2, <1>5, <2>1, <2>2 DEF Before, n
<1>8. ASSUME NEW a, NEW b, b # o, Before(l, a, b)
      PROVE  Before(k, a, b)
  <2>1. PICK i, j \in 1..n : i < j /\ l[i] = a /\ l[j] = b
    BY <1>8 DEF Before, n
  <2>2. i \in 1..(n - 1) /\ j \in 1..(n - 1)
    BY <1>1, <1>5, <1>8, <2>1
  <2> QED
    BY <1>3, <2>1, <2>2 DEF Before
<1>9. ASSUME NEW a \in S \ {o}
      PROVE  Before(l, a, o)
  <2>1. PICK j \in 1..n : l[j] = a
    BY <1>2
  <2>2. j < n
    BY <1>1, <1>5, <2>1
  <2> QED
    BY <1>5, <2>1, <2>2 DEF Before, n
<1> QED
  BY <1>3, <1>4, <1>6, <1>7, <1>8, <1>9 DEF n, o, k

\* evictLocked on a cache within the cap, and on one just beyond it.
LEMMA EvictedNone ==
  ASSUME NEW c, NEW S, S = DOMAIN c.entries, Lists(c.lru, S), Len(c.lru) <= MaxEntries
  PROVE  Evicted(c) = [entries |-> Restrict(c.entries, S), lru |-> c.lru]
<1> DEFINE n == Len(c.lru)
<1>1. n \in Nat /\ Cardinality(DOMAIN c.entries) = n /\ n <= MaxEntries
      /\ SubSeq(c.lru, 1, n) = c.lru
  BY LenProperties, SubSeqFull DEF Lists
<1>2. {c.lru[i] : i \in (n + 1)..n} = {}
  BY <1>1
<1>3. S \ {} = S
  OBVIOUS
<1> QED
  BY <1>1, <1>2, <1>3 DEF Evicted

LEMMA EvictedLast ==
  ASSUME NEW c, NEW S, S = DOMAIN c.entries, Lists(c.lru, S), Len(c.lru) = MaxEntries + 1
  PROVE  Evicted(c) = [entries |-> Restrict(c.entries, S \ {c.lru[Len(c.lru)]}),
                       lru |-> SubSeq(c.lru, 1, Len(c.lru) - 1)]
<1> DEFINE n == Len(c.lru)
<1>1. n \in Nat /\ Cardinality(DOMAIN c.entries) = n /\ n = MaxEntries + 1
  BY LenProperties DEF Lists
<1>2. n > 1 /\ ~(n <= MaxEntries) /\ n - MaxEntries = 1 /\ ~(n - MaxEntries >= n)
  BY <1>1, Constants
<1>3. {c.lru[i] : i \in ((n - 1) + 1)..n} = {c.lru[n]}
  <2>1. ((n - 1) + 1)..n = {n}
    BY <1>1
  <2> QED
    BY <2>1
<1> HIDE DEF n
<1>4. Evicted(c) = [entries |-> Restrict(c.entries, S \ {c.lru[n]}),
                    lru |-> SubSeq(c.lru, 1, n - 1)]
  BY <1>1, <1>2, <1>3 DEF Evicted, n
<1> QED
  BY <1>4 DEF n

LEMMA DroppedOK ==
  ASSUME NEW c, CacheOK(c), NEW t \in DOMAIN c.entries
  PROVE  LET d == Dropped(c, t)
         IN  /\ CacheOK(d) /\ Gone(c.lru, d.lru, t)
             /\ d.entries = Restrict(c.entries, DOMAIN c.entries \ {t})
<1> DEFINE d == Dropped(c, t)
           S == DOMAIN c.entries
           u == Unlinked(c, t)
<1>1. d = [entries |-> [x \in S \ {t} |-> c.entries[x]], lru |-> u]
  BY DEF Dropped, Restrict
<1>2. Lists(u, S \ {t}) /\ Len(u) = Len(c.lru) - 1 /\ Gone(c.lru, u, t)
  BY UnlinkedLists DEF CacheOK, Gone
<1>3. Len(u) <= MaxEntries
  <2>1. Len(c.lru) \in Nat
    BY LenProperties DEF CacheOK, Lists
  <2> HIDE DEF u
  <2> QED
    BY <1>2, <2>1, Constants DEF CacheOK
<1> HIDE DEF d, u
<1> QED
  BY <1>1, <1>2, <1>3 DEF CacheOK, d, Restrict

LEMMA PromotedOK ==
  ASSUME NEW c, CacheOK(c), NEW t \in DOMAIN c.entries
  PROVE  LET d == [c EXCEPT !.lru = MovedToFront(c, t)]
         IN  /\ CacheOK(d) /\ ToFront(c.lru, d.lru, DOMAIN c.entries, t)
             /\ d.entries = c.entries
<1> DEFINE m == MovedToFront(c, t)
           d == [c EXCEPT !.lru = m]
<1>1. d = [entries |-> c.entries, lru |-> m]
  BY DEF CacheOK
<1>2. Lists(m, DOMAIN c.entries) /\ Len(m) = Len(c.lru)
      /\ ToFront(c.lru, m, DOMAIN c.entries, t)
  BY MovedLists DEF CacheOK, ToFront
<1> HIDE DEF d, m
<1> QED
  BY <1>1, <1>2 DEF CacheOK, d, m

LEMMA NewEntryOK ==
  ASSUME NEW l \in Logins, NEW n \in Nat
  PROVE  NewEntry(l, n) \in EntryType
BY Constants DEF NewEntry, EntryType

LEMMA RenewedOK ==
  ASSUME NEW c, CacheOK(c), NEW t \in DOMAIN c.entries, NEW l \in Logins, NEW n \in Nat
  PROVE  LET d == AfterPut(c, t, l, n)
         IN  /\ CacheOK(d) /\ ToFront(c.lru, d.lru, DOMAIN c.entries, t)
             /\ d.entries = [c.entries EXCEPT ![t] = NewEntry(l, n)]
<1> DEFINE m == MovedToFront(c, t)
           e == [c.entries EXCEPT ![t] = NewEntry(l, n)]
           d == AfterPut(c, t, l, n)
<1>1. d = [entries |-> e, lru |-> m]
  BY Constants DEF AfterPut, CacheOK
<1>2. DOMAIN e = DOMAIN c.entries /\ \A x \in DOMAIN e : e[x] \in EntryType
  BY NewEntryOK DEF CacheOK
<1>3. Lists(m, DOMAIN c.entries) /\ Len(m) = Len(c.lru)
      /\ ToFront(c.lru, m, DOMAIN c.entries, t)
  BY MovedLists DEF CacheOK, ToFront
<1> HIDE DEF d, m, e
<1> QED
  BY <1>1, <1>2, <1>3 DEF CacheOK, d, m, e

\* The map with a new token ...
AddedEntries(c, t, l, n) ==
  [x \in DOMAIN c.entries \cup {t} |-> IF x = t THEN NewEntry(l, n) ELSE c.entries[x]]

\* ... and the cache d that Put makes of c then: within the cap, or without the
\* token o all others were used after.
Added(c, d, S, all, t) ==
  IF Cardinality(S) <= MaxEntries
  THEN d.entries = all /\ ToFront(c.lru, d.lru, S, t)
  ELSE \E o \in S : \E m :
         /\ ToFront(c.lru, m, S, t)
         /\ \A a \in S \ {o} : Before(m, a, o)
         /\ \A a, b : Before(d.lru, a, b) <=> b # o /\ Before(m, a, b)
         /\ d.entries = Restrict(all, S \ {o})

LEMMA AddedOK ==
  ASSUME NEW c, CacheOK(c), NEW t \in Tokens, t \notin DOMAIN c.entries,
         NEW l \in Logins, NEW n \in Nat
  PROVE  /\ CacheOK(AfterPut(c, t, l, n))
         /\ Added(c, AfterPut(c, t, l, n), DOMAIN c.entries \cup {t}, AddedEntries(c, t, l, n), t)
<1> DEFINE d == AfterPut(c, t, l, n)
           S == DOMAIN c.entries \cup {t}
           all == AddedEntries(c, t, l, n)
           m == <<t>> \o c.lru
           big == [entries |-> all, lru |-> m]
<1>1. d = Evicted(big)
  BY Constants DEF AfterPut, AddedEntries
<1>2. DOMAIN all = S /\ S \subseteq Tokens /\ \A x \in S : all[x] \in EntryType
  BY NewEntryOK DEF CacheOK, AddedEntries
<1>3. Lists(m, S) /\ Len(m) = Len(c.lru) + 1 /\ Len(c.lru) \in Nat /\ Len(m) = Cardinality(S)
  <2>1. Lists(c.lru, DOMAIN c.entries)
    BY DEF CacheOK
  <2>2. Lists(m, S) /\ Len(m) = Len(c.lru) + 1
    BY <2>1, PushedLists
  <2>3. Len(c.lru) \in Nat
    BY <2>1, LenProperties DEF Lists
  <2> HIDE DEF m
  <2> QED
    BY <2>2, <2>3 DEF Lists
<1>4. ToFront(c.lru, m, S, t)
  <2>1. \A a, b : Before(m, a, b) <=> (a = t /\ b \in DOMAIN c.entries) \/ Before(c.lru, a, b)
    BY PushedLists DEF CacheOK
  <2>2. \A a, b : Before(c.lru, a, b) => a \in DOMAIN c.entries /\ b \in DOMAIN c.entries
    BY DEF CacheOK, Lists, Before
  <2> HIDE DEF m
  <2> QED
    BY <2>1, <2>2 DEF ToFront
<1> HIDE DEF d, all, m
<1>5. CASE Cardinality(S) <= MaxEntries
  <2>1. d = [entries |-> Restrict(all, S), lru |-> m]
    BY <1>1, <1>2, <1>3, <1>5, EvictedNone
  <2>2. Restrict(all, S) = all
    BY <1>2 DEF Restrict, all, AddedEntries
  <2>3. CacheOK(d)
    BY <1>2, <1>3, <1>5, <2>1, <2>2 DEF CacheOK
  <2> QED
    BY <1>4, <1>5, <2>1, <2>2, <2>3 DEF d, all, Added
<1>6. CASE ~(Cardinality(S) <= MaxEntries)
  <2>1. Len(m) = MaxEntries + 1 /\ Len(m) >= 1
    BY <1>3, <1>6, Constants DEF CacheOK
  <2> DEFINE o == m[Len(m)]
             k == SubSeq(m, 1, Len(m) - 1)
  <2>2. d = [entries |-> Restrict(all, S \ {o}), lru |-> k]
    <3>1. big.entries = all /\ big.lru = m /\ S = DOMAIN big.entries
      BY <1>2
    <3> HIDE DEF big, o, k
    <3>2. Evicted(big) = [entries |-> Restrict(big.entries, S \ {big.lru[Len(big.lru)]}),
                          lru |-> SubSeq(big.lru, 1, Len(big.lru) - 1)]
      BY <1>3, <2>1, <3>1, EvictedLast
    <3> QED
      BY <1>1, <3>1, <3>2 DEF o, k
  <2>3. /\ o \in S /\ Lists(k, S \ {o}) /\ Len(k) = Len(m) - 1
        /\ \A a, b : Before(k, a, b) <=> b # o /\ Before(m, a, b)
        /\ \A a \in S \ {o} : Before(m, a, o)
    BY <1>3, <2>1, ShortenedLists
  <2> HIDE DEF o, k
  <2>4. Len(k) <= MaxEntries
    BY <2>1, <2>3, Constants
  <2>5. CacheOK(d)
    BY <1>2, <2>2, <2>3, <2>4 DEF CacheOK, Restrict
  <2>6. d.lru = k /\ d.entries = Restrict(all, S \ {o})
    BY <2>2
  <2>7. /\ \A a \in S \ {o} : Before(m, a, o)
        /\ \A a, b : Before(d.lru, a, b) <=> b # o /\ Before(m, a, b)
    BY <2>3, <2>6
  <2> QED
    BY <1>4, <1>6, <2>3, <2>5, <2>6, <2>7 DEF d, all, Added
<1> QED
  BY <1>5, <1>6
-----------------------------------------------------------------------------
LEMMA InitInv == Init => IInv
<1> SUFFICES ASSUME Init PROVE IInv
  OBVIOUS
<1>1. cache = [entries |-> << >>, lru |-> << >>] /\ now = 0 /\ answer = Miss
  BY DEF Init, EmptyCache
<1>2. Lists(<< >>, {})
  BY FS_EmptySet, EmptySeq DEF Lists
<1>3. Len(<< >>) = 0 /\ DOMAIN << >> = {}
  BY EmptySeq
<1> QED
  BY <1>1, <1>2, <1>3, Constants DEF IInv, CacheOK

\* A method that finds nothing to do, and what Get and Invalidate do otherwise.
Idle == answer' = Miss /\ UNCHANGED <<cache, now>>

Found(t) ==
  /\ t \in DOMAIN cache.entries /\ now <= cache.entries[t].expiresAt
  /\ cache' = [cache EXCEPT !.lru = MovedToFront(cache, t)]
  /\ answer' = cache.entries[t].login /\ UNCHANGED now

Forgotten(t) ==
  /\ t \in DOMAIN cache.entries
  /\ cache' = Dropped(cache, t)
  /\ answer' = Miss /\ UNCHANGED now

LEMMA Methods ==
  ASSUME Next
  PROVE  \/ Idle
         \/ \E t \in Tokens : Found(t) \/ Forgotten(t)
         \/ \E t \in Tokens, l \in Logins : Put(t, l)
         \/ Tick
<1>1. ASSUME NEW t \in Tokens \cup {EmptyToken}, Get(t)
      PROVE  Idle \/ (t \in Tokens /\ (Found(t) \/ Forgotten(t)))
  BY <1>1 DEF Get, AfterGet, CacheHit, Idle, Found, Forgotten
<1>2. ASSUME NEW t \in Tokens \cup {EmptyToken}, Invalidate(t)
      PROVE  Idle \/ (t \in Tokens /\ Forgotten(t))
  BY <1>2 DEF Invalidate, AfterInvalidate, Idle, Forgotten
<1>3. ASSUME NEW t \in Tokens \cup {EmptyToken}, NEW l \in Logins, Put(t, l)
      PROVE  Idle \/ (t \in Tokens /\ Put(t, l))
  BY <1>3 DEF Put, AfterPut, Idle
<1> QED
  BY <1>1, <1>2, <1>3 DEF Next

LEMMA NextInv == IInv /\ [Next]_vars => IInv'
<1> SUFFICES ASSUME IInv, [Next]_vars PROVE IInv'
  OBVIOUS
<1>1. CASE UNCHANGED vars
  BY <1>1 DEF vars, IInv, CacheOK, Lists
<1>2. CASE Idle
  BY <1>2 DEF Idle, IInv, CacheOK, Lists
<1>3. ASSUME NEW t \in Tokens, Found(t)
      PROVE  IInv'
  <2>1. CacheOK(cache')
    BY <1>3, PromotedOK DEF Found, IInv
  <2>2. cache.entries[t].login \in Logins
    BY <1>3 DEF Found, IInv, CacheOK, EntryType
  <2> QED
    BY <1>3, <2>1, <2>2 DEF Found, IInv
<1>4. ASSUME NEW t \in Tokens, Forgotten(t)
      PROVE  IInv'
  <2>1. CacheOK(cache')
    BY <1>4, DroppedOK DEF Forgotten, IInv
  <2> QED
    BY <1>4, <2>1 DEF Forgotten, IInv
<1>5. ASSUME NEW t \in Tokens, NEW l \in Logins, Put(t, l)
      PROVE  IInv'
  <2>1. CacheOK(cache')
    BY <1>5, RenewedOK, AddedOK DEF Put, IInv
  <2> QED
    BY <1>5, <2>1 DEF Put, IInv
<1>6. CASE Tick
  BY <1>6 DEF Tick, IInv, CacheOK, Lists
<1> QED
  BY <1>1, <1>2, <1>3, <1>4, <1>5, <1>6, Methods

LEMMA Safe == IInv => TypeOK /\ ListMapAgree
<1> SUFFICES ASSUME IInv PROVE TypeOK /\ ListMapAgree
  OBVIOUS
<1>1. TypeOK
  BY DEF IInv, CacheOK, Lists, TypeOK
<1>2. /\ cache.lru \in Seq(Tokens) /\ Len(cache.lru) = Cardinality(DOMAIN cache.entries)
      /\ Len(cache.lru) <= MaxEntries
      /\ DOMAIN cache.entries = {cache.lru[i] : i \in 1..Len(cache.lru)}
  BY DEF IInv, CacheOK, Lists
<1>3. Range(cache.lru) = DOMAIN cache.entries
  BY <1>2, RangeEquality
<1> QED
  BY <1>1, <1>2, <1>3 DEF ListMapAgree

\* The types of the cache, the clock and the answer, for every cap and any
\* number of tokens.
THEOREM Types == Spec => []TypeOK
<1> QED
  BY InitInv, NextInv, Safe, PTL DEF Spec

\* The map and the recency list hold the same tokens, each once, and at most
\* MaxEntries of them, through Get, Put, Invalidate and evictLocked
\* (s21_token_cache.go:91-178).
THEOREM Agreement == Spec => []ListMapAgree
<1> QED
  BY InitInv, NextInv, Safe, PTL DEF Spec
-----------------------------------------------------------------------------
\* The refinement mapping of module S21TokenCache.
PutBar ==
  [t \in DOMAIN cache.entries |->
     [login |-> cache.entries[t].login, at |-> cache.entries[t].expiresAt - TTL]]

NewerIn(c) ==
  {<<c.lru[p[1]], c.lru[p[2]]>> :
     p \in {q \in (1..Len(c.lru)) \X (1..Len(c.lru)) : q[1] < q[2]}}

NewerBar == NewerIn(cache)

LEMMA NewerIsOrder ==
  ASSUME NEW c, CacheOK(c)
  PROVE  NewerIn(c) = Order(c.lru)
<1> DEFINE l == c.lru
           n == Len(l)
<1>1. \A i \in 1..n : l[i] \in Tokens
  BY DEF CacheOK, Lists
<1> HIDE DEF l, n
<1>2. NewerIn(c) = {<<l[p[1]], l[p[2]]>> : p \in {q \in (1..n) \X (1..n) : q[1] < q[2]}}
  BY DEF NewerIn, l, n
<1>3. ASSUME NEW p \in NewerIn(c)
      PROVE  p \in Order(l)
  <2>1. PICK q \in (1..n) \X (1..n) : q[1] < q[2] /\ p = <<l[q[1]], l[q[2]]>>
    BY <1>2
  <2>2. q[1] \in 1..n /\ q[2] \in 1..n
    OBVIOUS
  <2>3. Before(l, p[1], p[2])
    BY <2>1, <2>2 DEF Before, n
  <2> QED
    BY <1>1, <2>1, <2>2, <2>3 DEF Order
<1>4. ASSUME NEW p \in Order(l)
      PROVE  p \in NewerIn(c)
  <2>1. p \in Tokens \X Tokens /\ Before(l, p[1], p[2])
    BY DEF Order
  <2>2. PICK i, j \in 1..n : i < j /\ l[i] = p[1] /\ l[j] = p[2]
    BY <2>1 DEF Before, n
  <2>3. p = <<l[i], l[j]>> /\ <<i, j>> \in {q \in (1..n) \X (1..n) : q[1] < q[2]}
    BY <2>1, <2>2
  <2> QED
    BY <1>2, <2>3
<1> QED
  BY <1>3, <1>4 DEF l

\* The recency order after t moved to the front, and after it left.
LEMMA OrderToFront ==
  ASSUME NEW l, NEW m, NEW S, S \subseteq Tokens, NEW t \in S, ToFront(l, m, S, t)
  PROVE  Order(m) = {p \in Order(l) : t \notin {p[1], p[2]}} \cup ({t} \X (S \ {t}))
BY DEF Order, ToFront

LEMMA OrderGone ==
  ASSUME NEW l, NEW m, NEW t, Gone(l, m, t)
  PROVE  Order(m) = {p \in Order(l) : t \notin {p[1], p[2]}}
BY DEF Order, Gone

LEMMA HitRefined ==
  ASSUME IInv, IInv', NEW t \in Tokens, Found(t)
  PROVE  Promise!Hit(t)
<1> DEFINE S == DOMAIN cache.entries
<1>1. cache'.entries = cache.entries /\ ToFront(cache.lru, cache'.lru, S, t)
  BY PromotedOK DEF Found, IInv
<1>2. S \subseteq Tokens /\ t \in S /\ cache.entries[t].expiresAt \in Nat /\ now \in Nat
  BY DEF IInv, CacheOK, Found, EntryType
<1>3. NewerBar = Order(cache.lru) /\ NewerBar' = Order(cache'.lru)
  BY NewerIsOrder DEF IInv, NewerBar
<1>4. Order(cache'.lru) = {p \in Order(cache.lru) : t \notin {p[1], p[2]}} \cup ({t} \X (S \ {t}))
  BY <1>1, <1>2, OrderToFront
<1>5. PutBar' = PutBar /\ DOMAIN PutBar = S
  BY <1>1 DEF PutBar
<1>6. PutBar[t] = [login |-> cache.entries[t].login, at |-> cache.entries[t].expiresAt - TTL]
  BY <1>2 DEF PutBar
<1>7. now - PutBar[t].at <= TTL /\ answer' = PutBar[t].login /\ now' = now
  BY <1>2, <1>6, Constants DEF Found
<1>8. NewerBar' = {p \in NewerBar : t \notin {p[1], p[2]}} \cup ({t} \X (DOMAIN PutBar \ {t}))
  BY <1>3, <1>4, <1>5
<1> HIDE DEF S
<1> QED
  BY <1>2, <1>5, <1>7, <1>8 DEF Promise!Hit, Promise!Live, Promise!Used, PutBar, NewerBar,
     NewerIn, S

LEMMA ForgottenRefined ==
  ASSUME IInv, IInv', NEW t \in Tokens, Forgotten(t)
  PROVE  Promise!Forget(t)
<1> DEFINE S == DOMAIN cache.entries
<1>1. /\ cache'.entries = [x \in S \ {t} |-> cache.entries[x]]
      /\ Gone(cache.lru, cache'.lru, t)
  BY DroppedOK DEF Forgotten, IInv, Restrict
<1>2. NewerBar = Order(cache.lru) /\ NewerBar' = Order(cache'.lru)
  BY NewerIsOrder DEF IInv, NewerBar
<1>3. NewerBar' = {p \in NewerBar : t \notin {p[1], p[2]}}
  BY <1>1, <1>2, OrderGone
<1>4. DOMAIN PutBar = S /\ PutBar' = [x \in S \ {t} |-> PutBar[x]]
  BY <1>1 DEF PutBar
<1>5. answer' = Miss /\ now' = now
  BY DEF Forgotten
<1> HIDE DEF S
<1> QED
  BY <1>3, <1>4, <1>5 DEF Promise!Forget, Promise!Live, Promise!Without, Promise!Restrict, Restrict,
     PutBar, NewerBar, NewerIn

\* What Put makes of the mapping: the entry of t is stamped now.
LEMMA PutStamp ==
  ASSUME NEW l \in Logins, NEW n \in Nat
  PROVE  NewEntry(l, n).login = l /\ NewEntry(l, n).expiresAt - TTL = n
BY Constants DEF NewEntry

LEMMA SameCardinality ==
  ASSUME NEW S
  PROVE  Promise!Cardinality(S) = Cardinality(S)
BY DEF Promise!Cardinality, Cardinality

LEMMA PutTokenMeans ==
  ASSUME NEW t, NEW l
  PROVE  Promise!PutToken(t, l) <=>
           /\ answer' = Miss
           /\ LET S == DOMAIN PutBar \cup {t}
                  order == {p \in NewerBar : t \notin {p[1], p[2]}} \cup ({t} \X (S \ {t}))
                  all == [x \in S |-> IF x = t THEN [login |-> l, at |-> now] ELSE PutBar[x]]
              IN  IF Cardinality(S) <= MaxEntries
                  THEN PutBar' = all /\ NewerBar' = order
                  ELSE \E oldest \in S :
                         /\ \A x \in S \ {oldest} : <<x, oldest>> \in order
                         /\ PutBar' = Restrict(all, S \ {oldest})
                         /\ NewerBar' = {p \in order : p[2] # oldest}
           /\ now' = now
BY SameCardinality DEF Promise!PutToken, Promise!Live, Promise!Used, Promise!Restrict, Restrict,
   PutBar, NewerBar, NewerIn

LEMMA RenewRefined ==
  ASSUME IInv, IInv', NEW t \in Tokens, NEW l \in Logins, Put(t, l), t \in DOMAIN cache.entries
  PROVE  Promise!PutToken(t, l)
<1> DEFINE S == DOMAIN cache.entries
           all == [x \in S |-> IF x = t THEN [login |-> l, at |-> now] ELSE PutBar[x]]
<1>1. /\ cache'.entries = [cache.entries EXCEPT ![t] = NewEntry(l, now)]
      /\ ToFront(cache.lru, cache'.lru, S, t)
  BY RenewedOK DEF Put, IInv
<1>2. /\ S \subseteq Tokens /\ t \in S /\ S \cup {t} = S
      /\ Cardinality(S) <= MaxEntries /\ now \in Nat
  BY DEF IInv, CacheOK, Lists
<1>3. NewerBar = Order(cache.lru) /\ NewerBar' = Order(cache'.lru)
  BY NewerIsOrder DEF IInv, NewerBar
<1>4. NewerBar' = {p \in NewerBar : t \notin {p[1], p[2]}} \cup ({t} \X (S \ {t}))
  BY <1>1, <1>2, <1>3, OrderToFront
<1>5. DOMAIN PutBar = S
  BY DEF PutBar
<1>6. PutBar' = all
  BY <1>1, <1>2, PutStamp DEF PutBar
<1>7. answer' = Miss /\ now' = now
  BY DEF Put
<1> HIDE DEF S
<1> QED
  BY <1>2, <1>4, <1>5, <1>6, <1>7, PutTokenMeans

LEMMA AddRefined ==
  ASSUME IInv, IInv', NEW t \in Tokens, NEW l \in Logins, Put(t, l), t \notin DOMAIN cache.entries
  PROVE  Promise!PutToken(t, l)
<1> DEFINE L == DOMAIN cache.entries
           S == L \cup {t}
           added == AddedEntries(cache, t, l, now)
           all == [x \in S |-> IF x = t THEN [login |-> l, at |-> now] ELSE PutBar[x]]
           order == {p \in NewerBar : t \notin {p[1], p[2]}} \cup ({t} \X (S \ {t}))
<1>1. Added(cache, cache', S, added, t)
  BY AddedOK DEF Put, IInv
<1>2. S \subseteq Tokens /\ t \in S /\ now \in Nat
  BY DEF IInv, CacheOK
<1>3. NewerBar = Order(cache.lru) /\ NewerBar' = Order(cache'.lru)
  BY NewerIsOrder DEF IInv, NewerBar
<1>4. ASSUME NEW m, ToFront(cache.lru, m, S, t)
      PROVE  Order(m) = order
  BY <1>2, <1>3, <1>4, OrderToFront
<1>5. DOMAIN PutBar = L /\ answer' = Miss /\ now' = now
  BY DEF Put, PutBar
<1>6. /\ DOMAIN added = S
      /\ \A x \in S : [login |-> added[x].login, at |-> added[x].expiresAt - TTL] = all[x]
  BY <1>2, PutStamp DEF AddedEntries, PutBar
<1> HIDE DEF L, added, order
<1>7. CASE Cardinality(S) <= MaxEntries
  <2>1. NewerBar' = order
    BY <1>1, <1>3, <1>4, <1>7 DEF Added
  <2>2. PutBar' = all
    BY <1>1, <1>6, <1>7 DEF PutBar, Added
  <2> QED
    BY <1>5, <1>7, <2>1, <2>2, PutTokenMeans DEF order, L
<1>8. CASE ~(Cardinality(S) <= MaxEntries)
  <2> DEFINE Evicting(o, m) ==
               /\ ToFront(cache.lru, m, S, t)
               /\ \A a \in S \ {o} : Before(m, a, o)
               /\ \A a, b : Before(cache'.lru, a, b) <=> b # o /\ Before(m, a, b)
               /\ cache'.entries = Restrict(added, S \ {o})
  <2>0. PICK o \in S : \E m : Evicting(o, m)
    BY <1>1, <1>8 DEF Added
  <2>1. PICK m : Evicting(o, m)
    BY <2>0
  <2>2. Order(m) = order
    BY <1>4, <2>1
  <2>3. \A x \in S \ {o} : <<x, o>> \in order
    BY <1>2, <2>1, <2>2 DEF Order
  <2>4. NewerBar' = {p \in order : p[2] # o}
    BY <1>3, <2>1, <2>2 DEF Order
  <2>5. PutBar' = [x \in S \ {o} |-> all[x]]
    <3>1. /\ DOMAIN cache'.entries = S \ {o}
          /\ \A x \in S \ {o} : cache'.entries[x] = added[x]
      BY <2>1 DEF Restrict
    <3> HIDE DEF all, S
    <3> QED
      BY <1>6, <3>1 DEF PutBar
  <2> QED
    BY <1>5, <1>8, <2>3, <2>4, <2>5, PutTokenMeans DEF order, L, Restrict
<1> QED
  BY <1>7, <1>8

\* The cache with its map and its list implements ExpiringLru: a fresh token
\* is only lost to MaxEntries others used since, and an answer is the login
\* last put at most TTL ago (s21_token_cache.go:91-178).
THEOREM LruRefinement == Spec => ImplementsLru
<1>1. Init => Promise!Init
  <2> SUFFICES ASSUME Init PROVE Promise!Init
    OBVIOUS
  <2>1. DOMAIN cache.entries = {} /\ Len(cache.lru) = 0 /\ now = 0 /\ answer = Miss
    BY EmptySeq DEF Init, EmptyCache
  <2>2. PutBar = << >>
    BY <2>1 DEF PutBar
  <2>3. NewerBar = {}
    BY <2>1 DEF NewerBar, NewerIn
  <2> QED
    BY <2>1, <2>2, <2>3 DEF Promise!Init, PutBar, NewerBar, NewerIn
<1>2. IInv /\ IInv' /\ [Next]_vars => [Promise!Next]_(Promise!vars)
  <2> SUFFICES ASSUME IInv, IInv', [Next]_vars PROVE [Promise!Next]_(Promise!vars)
    OBVIOUS
  <2>1. CASE UNCHANGED vars
    BY <2>1 DEF vars, Promise!vars
  <2>2. CASE Idle
    BY <2>2 DEF Idle, Promise!Next, Promise!Nothing
  <2>3. ASSUME NEW t \in Tokens, Found(t) \/ Forgotten(t)
        PROVE  Promise!Next
    BY <2>3, HitRefined, ForgottenRefined DEF Promise!Next
  <2>4. ASSUME NEW t \in Tokens, NEW l \in Logins, Put(t, l)
        PROVE  Promise!Next
    BY <2>4, RenewRefined, AddRefined DEF Promise!Next
  <2>5. CASE Tick
    BY <2>5 DEF Tick, Promise!Next, Promise!Tick
  <2> QED
    BY <2>1, <2>2, <2>3, <2>4, <2>5, Methods
<1> QED
  BY <1>1, <1>2, InitInv, NextInv, PTL DEF Spec, ImplementsLru, Promise!Spec
=============================================================================
