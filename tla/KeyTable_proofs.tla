--------------------------- MODULE KeyTable_proofs ---------------------------
(***************************************************************************)
(* Lemmas about the operators of module KeyTable: what a write does to a   *)
(* table as KeyRegistry sees it, and to the names of its active rows.      *)
(***************************************************************************)
EXTENDS KeyTable, TLAPS

\* A table and its records have the same keys; a live record is an active row.
LEMMA Seen ==
  ASSUME NEW tb
  PROVE  /\ DOMAIN Records(tb) = DOMAIN tb
         /\ Records(tb) = [x \in DOMAIN Records(tb) |-> Records(tb)[x]]
         /\ \A x \in DOMAIN tb : /\ Records(tb)[x].name = tb[x].name
                                /\ Records(tb)[x].owner = tb[x].owner
                                /\ Records(tb)[x].active = IsActive(tb[x])
BY DEF Records, Record

\* The record of an active row.
LEMMA ActiveRecord ==
  ASSUME NEW row, row.revokedAt = Never
  PROVE  Record(row) = [name |-> row.name, owner |-> row.owner, active |-> TRUE]
BY DEF Record, IsActive

\* The record of a row that another row of its name and owner takes the place
\* of, revoked.
LEMMA RevokedRecord ==
  ASSUME NEW row, NEW old, row.name = old.name, row.owner = old.owner, row.revokedAt # Never
  PROVE  Record(row) = [Record(old) EXCEPT !.active = FALSE]
<1> DEFINE RecordType == [name : {old.name}, owner : {old.owner}, active : BOOLEAN]
<1>1. Record(row) \in RecordType /\ Record(old) \in RecordType
  BY DEF Record, IsActive
<1>2. Record(row).active = FALSE
  BY DEF Record, IsActive
<1>3. \A x, y \in RecordType : x.active = FALSE => x = [y EXCEPT !.active = FALSE]
  OBVIOUS
<1> QED
  BY <1>1, <1>2, <1>3

\* No two active rows have one name.
DistinctNames(tb) == \A x, y \in ActiveKeys(tb) : tb[x].name = tb[y].name => x = y

\* An Insert that succeeds keeps active names distinct: there is no active row
\* of the name, so that the key it writes, if it was there, was revoked or has
\* another name.
LEMMA InsertedDistinct ==
  ASSUME NEW tb, NEW k, NEW row, InsertResult(tb, row) = "created", DistinctNames(tb),
         [row EXCEPT !.revokedAt = Never] = row
  PROVE  DistinctNames(Inserted(tb, k, row))
<1> DEFINE new == Inserted(tb, k, row)
<1>1. \A x \in ActiveKeys(tb) : tb[x].name # row.name
  BY DEF InsertResult
<1>2. DOMAIN new = DOMAIN tb \cup {k} /\ \A x \in DOMAIN new : new[x] = IF x = k THEN row ELSE tb[x]
  BY DEF Inserted
<1> HIDE DEF new
<1>3. \A x \in ActiveKeys(new) : x = k \/ (x \in ActiveKeys(tb) /\ new[x] = tb[x])
  BY <1>2 DEF ActiveKeys
<1>4. \A x \in ActiveKeys(new) : x = k => new[x].name = row.name
  BY <1>2 DEF ActiveKeys
<1>5. DistinctNames(new)
  BY <1>1, <1>3, <1>4 DEF DistinctNames
<1> QED
  BY <1>5 DEF new

\* A revocation keeps active names distinct: the row is active no longer.
LEMMA RevokedDistinct ==
  ASSUME NEW tb, NEW k \in DOMAIN tb, NEW at, DistinctNames(tb),
         [tb[k] EXCEPT !.revokedAt = at].revokedAt # Never
  PROVE  DistinctNames(Revoked(tb, k, at))
<1> DEFINE new == Revoked(tb, k, at)
<1>1. DOMAIN new = DOMAIN tb
      /\ \A x \in DOMAIN tb : new[x] = IF x = k THEN [tb[k] EXCEPT !.revokedAt = at] ELSE tb[x]
  BY DEF Revoked
<1> HIDE DEF new
<1>2. \A x \in ActiveKeys(new) : x \in ActiveKeys(tb) /\ new[x] = tb[x]
  BY <1>1 DEF ActiveKeys, IsActive
<1>3. DistinctNames(new)
  BY <1>2 DEF DistinctNames
<1> QED
  BY <1>3 DEF new
=============================================================================
