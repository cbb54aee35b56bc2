------------------------------ MODULE KeyTable -------------------------------
(***************************************************************************)
(* The api_keys table and APIKeyRepo's methods as operators on it, each    *)
(* one serializable transaction of ydbstore (memstore, under its mutex,    *)
(* differs only in which of two conflicts Insert names: it reports the     *)
(* first row it meets).  A table is a function from key (hash) to row;     *)
(* owner NoOwner stands for created_by_telegram_id = 0 (or NULL).          *)
(***************************************************************************)
EXTENDS Integers, FiniteSets

CONSTANTS
  NoOwner,    \* creator 0: minted for no user
  Never       \* revoked_at NULL

ASSUME NeverAssumption == Never \notin Nat

IsActive(row) == row.revokedAt = Never

ActiveKeys(tb) == {k \in DOMAIN tb : IsActive(tb[k])}

\* A faulty InsertResult: the creator's other keys are not looked at.
InsertResultByName(tb, row) ==
  IF \E k \in ActiveKeys(tb) : tb[k].name = row.name THEN "name_in_use" ELSE "created"

\* What Insert answers: the name is looked at first, then the creator.
InsertResult(tb, row) ==
  IF \E k \in ActiveKeys(tb) : tb[k].name = row.name THEN "name_in_use"
  ELSE IF row.owner # NoOwner /\ \E k \in ActiveKeys(tb) : tb[k].owner = row.owner
       THEN "creator_has_key"
       ELSE "created"

\* A faulty Inserted: the new row takes the place of revoked ones of its name.
InsertedByName(tb, k, row) ==
  [x \in {y \in DOMAIN tb : tb[y].name # row.name} \cup {k} |-> IF x = k THEN row ELSE tb[x]]

\* The UPSERT of Insert, which writes revoked_at NULL whatever was there.
Inserted(tb, k, row) ==
  [x \in DOMAIN tb \cup {k} |-> IF x = k THEN [row EXCEPT !.revokedAt = Never] ELSE tb[x]]

\* The rows RevokeByName may pick: active, of that name, and the creator's
\* own unless the filter is NoOwner.  (ydbstore fetches one active row of the
\* name and then compares the creator; names are unique among active rows.)
Revocable(tb, name, by) ==
  {k \in ActiveKeys(tb) : tb[k].name = name /\ (by = NoOwner \/ tb[k].owner = by)}

Revoked(tb, k, at) == [tb EXCEPT ![k].revokedAt = at]

\* A faulty CreatedSince: revoked keys no longer count.
ActiveCreatedSince(tb, by, since) ==
  {k \in ActiveKeys(tb) : tb[k].owner = by /\ tb[k].createdAt >= since}

CreatedSince(tb, by, since) ==
  {k \in DOMAIN tb : tb[k].owner = by /\ tb[k].createdAt >= since}

CountByCreatorSince(tb, by, since) == Cardinality(CreatedSince(tb, by, since))

\* What KeyRegistry sees of a row and of a table.
Record(row) == [name |-> row.name, owner |-> row.owner, active |-> IsActive(row)]
Records(tb) == [k \in DOMAIN tb |-> Record(tb[k])]
=============================================================================
