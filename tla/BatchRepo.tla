----------------------------- MODULE BatchRepo -----------------------------
(***************************************************************************)
(* The batch status database (repository/keyvalue/batch_repo.go): from the *)
(* key of a batch to its Current.  Every operator maps the database before *)
(* the call to the database after it.                                      *)
(***************************************************************************)
EXTENDS BatchStatus, KeyValueDAO

\* The record of key k, as GetAllBatchStatuses returns it.
StoredBatch(db, k) == BatchOf(k, db[k])

\* Mutant of UpdateBatch: the value is written without Current.
UpdateBatchNoCurrent(db, b) == Put(db, BatchKey(b), NoBlock)

UpdateBatch(db, b) == Put(db, BatchKey(b), b.current)

\* FindByKeyPrefix by the encoded "from", of which it returns "rows" records.
FindByFrom(db, from, rows) ==
  IF rows = 0 THEN {} ELSE {k \in DOMAIN db : k.from = from}

\* ReplaceBatch: it asks FindByKeyPrefix for 0 rows, so it finds no batch.
ReplaceBatch(db, from, newTo) ==
  LET found == FindByFrom(db, from, 0)
      k == CHOOSE x \in found : \A y \in found : x.to <= y.to
  IN  IF found = {} THEN db
      ELSE UpdateBatch(BatchDelete(db, {k}), [StoredBatch(db, k) EXCEPT !.to = newTo])
=============================================================================
