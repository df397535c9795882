---------------------------- MODULE KeyValueDAO ----------------------------
(***************************************************************************)
(* The LevelDB access object of repository/keyvalue/dao.  A database is a  *)
(* function from the keys it holds to their values; every write below is   *)
(* one atomic LevelDB write, which is the unit a crash cannot split.       *)
(***************************************************************************)
EmptyDB == [k \in {} |-> k]

\* Put: a single record; an older value of the same key is overwritten.
Put(db, k, v) ==
  [x \in DOMAIN db \cup {k} |-> IF x = k THEN v ELSE db[x]]

\* BatchPut: all the records of kvs in one write.
BatchPut(db, kvs) ==
  [x \in DOMAIN db \cup DOMAIN kvs |-> IF x \in DOMAIN kvs THEN kvs[x] ELSE db[x]]

\* BatchDelete, DeleteByKey: deleting an absent key is not an error.
BatchDelete(db, keys) == [x \in DOMAIN db \ keys |-> db[x]]
=============================================================================
