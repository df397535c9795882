------------------------------ MODULE Queries ------------------------------
(***************************************************************************)
(* The queries of the http server (http/server.go), as the index           *)
(* repository and the LevelDB access answer them (index_repo.go,           *)
(* leveldb_dao.go), while blocks are stored, taken back by reorganisations *)
(* and cleaned away.  A client asks for one page after the other: nothing  *)
(* is kept for it between two pages, each one counts from the first row.   *)
(* A block is its number, which is also its time; its record is written    *)
(* one second later.  That the databases hold the blocks of the chain is   *)
(* the subject of IndexRepo: here a batch and the subscription get the     *)
(* same block of a number, and nothing crashes between two writes.         *)
(* Clients ask for whole accounts, or for the empty one.                   *)
(***************************************************************************)
EXTENDS Encoding

CONSTANTS
  Addresses,         \* the accounts, as byte strings
  Blocks,            \* the blocks that may be stored
  Shapes,            \* how many rows a block may have for each address
  NumMaxTransaction, \* rows counted beyond which a total is "+10000"
  DefaultRows,       \* rows of a page if the client does not say
  RowsParams,        \* what clients give as "rows": <<>> if it is not a number
  QueryTimes         \* what clients give as "from" and "to"; NoTime: nothing

NoTime == -1

ASSUME AddressesAssumption ==
  Addresses \subseteq [1 .. AddressLen -> 0 .. Base - 1] /\ IsFiniteSet(Addresses)
ASSUME ShapesAssumption    == Shapes \subseteq [Addresses -> 0 .. Base - 1]
\* "assuming fromTime and toTime is good": as wide as the time of a block.
ASSUME TimesAssumption     ==
  /\ Blocks \subseteq Nat /\ QueryTimes \subseteq Nat \cup {NoTime}
  /\ \A t \in (Blocks \cup QueryTimes) \ {NoTime} :
       Power(Base, TimeLen - 1) <= t /\ t + 1 < Power(Base, TimeLen)
\* A number of rows below zero is let through, and its pages are empty: no
\* client that goes from page to page asks for it.
ASSUME RowsAssumption      == \A p \in RowsParams : p = <<>> \/ p[1] \in Nat
ASSUME NumMaxAssumption    == NumMaxTransaction \in Nat \ {0} /\ DefaultRows \in Nat

VARIABLES
  addressDB, \* address database: key -> value; a transaction is named by its row
  blockDB,   \* block database: number of a block -> value
  client     \* a client: what it asks for, how far it is, what it still misses

vars == <<addressDB, blockDB, client>>

\* A request for the transactions of an account, or for the latest blocks.
\* The empty account is let through by getAccountParam, which returns a nil
\* error for it.  It lets any text of hex digits through, too: one that is
\* shorter than an account is a prefix of several, and is not asked for here.
Requests ==
  [what : {"account"}, account : Addresses \cup {<<>>}, from : QueryTimes, to : QueryTimes]
    \cup {[what |-> "blocks"]}

TypeOK ==
  /\ \A k \in DOMAIN addressDB : Len(k) = AddressLen + TimeLen + 1
  /\ \A k \in DOMAIN addressDB : addressDB[k].tx.address \in Addresses /\ addressDB[k].tx.time \in Blocks
  /\ DOMAIN blockDB \subseteq Blocks
  /\ client.pc \in {"idle", "paging", "done"}
  /\ client.pc = "paging" => client.request \in Requests /\ client.start \in Nat

NoClient == [pc |-> "idle", missing |-> {}]

Init == addressDB = [k \in {} |-> k] /\ blockDB = [n \in {} |-> n] /\ client = NoClient

-----------------------------------------------------------------------------
(* LevelDB access.  A walk is the sequence of keys an iterator goes along. *)

\* Mutant of Visited: the loop ends one row too early.
VisitedToMax(walk, asc) ==
  LET first == IF asc \/ walk = <<>> THEN 0 ELSE 1
      Ends(turns) == \/ first + turns = Len(walk)
                     \/ turns > 0 /\ first + turns >= NumMaxTransaction
  IN  first + CHOOSE turns \in 0 .. Len(walk) :
                Ends(turns) /\ \A t \in 0 .. turns - 1 : ~Ends(t)

\* How many rows are looked at.  Backwards the first one is taken before the
\* loop; each turn takes one more, and the loop ends with the walk, or after a
\* turn that counts more than NumMaxTransaction.
Visited(walk, asc) ==
  LET first == IF asc \/ walk = <<>> THEN 0 ELSE 1
      Ends(turns) == \/ first + turns = Len(walk)
                     \/ turns > 0 /\ first + turns > NumMaxTransaction
  IN  first + CHOOSE turns \in 0 .. Len(walk) :
                Ends(turns) /\ \A t \in 0 .. turns - 1 : ~Ends(t)

\* Mutant of FindByKeyPrefix: the row at start itself is left out.
FindByKeyPrefixAfter(walk, asc, rows, start) ==
  LET total == Visited(walk, asc)
      first == (IF start < 0 THEN 0 ELSE start) + 1
      last  == IF first + rows < total THEN first + rows ELSE total
  IN  [total |-> total, page |-> SubSeq(walk, first + 1, last)]

\* findByKeyPrefix: at most "rows" of them, from the one at start on.
FindByKeyPrefix(walk, asc, rows, start) ==
  LET total == Visited(walk, asc)
      first == IF start < 0 THEN 0 ELSE start
      last  == IF first + rows < total THEN first + rows ELSE total
  IN  [total |-> total, page |-> SubSeq(walk, first + 1, last)]

\* A batch of writes: the database with the entries of new in it.
Put(db, new) ==
  [k \in DOMAIN new \cup DOMAIN db |-> IF k \in DOMAIN new THEN new[k] ELSE db[k]]

\* NewIterator over a range, forwards (Next) or backwards (Last, Prev).
Walk(rg, asc) ==
  LET found == InOrder({k \in DOMAIN addressDB : InRange(k, rg)}, Before)
  IN  IF asc THEN found ELSE Reverse(found)

-----------------------------------------------------------------------------
(* The index repository.                                                   *)

HasTimes(q) == q.from # NoTime \/ q.to # NoTime

\* Mutant of KeyRange: toTime is not made inclusive.
KeyRangeToExclusive(q) ==
  LET all == BytesPrefix(q.account) IN
  IF ~HasTimes(q) THEN all
  ELSE [start |-> IF q.from = NoTime THEN all.start
                  ELSE MarshallAddressKeyPrefix3(q.account, q.from),
        limit |-> IF q.to = NoTime THEN all.limit
                  ELSE MarshallAddressKeyPrefix3(q.account, q.to)]

\* The keys of an account, between two times if one of them is given.
KeyRange(q) ==
  LET all == BytesPrefix(q.account) IN
  IF ~HasTimes(q) THEN all
  ELSE [start |-> IF q.from = NoTime THEN all.start
                  ELSE MarshallAddressKeyPrefix3(q.account, q.from),
        limit |-> IF q.to = NoTime THEN all.limit
                  ELSE MarshallAddressKeyPrefix3(q.account, q.to + 1)]

\* Mutant of TotalRange: toTime is inclusive in KeyRange only.
TotalRangeToExclusive(q) == KeyRangeToExclusive(q)

\* The same once more, in GetTotalTransaction.
TotalRange(q) ==
  LET all == BytesPrefix(q.account) IN
  IF ~HasTimes(q) THEN all
  ELSE [start |-> IF q.from = NoTime THEN all.start
                  ELSE MarshallAddressKeyPrefix3(q.account, q.from),
        limit |-> IF q.to = NoTime THEN all.limit
                  ELSE MarshallAddressKeyPrefix3(q.account, q.to + 1)]

BadAddress(q) == q.account = <<>> /\ ~HasTimes(q)

\* GetTotalTransaction: all rows are counted.
GetTotalTransaction(q) ==
  IF BadAddress(q) THEN 0
  ELSE Cardinality({k \in DOMAIN addressDB : InRange(k, TotalRange(q))})

\* keyValueToAddressIndex.
AddressIndexOf(key) ==
  LET k == UnmarshallAddressKey(key)
      v == UnmarshallAddressValue(addressDB[key])
  IN  [address |-> k.address, time |-> k.time, tx |-> v.tx, value |-> v.value]

\* GetTransactionByAddress: the oldest first if a time is given, else the newest.
GetTransactionByAddress(q, rows, start) ==
  LET asc   == HasTimes(q)
      found == FindByKeyPrefix(Walk(KeyRange(q), asc), asc, rows, start)
  IN  IF BadAddress(q) THEN [total |-> 0, page |-> <<>>]
      ELSE [found EXCEPT !.page = [i \in DOMAIN @ |-> AddressIndexOf(@[i])]]

\* GetBlocks without a block number: the last records in the order of keys.
GetBlocks(rows, start) ==
  FindByKeyPrefix(Reverse(InOrder(DOMAIN blockDB, KeyBefore)), FALSE, rows, start)

-----------------------------------------------------------------------------
(* The http server.                                                        *)

\* getPagingQueryParams: Atoi, or the default.
Atoi(param, default) == IF param = <<>> THEN default ELSE param[1]

\* getTransactionsByAccount and getBlock.
Reply(q, rowsParam, start) ==
  LET rows == Atoi(rowsParam, DefaultRows) IN
  IF q.what = "account" THEN GetTransactionByAddress(q, rows, start) ELSE GetBlocks(rows, start)

-----------------------------------------------------------------------------
(* The databases.                                                          *)

\* CreateIndexData: as many rows for an address as it has transactions.
RowsOf(n, shape) ==
  UNION {{[address |-> a, time |-> n, seq |-> s] : s \in 1 .. shape[a]} : a \in Addresses}

\* What a row moves: here the first one of an address is sent, the next received.
Value(row) == IF row.seq = 1 THEN -row.time ELSE row.time

KeyOf(row) == MarshallAddressKey(row.address, row.time, row.seq)

KeysAt(n) == {k \in DOMAIN addressDB : addressDB[k].tx.time = n}

\* The record CreateIndexData makes for the block whose rows are stored.
BlockIndexOf(n) ==
  LET count(a) == Cardinality({k \in KeysAt(n) : addressDB[k].tx.address = a})
      named    == {[address |-> a, sequence |-> count(a)] : a \in {b \in Addresses : count(b) > 0}}
  IN  [time |-> n, createdAt |-> n + 1, addresses |-> SetToSeq(named)]

\* Store is between its two writes of a block it has a record of.
StoreUnderWay ==
  \E n \in DOMAIN blockDB : blockDB[n] # MarshallBlockValue(BlockIndexOf(n))

\* The rows after one that is gone move up, and a client may miss some.
RowsGo == client' = [client EXCEPT !.missing = {}]

\* SaveAddressIndex of a block, by a batch or after HandleReorg: one write.
SaveAddressIndex(n) ==
  /\ KeysAt(n) = {}
  /\ \E shape \in Shapes :
       LET rows == RowsOf(n, shape)
           new  == [k \in {KeyOf(r) : r \in rows} |->
                      LET r == CHOOSE r \in rows : KeyOf(r) = k
                      IN  MarshallAddressValue(r, Value(r))]
       IN  addressDB' = Put(addressDB, new)
  /\ UNCHANGED <<blockDB, client>>

\* SaveBlockIndex: the second write for a block received from newHead.
SaveBlockIndex(n) ==
  /\ KeysAt(n) # {}
  /\ blockDB' = Put(blockDB, [m \in {n} |-> MarshallBlockValue(BlockIndexOf(n))])
  /\ UNCHANGED <<addressDB, client>>

\* The keys HandleReorg deletes, as the record of the block names them.
ReorgKeys(n) ==
  LET index == UnmarshallBlockValue(blockDB[n])
  IN  UNION {{MarshallAddressKey(a.address, index.time, s) : s \in 1 .. a.sequence} :
             a \in Range(index.addresses)}

\* HandleReorg: the rows of the block that is replaced go.
HandleReorg(n) ==
  /\ n \in DOMAIN blockDB /\ ~StoreUnderWay
  /\ addressDB' = Restrict(addressDB, DOMAIN addressDB \ ReorgKeys(n))
  /\ RowsGo
  /\ UNCHANGED blockDB

\* DeleteOldBlocks: in the order of keys, up to the first one that is not old.
DeleteOldBlocks ==
  /\ \E untilTime \in {n + 2 : n \in DOMAIN blockDB} :
       LET old(n) == UnmarshallBlockValue(blockDB[n]).createdAt < untilTime
           gone   == {n \in DOMAIN blockDB :
                        \A m \in DOMAIN blockDB : (m = n \/ KeyBefore(m, n)) => old(m)}
       IN  blockDB' = Restrict(blockDB, DOMAIN blockDB \ gone)
  /\ RowsGo
  /\ UNCHANGED addressDB

-----------------------------------------------------------------------------
(* The client.                                                             *)

\* The rows a request is about, as they are stored: the meaning of a query.
Matching(q) ==
  IF q.what = "blocks" THEN DOMAIN blockDB
  ELSE {r \in {addressDB[k].tx : k \in DOMAIN addressDB} :
          /\ r.address = q.account
          /\ q.from = NoTime \/ q.from <= r.time
          /\ q.to = NoTime \/ r.time <= q.to}

\* It begins; what is stored now is what it should get.
Ask ==
  /\ client.pc = "idle"
  /\ \E q \in Requests, rows \in RowsParams :
       client' = [pc |-> "paging", request |-> q, rows |-> rows, start |-> 0,
                  missing |-> Matching(q)]
  /\ UNCHANGED <<addressDB, blockDB>>

\* What of a reply the client takes down.
Items(q, page) ==
  IF q.what = "blocks" THEN Range(page) ELSE {page[i].tx : i \in DOMAIN page}

\* The next page; one that is not full is the last one.  A total above
\* NumMaxTransaction tells the client that it cannot get all.
NextPage ==
  /\ client.pc = "paging"
  /\ LET rows    == Atoi(client.rows, DefaultRows)
         reply   == Reply(client.request, client.rows, client.start)
         missing == IF reply.total > NumMaxTransaction THEN {}
                    ELSE client.missing \ Items(client.request, reply.page)
     IN  client' = IF Len(reply.page) < rows THEN [pc |-> "done", missing |-> missing]
                   ELSE [client EXCEPT !.start = @ + rows, !.missing = missing]
  /\ UNCHANGED <<addressDB, blockDB>>

\* It has what it wanted, and may ask for something else.
Leave ==
  /\ client.pc = "done"
  /\ client' = NoClient
  /\ UNCHANGED <<addressDB, blockDB>>

Next ==
  \/ \E n \in Blocks : SaveAddressIndex(n) \/ SaveBlockIndex(n) \/ HandleReorg(n)
  \/ DeleteOldBlocks
  \/ Ask \/ NextPage \/ Leave

Spec == Init /\ [][Next]_vars

-----------------------------------------------------------------------------
(* Properties.                                                             *)

ForAccount == client.pc = "paging" /\ client.request.what = "account"
              /\ client.request.account \in Addresses

\* a comes before b in the answer to q.
Precedes(q, a, b) ==
  LET older == a.time < b.time \/ (a.time = b.time /\ a.seq < b.seq)
  IN  IF HasTimes(q) THEN older ELSE a # b /\ ~older

\* A page has exactly the transactions between from and to, both included, in
\* the order of their times, that come "start" or more after the first one, and
\* shows each with its own address, time and amount: the byte order of the keys
\* that GetTransactionByAddress walks is that of the rows they stand for.
PageCorrect ==
  ForAccount =>
    LET q     == client.request
        reply == Reply(q, client.rows, client.start)
        place(tx) == Cardinality({r \in Matching(q) : Precedes(q, r, tx)})
        last  == client.start + Atoi(client.rows, DefaultRows) - 1
    IN  /\ {reply.page[i].tx : i \in DOMAIN reply.page} =
             {tx \in Matching(q) : /\ place(tx) \in client.start .. last
                                   /\ place(tx) <= NumMaxTransaction}
        /\ \A i \in DOMAIN reply.page :
             LET row == reply.page[i] IN
             /\ row.address = row.tx.address /\ row.time = row.tx.time
             /\ row.value \in {Value(row.tx), -Value(row.tx)}
             /\ place(row.tx) = client.start + i - 1

\* The two totals a client can ask for agree: getTransactionsByAccount stops
\* counting and says "+10000" exactly if getTotalByAccount counts more.
TotalsAgree ==
  ForAccount =>
    LET shown == Reply(client.request, client.rows, client.start).total
        all   == GetTotalTransaction(client.request)
    IN  /\ shown > NumMaxTransaction <=> all > NumMaxTransaction
        /\ all <= NumMaxTransaction => shown = all

\* A client that asks for page after page until one is not full has got every
\* row that was there when it began, also if blocks were stored in between:
\* unless rows were taken away meanwhile, or there are more than are counted.
PagesComplete == client.pc = "done" => client.missing = {}

\* The record of a block, which UnmarshallBlockValue cuts into its fields again,
\* names exactly the rows of that block: HandleReorg deletes all of them and
\* none of another block or another account.
ReorgByRecord ==
  [][\A n \in Blocks : HandleReorg(n) => DOMAIN addressDB' = DOMAIN addressDB \ KeysAt(n)]_vars

-----------------------------------------------------------------------------
(* What types/index.go says and the code does not do.                      *)

\* "Value can be negative or positive": Bytes() drops the sign of a value, and a
\* row of the sender is shown as one of the receiver.
ValueSigned ==
  \A k \in DOMAIN addressDB : AddressIndexOf(k).value = Value(AddressIndexOf(k).tx)
=============================================================================
