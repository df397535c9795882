---------------------------- MODULE BatchStatus ----------------------------
(***************************************************************************)
(* A batch indexes the blocks from, from + step, from + 2 * step, ... up   *)
(* to "to" (core/types/batch_status.go).  Current is the last block the    *)
(* batch took; NoBlock stands for the nil *big.Int of a batch that never   *)
(* ran.  UpdatedAt is left out: it is only displayed.                      *)
(***************************************************************************)
EXTENDS Integers

NoBlock == -1

BatchKeys == [from : Nat, to : Nat, step : Nat \ {0}, createdAt : Nat]

Batches == [from : Nat, to : Nat, step : Nat \ {0}, createdAt : Nat,
            current : Nat \cup {NoBlock}]

\* The key of a batch in the batch database; Current is the value.
BatchKey(b) ==
  [from |-> b.from, to |-> b.to, step |-> b.step, createdAt |-> b.createdAt]

\* GetAllBatchStatuses' record of key k with value current.
BatchOf(k, current) ==
  [from |-> k.from, to |-> k.to, step |-> k.step, createdAt |-> k.createdAt,
   current |-> current]

\* Mutant of IsDone: >= in place of >, the last block is left out.
IsDoneOneEarly(b) == b.current # NoBlock /\ b.current + b.step >= b.to

IsDone(b) == b.current # NoBlock /\ b.current + b.step > b.to

NextBlock(b) == IF b.current = NoBlock THEN b.from ELSE b.current + b.step

\* Next(): it advances Current and returns it.
Advance(b) == [b EXCEPT !.current = NextBlock(b)]

\* GetInitBatches: numBatch interleaved batches from the genesis block on.
GetInitBatches(numBatch, genesisBlock, latestBlock, now) ==
  {[from |-> genesisBlock + i, to |-> latestBlock, step |-> numBatch,
    createdAt |-> now, current |-> NoBlock] : i \in 0 .. numBatch - 1}

-----------------------------------------------------------------------------
(* The vocabulary of the properties: which blocks a batch is about.         *)

\* The blocks b has taken so far.
Taken(b) == {n \in b.from .. b.current : \E k \in 0 .. n : n = b.from + k * b.step}

\* All the blocks b is to take.
Share(b) == {n \in b.from .. b.to : \E k \in 0 .. n : n = b.from + k * b.step}
=============================================================================
