---------------------------- MODULE AccountIndex ----------------------------
(***************************************************************************)
(* What the indexer promises of its databases, whatever crashes, fails or  *)
(* is switched: blocks of the chain are indexed one at a time and stay so, *)
(* and only an indexed block is ever claimed to be: by the progress of a   *)
(* batch, which a restart does not look behind, or by a block record, from *)
(* which it catches up.  A claim may be taken back.  Indexer implements it.*)
(***************************************************************************)
EXTENDS Naturals

VARIABLES
  head,     \* the blocks 0 .. head exist
  indexed,  \* the blocks whose transactions a client can find
  claimed   \* the blocks that no restart takes again

Init == head \in Nat /\ indexed = {} /\ claimed = {}

Extend == head' = head + 1 /\ UNCHANGED <<indexed, claimed>>

Index ==
  /\ \E n \in 0 .. head : indexed' = indexed \cup {n}
  /\ UNCHANGED <<head, claimed>>

Claim == claimed' \subseteq indexed /\ UNCHANGED <<head, indexed>>

Next == Extend \/ Index \/ Claim

Spec == Init /\ [][Next]_<<head, indexed, claimed>>
=============================================================================
