---------------------------- MODULE MCIndexRepo ----------------------------
(***************************************************************************)
(* Values of IndexRepo's constants for model checking.                     *)
(***************************************************************************)
EXTENDS IndexRepo, TLC

CONSTANTS a1, a2

TwoAddresses == {a1, a2}
OneAddress   == {a1}

\* A block with one row for one account and two for the other.
MixedRows == {(a1 :> 1 @@ a2 :> 2)}

\* Blocks whose rows all have the same address.
OneRow == {(a1 :> 1)}

\* More rows of one address in a block than a sequence can count.
ThreeRows == {(a1 :> 3)}
=============================================================================
