----------------------------- MODULE MCQueries -----------------------------
(***************************************************************************)
(* Values of Queries' constants for model checking: bytes have four values *)
(* and times two bytes.                                                    *)
(***************************************************************************)
EXTENDS Queries

\* The second one ends with the largest byte.
TwoAddresses == {<<0, 1>>, <<0, 3>>}

\* The times 21, 23 and 30 in base 4, and blocks that are not in the order of
\* their decimal text.
SomeBlocks == {9, 11, 12}

\* One row for one account, or two for it and one for the other.
SomeShapes == {[a \in TwoAddresses |-> IF a = <<0, 1>> THEN 1 ELSE 0],
               [a \in TwoAddresses |-> IF a = <<0, 1>> THEN 2 ELSE 1]}

SomeRows == {<<>>, <<1>>, <<2>>}

SomeTimes == {NoTime, 9, 11}
=============================================================================
