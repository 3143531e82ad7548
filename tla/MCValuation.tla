------------------------------ MODULE MCValuation ------------------------------
(***************************************************************************)
(* A small account for TLC: an isolated symbol and a cross one, on paper;  *)
(* and an isolated one at a live venue.                                    *)
(***************************************************************************)
EXTENDS ValuationProperties

CONSTANTS Ring, Pool, Alice, Bob, Nobody

RankOf == (Nobody :> 1) @@ (Alice :> 2) @@ (Bob :> 3)

LeverageOf == (Ring :> 3) @@ (Pool :> 2)

Scene(paper, symbols, sizes, prices) ==
    [paper |-> paper, symbols |-> symbols, sizes |-> sizes, prices |-> prices]

Paper == {Scene(TRUE, {s}, {-2, -1, 1, 2}, {60, 120}) : s \in {Ring, Pool}}
         \cup {Scene(TRUE, {Ring, Pool}, {-1, 2}, {60, 120})}

Live == {Scene(FALSE, {Ring}, {-2, 1, 2}, {60})}

AllScenes == Paper \cup Live

LockOf == [n \in 0 .. 6 |-> IF n = 0 THEN 0 ELSE 5 * n + 2]

BucketAmounts == {10}

PaymentAmounts == {-7}
================================================================================
