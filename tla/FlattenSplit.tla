---------------------------- MODULE FlattenSplit ----------------------------
(***************************************************************************)
(* How one fill of a flatten order moves every partition of its symbol     *)
(* (engine/flatten_split.py).  Sizes are whole lots; a basis is a function *)
(* from owners to signed sizes; owners are ordered by Rank, which stands   *)
(* for the sort of their names.                                            *)
(***************************************************************************)
EXTENDS Integers, FiniteSets
LOCAL INSTANCE FiniteSetsExt

CONSTANTS Owners, Rank

Size(n) == IF n < 0 THEN -n ELSE n

Sign(n) == IF n < 0 THEN -1 ELSE 1

NetOf(basis) == FoldSet(LAMBDA o, sum : sum + basis[o], 0, DOMAIN basis)

\* Why an order of side and quantity may not be split: the basis has no net,
\* the order trades with it, or it trades more than it.
SplitRefused(basis, side, quantity) ==
    \/ NetOf(basis) = 0
    \/ side * NetOf(basis) > 0
    \/ quantity > Size(NetOf(basis))

\* The lots of one side of the basis: the side with the net, or against it.
Lots(basis, with) ==
    [o \in {p \in DOMAIN basis : (basis[p] > 0) = with} |-> Size(basis[o])]

\* What each has got is not put on the scale of its share.
LargestFirst(lots, got, handed) ==
    LET behind(o) == lots[o] * handed - got[o]
    IN CHOOSE o \in DOMAIN lots :
          \A p \in DOMAIN lots \ {o} :
              \/ behind(o) > behind(p)
              \/ behind(o) = behind(p) /\ Rank[o] < Rank[p]

\* The partition furthest behind its exact share; a tie goes to the first name.
FurthestBehind(lots, got, handed) ==
    LET behind(o) == lots[o] * handed - got[o] * NetOf(lots)
    IN CHOOSE o \in DOMAIN lots :
          \A p \in DOMAIN lots \ {o} :
              \/ behind(o) > behind(p)
              \/ behind(o) = behind(p) /\ Rank[o] < Rank[p]

\* The next lot, the one numbered handed, given out.
Given(lots, got, handed) ==
    [got EXCEPT ![FurthestBehind(lots, got, handed)] = @ + 1]

\* total lots, handed out one at a time.  (The set of one value makes TLC
\* compute the steps before this one once.)
HandOut(lots, total) ==
    LET after[n \in 0 .. total] ==
            IF n = 0 THEN [o \in DOMAIN lots |-> 0]
            ELSE CHOOSE g \in {Given(lots, got, n) : got \in {after[n - 1]}} : TRUE
    IN after[total]

\* The side with the net moves faster than the fill, for the other side moves
\* against it and both must be at zero when the order is full.
WithMoved(with, against, filled) == (with * filled) \div (with - against)

\* What each partition has moved toward zero once filled lots are filled.
TotalMoves(basis, filled) ==
    LET long == NetOf(basis) > 0
        with == Lots(basis, long)
        against == Lots(basis, ~long)
        moved == WithMoved(NetOf(with), NetOf(against), filled)
        withGot == HandOut(with, moved)
        againstGot == HandOut(against, moved - filled)
    IN [o \in DOMAIN basis |->
          LET got == IF o \in DOMAIN with THEN withGot[o] ELSE againstGot[o]
          IN IF basis[o] > 0 THEN -got ELSE got]

\* The basis without the partitions of zero size.
Held(basis) == [o \in {p \in DOMAIN basis : basis[p] # 0} |-> basis[o]]

\* What each owner has booked after every total an order of quantity can fill.
Totals(basis, quantity) ==
    [filled \in 0 .. quantity |->
        [o \in DOMAIN basis |->
            IF basis[o] = 0 THEN 0 ELSE TotalMoves(Held(basis), filled)[o]]]

\* A venue that reads flat leaves no order to send: what the strategies hold
\* goes to the unattributed partition.
Leftover(parts, unattributed) ==
    [o \in DOMAIN parts |->
        IF o = unattributed THEN NetOf(parts) ELSE 0]
=============================================================================
