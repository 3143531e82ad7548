--------------------------- MODULE LedgerProperties ---------------------------
(***************************************************************************)
(* What Ledger must guarantee.                                             *)
(***************************************************************************)
EXTENDS Ledger

\* However often a fill is reported and a payment delivered, in this life or
\* the next, the ledger folds it at most once, and never one that the opening
\* balance contains (Position.apply and the order row's applied ids; the mark
\* and the genesis gate of apply_funding).
BookedOnce ==
    /\ \A f \in Facts : books[f] <= 1
    /\ \A p \in Payments : books[p] = 1 => when[p] > row.genesis

\* A mark never covers a payment that was not booked: what a mark lets the
\* ledger drop is what it has folded (accruals sorts a batch, checkpoint_funding
\* moves the mark with the money).
MarksCoverBooked ==
    \A p \in Payments :
        when[p] > row.genesis /\ when[p] <= row.mark[SymbolOf[p]]
            => books[p] = 1

\* The facts of a figure: a size moves with its symbol's trades, the cash line
\* with every fact.
Concerns(figure) ==
    IF figure = Cash THEN Fills \cup Payments
    ELSE {f \in Fills : SymbolOf[f] = figure}

\* A pass corrects a figure while a fact that moves it is out of step only if
\* the pass before had met that same fact out of step: a fact that is merely
\* on its way is not counted twice (#574).
HealsWaitForFacts ==
    [][Judge =>
        \A f \in SizeHeals(pass.snap, row) \cup CashHeals(pass.snap, row) :
            OutOfStep \cap Concerns(f.figure) \subseteq lagging]_vars

\* A correction lands on the snapshot: a size no fill has touched since, on
\* its size; the cash line on its net cash, whatever the size heals beside it
\* realized and whatever was folded while the mode was read.
LandsOnSizes(sizes) ==
    \A f \in sizes :
        f.figure \notin touched =>
            Size(row', f.figure) = pass.snap.pos[f.figure].size
HealsReachTheVenue ==
    [][/\ Judge /\ pass' = Idle => LandsOnSizes(SizeHeals(pass.snap, row))
       /\ ModeAnswers(FALSE) => LandsOnSizes(pass.sizes)
       /\ ModeAnswers(TRUE) =>
            /\ LandsOnSizes(pass.sizes)
            /\ row'.cash - AllBasis(row') = VenueNetCash(pass.snap)]_vars

\* Once the venue's account comes to rest, the ledger agrees with it, except
\* on a size the venue carries no position for, and on the cash line while
\* there is such a size.
SizesAgree == \A s \in Symbols : Size(row, s) = venue.pos[s].size
LedgerConverges ==
    <>[](/\ \A s \in Symbols :
              Size(row, s) = venue.pos[s].size \/ venue.pos[s].size = 0
         /\ SizesAgree => 
            row.cash - AllBasis(row) = VenueNetCash(venue))

===============================================================================
