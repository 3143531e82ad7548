-------------------------- MODULE ValuationProperties --------------------------
(***************************************************************************)
(* What a reader of the account may rely on.                               *)
(***************************************************************************)
EXTENDS Valuation

Sum(Field(_)) == MapThenSumSet(LAMBDA s : MapThenSumSet(LAMBDA o :
                    Field(book.part[o][s]), Owners), Symbols)

\* No money appears or is lost in the averaging.  The cash is the opening balance
\* with every partition's realized PnL, fees and funding; and whenever an equity is
\* reported, it is what the trades, fees and payments left with everything that is
\* held sold at the marks, whatever was opened, added to, reduced and flipped
\* before (Position._book, ADR-0042's closed set of inputs, ADR-0041's per-term
\* unknowns).
BooksBalance ==
    /\ book.cash = Genesis + trail.nobody
                   + Sum(LAMBDA p : p.realized - p.fees + p.funding)
    /\ Equity(book, marks) # None =>
          /\ \A s \in Symbols : Held(book, s) # {} => marks[s] # None
          /\ Equity(book, marks) =
                Genesis + trail.paid
                + MapThenSumSet(LAMBDA s : IF Net(book, s) = 0 THEN 0
                                           ELSE Net(book, s) * marks[s], Symbols)

\* A live bucket is unknown from the moment a fill moves the position until an
\* account read has shown the venue holding it so, and what is then reported is
\* the venue's number to the last unit, however many partitions share it, through
\* reads that are older than the fill (_ingest_collateral, #516, #518, #522).  It
\* leaves out a symbol that one partition closed while another held on (README).
BucketIsTheVenues ==
    ~scene.paper =>
        \A s \in Isolated \ trail.parted :
            Held(book, s) # {} =>
                /\ s \in trail.unseen => Bucket(book, s) = None
                /\ Bucket(book, s) \in {None, trail.posted[s]}

\* The position s revalued at the fraction p, in units of 1 / (p.den * MaintDen),
\* with every other mark as it is: what backs it, less what it must keep.
Others(s) == Symbols \ {s}

SpareAt(s, p) ==
    LET gain == MapThenSumSet(LAMBDA o : book.part[o][s].size
                                * (p.num - book.part[o][s].entry * p.den), Owners)
        own == Abs(Net(book, s)) * p.num * MaintNum
        pool == book.cash + Total(LAMBDA t : UnrealizedPnl(book, marks, t), Others(s))
        rest == Total(LAMBDA t : MaintenanceMargin(book, marks, t), Others(s))
    IN  IF s \in Isolated
        THEN (Bucket(book, s) * p.den + gain) * MaintDen - own
        ELSE (pool * p.den + gain - rest * p.den) * MaintDen - own

\* What a reader sees as a risk is one.  At a reported liquidation price, and
\* nowhere before it, the position's backing is exactly what it must keep, so the
\* level does not depend on the mark it was read at; where none is reported for a
\* held position, no price above zero is that border: a long never reaches it, and
\* a short is past it at every price.  And an isolated bucket is ring-fenced: its
\* symbol's mark never moves the account's free margin (ADR-0040).
LevelsAreTrue ==
    scene.paper =>
        /\ \A s \in Symbols : Solvable(book, marks, s) =>
              /\ LiquidationPrice(book, marks, s) # None =>
                    SpareAt(s, LiquidationPrice(book, marks, s)) = 0
              /\ LiquidationPrice(book, marks, s) = None =>
                    Sign(Net(book, s)) * SpareAt(s, [num |-> 0, den |-> 1]) >= 0
        /\ \A s \in Isolated, px \in scene.prices :
              marks[s] # None =>
                  FreeMargin(book, [marks EXCEPT ![s] = px]) = FreeMargin(book, marks)
================================================================================
