-------------------------------- MODULE Ledger --------------------------------
(***************************************************************************)
(* The accounting ledger of a live engine: the account row and the         *)
(* positions behind it, the fills and the funding payments that move them, *)
(* the account reconcile that compares them with the venue's own account   *)
(* and heals what it finds twice, crashes and restarts.                    *)
(*                                                                         *)
(* A fact is a trade, a funding payment or a transfer.  The venue books it *)
(* at once, into the account its next answer reports; the engine hears of  *)
(* its own fills and of funding payments later, of foreign facts never.    *)
(*                                                                         *)
(* A fold and the write behind it are one step, because the code has no    *)
(* await between them: outside that step the projection and the rows are   *)
(* equal, so one variable stands for both.  A write the store refuses      *)
(* faults the run, which is a crash before the step.                       *)
(*                                                                         *)
(* An operator that stands before the one it is named after is a plausible *)
(* bug in it, for the sensitivity runs; no specification uses it.          *)
(***************************************************************************)
EXTENDS Integers, Sequences, FiniteSets, FiniteSetsExt

CONSTANTS
    Symbols,        \* the instruments
    Owners,         \* the partitions of a position: strategies, and
    Unattributed,   \* the reserved one that heals book into
    Fills,          \* trades of the engine's own orders
    Foreign,        \* trades and transfers that no order of the engine made
    Payments,       \* funding payments
    SymbolOf,       \* the instrument of each fact
    OwnerOf,        \* the strategy behind each fill
    Qty, Price,     \* signed quantity and price of each trade
    Money,          \* what a fact adds to the cash line besides realized PnL:
                    \* minus a trade's fee, a payment, a transfer
    MaxBreaks       \* bound on crashes and lost connections together

Facts == Fills \cup Foreign \cup Payments

ASSUME LedgerAssumption ==
    /\ IsFiniteSet(Facts)
    /\ Unattributed \in Owners
    /\ Fills \cap Foreign = {} /\ Fills \cap Payments = {}
    /\ Foreign \cap Payments = {}
    /\ SymbolOf \in [Facts -> Symbols]
    /\ OwnerOf \in [Fills -> Owners]
    /\ Qty \in [Fills \cup Foreign -> Int]
    /\ Price \in [Fills \cup Foreign -> Nat]
    /\ Money \in [Facts -> Int]
    /\ MaxBreaks \in Nat

VARIABLES
    when,       \* the instant the venue booked each fact, 0 before it has
    venue,      \* the account the venue reports: sizes, cost bases, cash
    row,        \* the ledger: account row, positions, marks, applied fills
    up,         \* whether the engine runs
    linked,     \* whether the funding socket is subscribed
    inbox,      \* batches of payments delivered and not yet applied, in order
    touched,    \* symbols a fill moved since the pass in flight started
    previous,   \* the findings the last pass remembers
    pass,       \* the account read in flight and what is decided on it
    breaks,     \* crashes and lost connections so far
    books,      \* history: how often the ledger has folded each fact
    lagging     \* history: the facts the last pass compared out of step

ledgerVars == <<row, books>>
passVars == <<touched, previous, pass, lagging>>
linkVars == <<linked, inbox>>
vars == <<when, venue, row, up, linked, inbox, touched, previous, pass,
          breaks, books, lagging>>

Now == Cardinality({f \in Facts : when[f] > 0})

-----------------------------------------------------------------------------
(* Average-cost accounting                                                 *)

Abs(n) == IF n < 0 THEN -n ELSE n
Sign(n) == IF n < 0 THEN -1 ELSE 1

Flat == [size |-> 0, basis |-> 0]

\* The part of a position that a trade of q on the opposite side closes.
Closes(pos, q) == IF pos.size * q < 0 THEN Min({Abs(pos.size), Abs(q)}) ELSE 0

\* The cost basis of that part.
Releases(pos, q) ==
    IF Closes(pos, q) = 0 THEN 0
    ELSE Sign(pos.size) * ((Abs(pos.basis) * Closes(pos, q)) \div Abs(pos.size))

Realizes(pos, q, px) == Sign(pos.size) * Closes(pos, q) * px - Releases(pos, q)

\* Opens, adds, reduces, closes and flips: what does not close opens at px.
Book(pos, q, px) ==
    [size |-> pos.size + q,
     basis |-> pos.basis - Releases(pos, q)
               + (q + Sign(pos.size) * Closes(pos, q)) * px]

Total(Value(_), S) == MapThenSumSet(Value, S)

-----------------------------------------------------------------------------
(* The venue's account, and a snapshot of it                               *)

VenueAfter(v, f) ==
    IF f \in Payments
    THEN [v EXCEPT !.cash = @ + Money[f]]
    ELSE LET s == SymbolOf[f]
         IN [v EXCEPT !.pos[s] = Book(@, Qty[f], Price[f]),
                      !.cash = @ + Realizes(v.pos[s], Qty[f], Price[f])
                                 + Money[f]]

VenueNetCash(v) == v.cash - Total(LAMBDA s : v.pos[s].basis, Symbols)

\* A venue reports an entry price only for a position it carries.
Priced(v, s) == v.pos[s].size # 0
EntryPrice(v, s) == Abs(v.pos[s].basis) \div Abs(v.pos[s].size)

-----------------------------------------------------------------------------
(* The ledger and its folds                                                *)

Size(r, s) == Total(LAMBDA o : r.pos[o][s].size, Owners)
Basis(r, s) == Total(LAMBDA o : r.pos[o][s].basis, Owners)
AllBasis(r) == Total(LAMBDA s : Basis(r, s), Symbols)

\* One trade of a partition: the position, and the PnL it realizes.
FoldTrade(r, o, s, q, px) ==
    [r EXCEPT !.pos[o][s] = Book(@, q, px),
              !.cash = @ + Realizes(r.pos[o][s], q, px)]

RepeatsFill(r, f) == f \in r.applied

\* The order row is left out of the transaction.
OrderLeftOut(r, f) ==
    [FoldTrade(r, OwnerOf[f], SymbolOf[f], Qty[f], Price[f])
        EXCEPT !.cash = @ + Money[f]]

FoldFill(r, f) ==
    [FoldTrade(r, OwnerOf[f], SymbolOf[f], Qty[f], Price[f])
        EXCEPT !.cash = @ + Money[f], !.applied = @ \cup {f}]

\* The two gates of apply_funding: what the genesis already contains, and
\* what the symbol's mark says has been applied.
RepeatsPayment(r, p) ==
    \/ when[p] <= r.genesis
    \/ when[p] <= r.mark[SymbolOf[p]]

FoldPayment(r, p) ==
    [r EXCEPT !.cash = @ + Money[p], !.mark[SymbolOf[p]] = when[p]]

Known(r, f) ==
    \/ f \in Fills /\ RepeatsFill(r, f)
    \/ f \in Payments /\ RepeatsPayment(r, f)

-----------------------------------------------------------------------------
(* Classification: what one snapshot and one reading disagree on           *)

\* A finding is a figure and its gap; the account's own figure has no symbol.
Cash == "net_cash"
Finding(figure, gap) == [figure |-> figure, gap |-> gap]

SizeFindings(v, r) ==
    {Finding(s, v.pos[s].size - Size(r, s)) :
        s \in {t \in Symbols : v.pos[t].size # Size(r, t)}}

Figures(F) == {f.figure : f \in F}

\* Net cash against net cash.  A symbol whose size disagrees counts with the
\* venue's cost basis on both sides.
LedgerNetCash(v, r) ==
    r.cash - Total(LAMBDA s : IF s \in Figures(SizeFindings(v, r))
                              THEN v.pos[s].basis ELSE Basis(r, s), Symbols)

CashFindings(v, r) ==
    {c \in {Finding(Cash, VenueNetCash(v) - LedgerNetCash(v, r))} : c.gap # 0}

Findings(v, r) == SizeFindings(v, r) \cup CashFindings(v, r)

\* A size heals on its first sighting.
HealsAtOnce(v, r) ==
    {f \in SizeFindings(v, r) : f.figure \notin touched /\ Priced(v, f.figure)}

\* A size heals when no fill touched it during the read, the last pass found
\* the same gap, and the venue posts a price to book the gap at.
SizeHeals(v, r) ==
    {f \in SizeFindings(v, r) :
        /\ f.figure \notin touched
        /\ f \in previous
        /\ Priced(v, f.figure)}

\* The cash line heals when no fill touched anything, the last pass found the
\* same gap, and every size that disagrees heals beside it.
CashHeals(v, r) ==
    {c \in CashFindings(v, r) :
        /\ touched = {}
        /\ c \in previous
        /\ SizeHeals(v, r) = SizeFindings(v, r)}

\* What the next pass must not count as seen: a gap measured across a fill,
\* and a gap this pass closes.
Forgotten(v, r) ==
    {f \in SizeFindings(v, r) : f.figure \in touched}
    \cup SizeHeals(v, r) \cup CashHeals(v, r)
    \cup {c \in CashFindings(v, r) : touched # {}}

\* The pass remembers what it healed and forgets what it held back.
SeenHealed(v, r) == SizeHeals(v, r) \cup CashHeals(v, r)

Seen(v, r) == Findings(v, r) \ Forgotten(v, r)

-----------------------------------------------------------------------------
(* Healing: one transaction for the sizes and the cash line                *)

GapOf(heals, s) == IF s \in Figures(heals)
                   THEN (CHOOSE f \in heals : f.figure = s).gap ELSE 0

\* Each gap is booked into the unattributed partition at the venue's price.
FoldSizes(r, v, heals) ==
    [r EXCEPT
        !.pos[Unattributed] =
            [s \in Symbols |-> IF s \in Figures(heals)
                               THEN Book(@[s], GapOf(heals, s), EntryPrice(v, s))
                               ELSE @[s]],
        !.cash = @ + Total(LAMBDA s : Realizes(r.pos[Unattributed][s],
                                               GapOf(heals, s),
                                               EntryPrice(v, s)),
                           Figures(heals))]

\* The cash line is set, not moved: to the venue's net cash and the cost basis
\* the ledger holds after the sizes.
CorrectCash(r, v) == [r EXCEPT !.cash = VenueNetCash(v) + AllBasis(r)]

\* The cash line is corrected before the sizes.
CashFirst(r, v, sizes, cash) ==
    FoldSizes(IF cash = {} THEN r ELSE CorrectCash(r, v), v, sizes)

Heal(r, v, sizes, cash) ==
    LET sized == FoldSizes(r, v, sizes)
    IN IF cash = {} THEN sized ELSE CorrectCash(sized, v)

-----------------------------------------------------------------------------
(* The steps                                                               *)

NoVenue == [pos |-> [s \in Symbols |-> Flat], cash |-> 0]

\* stage: idle; asked, the request is out; read, the answer holds snap as of
\* instant; mode, the pass waits for the venue's account mode before it writes
\* sizes and cash.
Idle == [stage |-> "idle", snap |-> NoVenue, instant |-> 0,
         sizes |-> {}, cash |-> {}]

Unopened == [open |-> FALSE, genesis |-> 0, cash |-> 0,
             pos |-> [o \in Owners |-> [s \in Symbols |-> Flat]],
             mark |-> [s \in Symbols |-> 0], applied |-> {}]

Init ==
    /\ when = [f \in Facts |-> 0]
    /\ venue = NoVenue
    /\ row = Unopened /\ books = [f \in Facts |-> 0]
    /\ up = FALSE /\ linked = FALSE /\ inbox = <<>>
    /\ touched = {} /\ previous = {} /\ pass = Idle /\ lagging = {}
    /\ breaks = 0

\* The venue books a fact.  An order of the engine exists only behind a
\* cleared barrier; a payment is owed on a position that is held.
VenueBooks(f) ==
    /\ when[f] = 0
    /\ f \in Fills => row.open
    /\ f \in Payments => venue.pos[SymbolOf[f]].size # 0
    /\ when' = [when EXCEPT ![f] = Now + 1]
    /\ venue' = VenueAfter(venue, f)
    /\ inbox' = IF f \in Payments /\ linked THEN Append(inbox, {f}) ELSE inbox
    /\ UNCHANGED <<row, books, up, linked, passVars, breaks>>

Start ==
    /\ ~up
    /\ up' = TRUE
    /\ UNCHANGED <<when, venue, ledgerVars, linkVars, passVars, breaks>>

\* A kill, a fault or a stop: memory is gone, the rows stay.
Crash ==
    /\ up /\ breaks < MaxBreaks
    /\ breaks' = breaks + 1
    /\ up' = FALSE /\ linked' = FALSE /\ inbox' = <<>>
    /\ touched' = {} /\ previous' = {} /\ pass' = Idle /\ lagging' = {}
    /\ UNCHANGED <<when, venue, ledgerVars>>

\* A subscription is answered with every payment the venue has booked.
Connect ==
    /\ up /\ ~linked
    /\ linked' = TRUE
    /\ LET history == {p \in Payments : when[p] > 0}
       IN inbox' = IF history = {} THEN inbox ELSE Append(inbox, history)
    /\ UNCHANGED <<when, venue, ledgerVars, up, passVars, breaks>>

\* The socket dies: what is not on the bus yet is lost with it.
Drop ==
    /\ linked /\ breaks < MaxBreaks
    /\ breaks' = breaks + 1
    /\ linked' = FALSE
    /\ \E kept \in 0 .. Len(inbox) : inbox' = SubSeq(inbox, 1, kept)
    /\ UNCHANGED <<when, venue, ledgerVars, up, passVars>>

\* A report of a fill, at any time and any number of times after the fill.
\* Nothing is applied before the account row is open.
ApplyFill(f) ==
    /\ up /\ row.open
    /\ f \in Fills /\ when[f] > 0
    /\ ~RepeatsFill(row, f)
    /\ row' = FoldFill(row, f)
    /\ books' = [books EXCEPT ![f] = @ + 1]
    /\ touched' = IF pass.stage = "idle" THEN touched ELSE touched \cup {SymbolOf[f]}
    /\ UNCHANGED <<when, venue, up, linkVars, previous, pass, lagging,
                   breaks>>

\* A batch is applied in whatever order the venue listed it.
Unsorted(batch) == batch

\* The batch in front is sorted by boundary, so its earliest payment is next.
NextOf(batch) ==
    {p \in batch : \A q \in batch : when[p] <= when[q]}

Without(p) ==
    IF Head(inbox) = {p} THEN Tail(inbox)
    ELSE [inbox EXCEPT ![1] = @ \ {p}]

ApplyPayment(p) ==
    /\ up /\ row.open
    /\ inbox # <<>>
    /\ p \in NextOf(Head(inbox))
    /\ inbox' = Without(p)
    /\ IF RepeatsPayment(row, p) THEN UNCHANGED ledgerVars
       ELSE /\ row' = FoldPayment(row, p)
            /\ books' = [books EXCEPT ![p] = @ + 1]
    /\ UNCHANGED <<when, venue, up, linked, passVars, breaks>>

\* The account read: the barrier's while the row is not open, then the
\* cadence's.
ReadStarts ==
    /\ up /\ pass.stage = "idle"
    /\ pass' = [pass EXCEPT !.stage = "asked"]
    /\ UNCHANGED <<when, venue, ledgerVars, up, linkVars, touched, previous,
                   lagging, breaks>>

VenueAnswers ==
    /\ pass.stage = "asked"
    /\ pass' = [pass EXCEPT !.stage = "read", !.snap = venue, !.instant = Now]
    /\ UNCHANGED <<when, venue, ledgerVars, up, linkVars, touched, previous,
                   lagging, breaks>>

\* A failed read freezes the pass and infers nothing.
ReadFails ==
    /\ pass.stage \in {"asked", "read"}
    /\ pass' = Idle /\ touched' = {}
    /\ UNCHANGED <<when, venue, ledgerVars, up, linkVars, previous, lagging,
                   breaks>>

Materialise ==
    /\ pass.stage = "read" /\ ~row.open
    /\ row' = [row EXCEPT !.open = TRUE, !.cash = pass.snap.cash,
                          !.genesis = pass.instant]
    /\ pass' = Idle
    /\ UNCHANGED <<when, venue, books, up, linkVars, touched, previous,
                   lagging, breaks>>

\* What the snapshot has and the ledger has not, or the other way round.
OutOfStep ==
    {f \in Fills \cup Payments :
        /\ when[f] > 0
        /\ (when[f] <= pass.instant) # Known(row, f)}

Judge ==
    /\ pass.stage = "read" /\ row.open
    /\ previous' = Seen(pass.snap, row)
    /\ lagging' = OutOfStep
    /\ LET sizes == SizeHeals(pass.snap, row)
           cash == CashHeals(pass.snap, row)
       IN IF cash = {}
          THEN /\ row' = Heal(row, pass.snap, sizes, {})
               /\ pass' = Idle /\ touched' = {}
          ELSE /\ pass' = [pass EXCEPT !.stage = "mode", !.sizes = sizes,
                                       !.cash = cash]
               /\ UNCHANGED <<row, touched>>
    /\ UNCHANGED <<when, venue, books, up, linkVars, breaks>>

\* The mode decides over the cash line alone: the sizes heal either way.
ModeAnswers(verified) ==
    /\ pass.stage = "mode"
    /\ row' = Heal(row, pass.snap, pass.sizes,
                   IF verified THEN pass.cash ELSE {})
    /\ pass' = Idle /\ touched' = {}
    /\ UNCHANGED <<when, venue, books, up, linkVars, previous, lagging,
                   breaks>>

Next ==
    \/ \E f \in Facts : VenueBooks(f)
    \/ Start \/ Crash \/ Connect \/ Drop
    \/ \E f \in Fills : ApplyFill(f)
    \/ \E p \in Payments : ApplyPayment(p)
    \/ ReadStarts \/ VenueAnswers \/ ReadFails
    \/ Materialise \/ Judge
    \/ \E verified \in BOOLEAN : ModeAnswers(verified)

Spec == Init /\ [][Next]_vars

\* The supervisor restarts the engine, the socket reconnects, what was
\* delivered is applied, passes go on, and now and then an answer arrives.
Fairness ==
    /\ WF_vars(Start) /\ WF_vars(Connect)
    /\ \A f \in Fills : WF_vars(ApplyFill(f))
    /\ \A p \in Payments : WF_vars(ApplyPayment(p))
    /\ WF_vars(ReadStarts) /\ SF_vars(VenueAnswers)
    /\ SF_vars(Materialise) /\ SF_vars(Judge)
    /\ WF_vars(\E verified \in BOOLEAN : ModeAnswers(verified))
    /\ SF_vars(ModeAnswers(TRUE))

FairSpec == Spec /\ Fairness
=============================================================================
