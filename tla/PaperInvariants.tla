--------------------------- MODULE PaperInvariants ---------------------------
(***************************************************************************)
(* The inductive invariants of PaperVenue, conjunct by conjunct, and the   *)
(* words its proofs speak of a step in.  HaltInv is about the kill switch, *)
(* FundInv about the accruals, ReduceInv about the net that a reduce-only  *)
(* order finds, RowsInv about the open part of each row; the last two speak *)
(* of a process that was not killed.                                       *)
(***************************************************************************)
EXTENDS PaperProperties

\* What a trip that has returned guarantees: the store holds the halt, and so
\* does the memory of every process that runs.
HaltInv ==
    /\ DOMAIN rows = Orders
    /\ DOMAIN signals = Orders
    /\ \A o \in Orders : ~signals[o].operator
    /\ acked => halted
    /\ acked /\ phase # "down" => tripped

\* A sequence of whatever it holds.
IsList(q) == q \in Seq({q[i] : i \in DOMAIN q})

\* The venue between two awaits, as the bus and the clock see it: a list of
\* resting orders, and nothing published but fills and statuses.
Reports(q) == IsList(q) /\ \A i \in DOMAIN q : q[i].k \in {"fill", "status"}

Tame(v) ==
    /\ DOMAIN v = {"price", "book", "count", "statuses", "unapplied", "out"}
    /\ IsList(v.book) /\ Reports(v.out)

\* One resting order of the walk over the book on a tick.
Walked(v, w, i, price, missed) ==
    IF i = 0 THEN [v EXCEPT !.price = price, !.unapplied = Unapplied(v)]
    ELSE LET o == v.book[i].o
         IN  IF Resting(w[i - 1], o) # {} /\ Crosses(o, price)
             THEN FillCrossingLimit(w[i - 1], o, o \in missed)
             ELSE w[i - 1]

Walks(v, w, n, price, missed) == w = [i \in 0..n |-> Walked(v, w, i, price, missed)]

-----------------------------------------------------------------------------
\* Funding: the boundaries, and what is on its way to the ledger.

Booked(boundary) == \E i \in DOMAIN charged : charged[i] = boundary
IsAccrual(i) == queue[i].k = "funding"
OnTheWay(boundary) ==
    \E i \in DOMAIN queue : IsAccrual(i) /\ queue[i].boundary = boundary
IsBoundary(b) == \E n \in Nat : b = n * Interval

Clock ==
    /\ now \in Nat /\ settled \in 0..now /\ watermark \in 0..now
    /\ bounds \in [signals : Nat, cancels : Nat, ticks : Nat, switches : Nat,
                   crashes : Nat, time : Nat]
    /\ gap \subseteq 0..now

Bus ==
    /\ IsList(queue) /\ IsList(held)
    /\ \A i \in DOMAIN held : held[i].k # "funding"
    /\ dispatched => queue # <<>>

TameVenue == Tame(venue) /\ venue.out = <<>>

\* An accrual in the log is of a boundary that passed while the process ran,
\* and not before the watermark; the log has them in order; and one that was
\* dispatched is booked.
AccrualsQueued ==
    /\ \A i \in DOMAIN queue : IsAccrual(i) =>
          /\ queue[i].boundary \in 1..now /\ queue[i].boundary \notin gap
          /\ watermark <= queue[i].boundary
          /\ phase = "running" => queue[i].boundary <= settled
    /\ \A i, j \in DOMAIN queue :
          i < j /\ IsAccrual(i) /\ IsAccrual(j) => queue[i].boundary < queue[j].boundary
    /\ dispatched /\ IsAccrual(1) => queue[1].boundary <= watermark

ChargedInOrder ==
    /\ IsList(charged)
    /\ \A i \in DOMAIN charged : charged[i] \in 1..watermark /\ charged[i] \notin gap
    /\ \A i, j \in DOMAIN charged : i < j => charged[i] < charged[j]
    /\ watermark > 0 => Booked(watermark)

SettledPast == phase = "running" => watermark <= settled /\ gap \subseteq 0..settled

\* What is owed is still to be settled, on its way, or charged.
OwedComes ==
    /\ phase # "running" => owed = {}
    /\ \A b \in owed : b \in 1..now /\ IsBoundary(b)
                       /\ (b > settled \/ Booked(b) \/ OnTheWay(b))

FundInv ==
    Clock /\ Bus /\ TameVenue /\ AccrualsQueued /\ ChargedInOrder /\ SettledPast /\ OwedComes

\* No accrual joins the log, and one leaves it only from its head and booked.
\* down is by how much the records move towards the head.
Follows(down) ==
    /\ \A i \in DOMAIN queue' : queue'[i].k = "funding" =>
          i + down \in DOMAIN queue /\ queue'[i] = queue[i + down]
    /\ \A j \in DOMAIN queue : IsAccrual(j) =>
          \/ j - down \in DOMAIN queue' /\ queue'[j - down] = queue[j]
          \/ Booked(queue[j].boundary)
    /\ dispatched' /\ queue'[1].k = "funding" =>
          dispatched /\ down = 0

\* No record but a report joins: what the bus does to the log otherwise.
Quietly == Bus' /\ \E down \in {0, 1} : Follows(down)

-----------------------------------------------------------------------------
\* The net and the fill counts, as the log moves them.

Views == [net : Int, count : [Orders -> Nat]]

\* One event moves a to b: a fill is the order's next, and a reduce-only one
\* shrinks the net.
Moves(S, m, a, b) ==
    IF m.k = "fill"
    THEN /\ m.o \in Orders /\ S[m.o] \in Menu /\ m.size \in Nat \ {0}
         /\ m.n = a.count[m.o] + 1
         /\ b.net = a.net + Direction(S[m.o].side) * m.size
         /\ b.count = [a.count EXCEPT ![m.o] = m.n]
         /\ S[m.o].reduceOnly => Shrinks(a.net, b.net)
    ELSE b = a

Through(S, l, c) == c \in [0..Len(l) -> Views] /\ \A i \in 1..Len(l) : Moves(S, l[i], c[i - 1], c[i])

Leads(S, l, a, b) == \E c : Through(S, l, c) /\ c[0] = a /\ c[Len(l)] = b

\* What the fills of a set add up to.
Total(U) == SumFunction([f \in U |-> f.size])

\* The record of a fill among the fills the store has not applied.
Record(S, m) == [o |-> m.o, n |-> m.n, size |-> Direction(S[m.o].side) * m.size]

Records == [o : Orders, n : Nat, size : Int]
Entries == [o : Orders, asked : Nat, filled : Nat, working : Nat]

Solid == own \in Int /\ other \in Int

BookOf(v) == {v.book[i].o : i \in DOMAIN v.book}

\* It counts every fill the rows have, remembers each of the others once, and
\* works no order twice or beyond its size.
CountsFills(v) ==
    /\ v.count \in [Orders -> Nat]
    /\ \A o \in Orders : \A n \in rows[o].trades : n \in Nat /\ n <= v.count[o]
    /\ IsFiniteSet(v.unapplied) /\ v.unapplied \subseteq Records
    /\ \A f \in v.unapplied : f.n <= v.count[f.o]
    /\ \A f, g \in v.unapplied : f.o = g.o /\ f.n = g.n => f = g

WorksOnce(v) ==
    /\ \A i \in DOMAIN v.book : /\ v.book[i] \in Entries /\ signals[v.book[i].o] \in Menu
                                /\ v.book[i].filled < v.book[i].working
    /\ \A i, j \in DOMAIN v.book : v.book[i].o = v.book[j].o => i = j

Known(v) == Tame(v) /\ CountsFills(v) /\ WorksOnce(v)

\* A resting reduce-only order works no more than the net it reduces.
Fits(v) ==
    \A i \in DOMAIN v.book :
        signals[v.book[i].o].reduceOnly =>
            /\ ReducesNet(v, v.book[i].o)
            /\ v.book[i].working - v.book[i].filled <= Abs(Net(v))

View(v) == [net |-> Net(v), count |-> v.count]

\* What it published since the view s.
Tells(v, s) ==
    /\ Leads(signals, v.out, s, View(v))
    /\ \A i \in DOMAIN v.out : v.out[i].k = "fill" => Record(signals, v.out[i]) \in v.unapplied

\* A book that is a part of another, in any order.
Thins(v, w, h) ==
    /\ \A j \in DOMAIN w.book :
          /\ h[j] \in DOMAIN v.book /\ w.book[j].o = v.book[h[j]].o
          /\ w.book[j] \in Entries /\ w.book[j].filled < w.book[j].working
    /\ \A i, j \in DOMAIN w.book : h[i] = h[j] => i = j

\* What a step of the venue keeps, and that it publishes what it does.
Keeps(v, w) ==
    /\ Known(w) /\ Fits(w)
    /\ \A s : Tells(v, s) => Tells(w, s)
    /\ v.unapplied \subseteq w.unapplied

\* An order the guard passed arrives: the venue works none of it yet.
Arrives(v, o, size) ==
    /\ Solid /\ Known(v) /\ Fits(v)
    /\ o \in Orders /\ o \notin BookOf(v) /\ signals[o] \in Menu /\ size \in Nat \ {0}

-----------------------------------------------------------------------------
\* ReduceInv: the net as the reduce-only orders find it.

\* What the store has still to handle, in its order.
Base == IF dispatched THEN Tail(queue) ELSE queue
Pending == Base \o held

MostOrders == Max({budget.signals : budget \in Budgets})

KnownOrders ==
    /\ Solid /\ DOMAIN rows = Orders /\ DOMAIN signals = Orders
    /\ \A o \in Orders : /\ signals[o] \in Menu \cup {NoSignal}
                         /\ HasRow(o) => signals[o] \in Menu
                         /\ ~HasRow(o) => rows[o].trades = {}

\* The strategies number their orders.
SentFirst == \E n \in Nat : Sent = 1..n /\ n + bounds.signals <= MostOrders

\* A dispatched record is at the head, its fill is booked, and what its handlers
\* published is a report.
BusShape ==
    /\ ~kafka => ~dispatched
    /\ ~dispatched => held = <<>>
    /\ dispatched /\ Head(queue).k = "fill" => Head(queue).n \in rows[Head(queue).o].trades
    /\ Reports(held)
    /\ \A i \in DOMAIN queue :
          queue[i].k = "place" => queue[i].o \in Orders /\ signals[queue[i].o] \in Menu

\* The venue knows the net as it will be once all it published is applied.
VenueAhead ==
    /\ Known(venue) /\ Fits(venue)
    /\ \A o \in BookOf(venue) : HasRow(o)
    /\ \A i \in DOMAIN Pending :
          Pending[i].k = "fill" => Record(signals, Pending[i]) \in venue.unapplied

\* What the rows have booked.
Stored(s) ==
    /\ s.net = StoreNet
    /\ \A o \in Orders : \A n \in rows[o].trades : n \in Nat /\ n <= s.count[o]

LogReduces ==
    \E s, t : /\ Leads(signals, Pending, s, t) /\ Stored(s)
              /\ phase = "running" => t = View(venue)

ReduceInv ==
    ~crashed => /\ phase \in {"running", "down"} /\ (phase = "down" => fault)
                /\ KnownOrders /\ SentFirst /\ BusShape
                /\ phase = "running" => VenueAhead
                /\ LogReduces

Settled == UNCHANGED <<kafka, rows, own, other, venue, phase, fault, crashed>>

\* The orders of the signals on their way.
Placings(q, S) == \A i \in DOMAIN q : q[i].k = "place" => q[i].o \in Orders /\ S[q[i].o] \in Menu

SameTrades == \A o \in Orders : rows'[o].trades = rows[o].trades

\* The store applies it.
FillApplied(m, row) ==
    /\ rows' = [rows EXCEPT ![m.o] = row]
    /\ row.st \in {"FILLED", "PARTIALLY_FILLED"} /\ row.trades = rows[m.o].trades \cup {m.n}
    /\ own' = own + Direction(Side(m.o)) * m.size
    /\ venue' = venue /\ Dispatch(<<>>)
    /\ UNCHANGED <<kafka, signals, phase, fault, crashed, bounds, other>>

-----------------------------------------------------------------------------
\* RowsInv: one order at a time, what its row has open is accounted for.

\* What a list of events says of an order: reports of it, one that ends it, one
\* that only an order fresh at the venue gets.
ReportOf(m, o) == m.k \in {"fill", "status"} /\ m.o = o
Ends(m, o) == m.k = "status" /\ m.o = o /\ m.st \in TerminalStates
Begins(m, o) == m.k = "status" /\ m.o = o /\ m.st # "CANCELLED"

Said(l, o) == \E i \in DOMAIN l : ReportOf(l[i], o)
Ended(l, o) == \E i \in DOMAIN l : Ends(l[i], o)
Begun(l, o) == \E i \in DOMAIN l : Begins(l[i], o)
Carries(l, f) == \E i \in DOMAIN l : l[i].k = "fill" /\ Record(signals, l[i]) = f

\* Nothing is said of an order after what ends it, nor before what begins it.
Clear(l, o) ==
    /\ \A i \in DOMAIN l : l[i].k = "status" /\ l[i].o = o =>
          l[i].st \in {"LIVE", "CANCELLED", "REJECTED", "FAILED"}
    /\ \A i, j \in DOMAIN l : i < j /\ ReportOf(l[i], o) /\ ReportOf(l[j], o) =>
          ~Ends(l[i], o) /\ ~Begins(l[j], o)

\* The fills of an order that the store has not applied, and what is left of it
\* in the book.
FillsOf(v, o) == {f \in v.unapplied : f.o = o /\ f.n \notin rows[o].trades}
Filling(v, o) == Direction(Side(o)) * Total(FillsOf(v, o))
Left(v, o) == Entry(v, o).asked - Entry(v, o).filled

\* A venue, and a list of what it said and the store has not handled, account
\* for the size a of an order.
Accounts(v, l, o, a) ==
    IF o \in BookOf(v)
    THEN Filling(v, o) + Left(v, o) = a /\ ~Ended(l, o)
    ELSE Filling(v, o) <= a /\ (Filling(v, o) = a \/ Ended(l, o))

\* Orders rest at what they asked for, and less only if they reduce; and fills are
\* signed by their order's side.
Sound(v) ==
    /\ \A i \in DOMAIN v.book :
          /\ v.book[i].working <= v.book[i].asked
          /\ signals[v.book[i].o].reduceOnly \/ v.book[i].working = v.book[i].asked
    /\ \A f \in v.unapplied : /\ signals[f.o] \in Menu
                              /\ Direction(Side(f.o)) * f.size \in Nat \ {0}

OpenAt(v, l, o) ==
    /\ rows[o].st \in {"SUBMITTED", "LIVE", "PARTIALLY_FILLED"}
    /\ rows[o].size \in Nat /\ rows[o].cum \in Nat /\ OpenPart(o) > 0
    /\ rows[o].entered \subseteq {"SUBMITTED", "LIVE"}
    /\ rows[o].st = "SUBMITTED" => rows[o].entered = {"SUBMITTED"} /\ Said(l, o)
    /\ Accounts(v, l, o, OpenPart(o))
    /\ o \in BookOf(v) => signals[o].type = "limit" /\ signals[o].tif = "gtc"

ClosedAt(v, l, o) ==
    /\ o \notin BookOf(v) /\ FillsOf(v, o) = {}
    /\ ~HasRow(o) => ~Said(l, o)

InOrder(v, l, o) ==
    /\ Clear(l, o)
    /\ Begun(l, o) => rows[o].st = "SUBMITTED"
    /\ \A f \in FillsOf(v, o) : Carries(l, f)
    /\ IF IsOpenRow(o) THEN OpenAt(v, l, o) ELSE ClosedAt(v, l, o)

Addressed(l) == \A i \in DOMAIN l : l[i].k \in {"fill", "status"} => l[i].o \in Orders

Worst(side) == StoreNet + Direction(side) * OpenRemainder(side)

Capped ==
    /\ Worst("buy") <= MaxPosition /\ Worst("sell") >= -MaxPosition
    /\ Abs(other) <= MaxPosition

RowsInv ==
    ~crashed =>
        /\ phase = "running" =>
              /\ Sound(venue) /\ Addressed(Pending)
              /\ \A o \in Orders \ ghosted : InOrder(venue, Pending, o)
              /\ \A o \in ghosted : o \in Orders /\ HasRow(o)
        /\ ghosted = {} => phase = "running" /\ (HoldingsFit => Capped)

-----------------------------------------------------------------------------
\* What a step of the venue, of the store or of the guard does to that.

\* p is the list l, and the list m after it.
InARow(l, m, p) ==
    /\ DOMAIN p \subseteq Nat /\ DOMAIN l \subseteq DOMAIN p
    /\ \A i \in DOMAIN l : p[i] = l[i]
    /\ \A j \in DOMAIN m : Len(l) + j \in DOMAIN p /\ p[Len(l) + j] = m[j]
    /\ \A i \in DOMAIN p : i \in DOMAIN l \/ \E j \in DOMAIN m : i = Len(l) + j
    /\ Len(l) \in Nat /\ DOMAIN l = 1..Len(l) /\ DOMAIN m \subseteq Nat \ {0}

\* The parts of an entry that a step of the venue leaves.
SameEntry(v, w, o) ==
    /\ Entry(w, o).o = o
    /\ Entry(w, o).asked = Entry(v, o).asked /\ Entry(w, o).filled = Entry(v, o).filled

\* Each order that leaves the book is said to be cancelled, and once.
Drops(v, w, said) ==
    /\ IsList(said) /\ w.out = v.out \o said
    /\ \A i \in DOMAIN said : /\ said[i].k = "status" /\ said[i].st = "CANCELLED"
                              /\ said[i].o \in BookOf(v) \ BookOf(w)
    /\ \A i, j \in DOMAIN said : said[i].o = said[j].o => i = j
    /\ \A o \in BookOf(v) \ BookOf(w) : \E i \in DOMAIN said : said[i].o = o

\* What a step of the venue keeps of an order: of one that it works or worked,
\* and of one that it has nothing to do with.
Tracks(v, o, a, G) ==
    /\ Clear(v.out, o) /\ ~Begun(v.out, o) /\ Accounts(v, v.out, o, a)
    /\ \A f \in FillsOf(v, o) : f \in G \/ Carries(v.out, f)

Idle(v, o, G) == o \notin BookOf(v) /\ FillsOf(v, o) = G /\ ~Said(v.out, o)

Serves(v, w, o) ==
    /\ \A a \in Nat : \A G : Tracks(v, o, a, G) => Tracks(w, o, a, G)
    /\ \A G : Idle(v, o, G) => Idle(w, o, G)

\* What w published after v.
Adds(v, w, r) == IsList(v.out) /\ IsList(r) /\ IsList(w.out) /\ InARow(v.out, r, w.out)

\* A step that has nothing to do with an order.
Untouched(v, w, o) ==
    /\ o \in BookOf(w) <=> o \in BookOf(v)
    /\ o \in BookOf(w) => Left(w, o) = Left(v, o)
    /\ FillsOf(w, o) = FillsOf(v, o)
    /\ \E r : Adds(v, w, r) /\ ~Said(r, o)

\* The venue published a fill m of an order, and remembers it.
SaysFill(v, w, o, size, m) ==
    /\ m.k = "fill" /\ m.o = o /\ Adds(v, w, <<m>>)
    /\ Record(signals, m).o = o
    /\ Record(signals, m).size = Direction(Side(o)) * size
    /\ FillsOf(w, o) = FillsOf(v, o) \cup {Record(signals, m)}
    /\ w.unapplied = v.unapplied \cup {Record(signals, m)}

\* An order that rests fills a part of what it works, and what it asked and can
\* no longer work is cancelled.
Fills(v, o, size) ==
    LET e == Entry(v, o)
        filled == Numbered(BookFill(v, o, size), o, size)
    IN  IF e.filled + size >= e.working /\ e.working < e.asked
        THEN Say(filled, o, "CANCELLED") ELSE filled

\* What the venue said of an order it was given.
Taken(w, o, a) ==
    /\ Clear(w.out, o) /\ Said(w.out, o) /\ Accounts(w, w.out, o, a)
    /\ \A f \in FillsOf(w, o) : Carries(w.out, f)
    /\ o \in BookOf(w) => signals[o].type = "limit" /\ signals[o].tif = "gtc"

\* The order whose first word the venue has still to say.
Fresh(v, o, size) ==
    Arrives(v, o, size) /\ Sound(v) /\ v.out = <<>> /\ FillsOf(v, o) = {}

\* What the venue makes of an order it was given.
Placed(v, w, o, a) ==
    Taken(w, o, a) /\ Known(w) /\ Sound(w) /\ \A p : p # o => Serves(v, w, p)

\* Two lists that say the same of an order.
SameVoice(l, m, o) ==
    /\ Said(m, o) <=> Said(l, o)
    /\ Ended(m, o) <=> Ended(l, o)
    /\ Begun(m, o) <=> Begun(l, o)
    /\ \A f : f.o = o => (Carries(m, f) <=> Carries(l, f))
    /\ Clear(m, o) <=> Clear(l, o)

\* What an order's row, terms and venue decide.
SameRow(o) ==
    /\ rows'[o].st = rows[o].st /\ rows'[o].size = rows[o].size /\ rows'[o].cum = rows[o].cum
    /\ rows'[o].trades = rows[o].trades /\ rows'[o].entered = rows[o].entered

\* The open parts of the orders on a side of the book, as a sum of a function.
OpenParts == [p \in Orders |-> OpenPart(p)]
OpenOn(side) == {p \in Orders : IsOpenRow(p) /\ Side(p) = side}
Remainder(side) == SumFunctionOnSet(OpenParts, OpenOn(side))

RemaindersAreSums == \A side : OpenRemainder(side) = Remainder(side)

\* What one order adds to a side of the book, and what the others do.
Part(o, side) == IF IsOpenRow(o) /\ Side(o) = side THEN OpenPart(o) ELSE 0
Others(o, side) == SumFunctionOnSet(OpenParts, OpenOn(side) \ {o})

PartsKnown == \A p \in Orders : IsOpenRow(p) => OpenPart(p) \in Int

RemaindersSplit ==
    PartsKnown => \A o \in Orders : \A side :
        /\ OpenRemainder(side) = Part(o, side) + Others(o, side)
        /\ Part(o, side) \in Int /\ Others(o, side) \in Int

\* A step that moves the row of one order.
SameOrder(p) ==
    /\ IsOpenRow(p)' <=> IsOpenRow(p)
    /\ IsOpenRow(p) => Side(p)' = Side(p) /\ OpenPart(p)' = OpenPart(p)

\* The state that a fill takes an order to.
Reached(row, size) == IF row.cum + size >= row.size THEN "FILLED" ELSE "PARTIALLY_FILLED"

\* The fills of the first k orders that the store has not applied are parts of
\* what those orders have open.
FillsTo(k) == {f \in Unapplied(venue) : f.o \in 1..k}
OpenTo(side, k) == SumFunctionOnSet(OpenParts, OpenOn(side) \cap (1..k))
WithinTo(k) ==
    /\ Total(FillsTo(k)) <= OpenTo("buy", k) /\ Total(FillsTo(k)) >= -OpenTo("sell", k)
    /\ OpenTo("buy", k) \in Int /\ OpenTo("sell", k) \in Int
==============================================================================
