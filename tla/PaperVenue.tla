----------------------------- MODULE PaperVenue ------------------------------
(***************************************************************************)
(* The paper venue of adapters/paper and the pre-trade guard, between the  *)
(* strategies' signals and the rows of the store, on one symbol and either *)
(* bus.  The venue lives in the engine's process: its book, its fill       *)
(* counts and the fills the store has not applied yet die with it, and     *)
(* start() rebuilds the book from the order rows.                          *)
(*                                                                         *)
(* A handler of the bus runs whole: with this venue no handler leaves the  *)
(* process, and what another task does meanwhile is to publish.  On the    *)
(* in-memory bus what a handler publishes is queued and dies with the      *)
(* process.  On Kafka it is held until the handler returned, flushed to the*)
(* log event by event, and only then is the dispatched record committed.   *)
(***************************************************************************)
EXTENDS Guard, OrderSaga, SequencesExt, FiniteSets

CONSTANTS
    Menu,           \* the signals a strategy may send
    Prices,         \* of the feed's ticks
    Marks,          \* readings of the latest mark
    Holdings,       \* what the partitions may hold at the start: own and other
    Interval,       \* run_funding's interval
    Budgets         \* bounds: how many signals, cancels, ticks, switches of the
                    \* halt, crashes and units of time a behaviour has

ASSUME PaperAssumption ==
    /\ \A signal \in Menu : /\ ~signal.operator
                            /\ signal.side \in {"buy", "sell"} /\ signal.raw \in Nat
                            /\ signal.reduceOnly \in BOOLEAN
                            /\ signal.type \in {"market", "limit"}
                            /\ signal.tif \in {"gtc", "ioc"}
    /\ Prices \subseteq Nat \ {0} /\ Interval \in Nat \ {0}
    /\ Holdings \subseteq [own : Int, other : Int]
    /\ Budgets \subseteq [signals : Nat, cancels : Nat, ticks : Nat, switches : Nat,
                         crashes : Nat, time : Nat]
    /\ \E most \in Budgets : \A budget \in Budgets : budget.signals <= most.signals

VARIABLES
    kafka,          \* which bus, and whether fills are stochastic: the config
    stochastic,
    signals,        \* each order's terms, as its place signal carries them
    rows,           \* the order rows
    own,            \* the size of the strategy's partition
    other,          \* the other partitions' size
    halted,         \* the store's kill switch
    watermark,      \* the funding boundaries the ledger has booked
    queue,          \* events published and not committed, the oldest first
    held,           \* what the dispatched record's handlers published
    dispatched,     \* whether the head of the queue was dispatched
    venue,          \* PaperExchange
    tripped,        \* RealGuard
    approved,
    settled,        \* settled_through_ns of run_funding
    phase,          \* "down", "boot" before the barrier, or "running"
    unproved,       \* open orders reconcile_startup has still to read
    now,
    bounds,         \* what is left of the behaviour's budget
    fault,          \* history: the saga refused a report and the run faulted
    acked,          \* history: a trip returned and no reset began
    charged,        \* history: the boundaries the ledger charged, in order
    gap,            \* history: the boundaries passed while nothing ran
    owed,           \* history: those passed since with the position held
    ghosted,        \* history: the orders the reconciler ended as ghosts
    crashed         \* history: the process was killed

config == <<kafka, stochastic, other>>
durable == <<rows, own, halted, watermark>>
bus == <<queue, held, dispatched>>
memory == <<venue, tripped, approved, settled, phase, unproved>>
history == <<fault, acked, charged, gap, owed, ghosted, crashed>>
vars == <<config, signals, durable, bus, memory, now, bounds, history>>

Orders == 1..Max({budget.signals : budget \in Budgets})
NoPrice == 0

NoSignal == [side |-> "none", operator |-> FALSE]

\* Event ids are kept as the trade ids booked and the states entered.
NoRow == [st |-> "none", size |-> 0, cum |-> 0, trades |-> {}, entered |-> {},
          cancel |-> FALSE, created |-> 0]

NewRow(o, st) == [NoRow EXCEPT !.st = st, !.size = QuantizeSize(signals[o].raw),
                               !.created = now]

HasRow(o) == rows[o].st # "none"
IsOpenRow(o) == HasRow(o) /\ rows[o].st \notin TerminalStates
Side(o) == signals[o].side
StoreNet == own + other

\* Place, cancel, tick, fill, status and funding events.
PlaceSignal(o) == [k |-> "place", o |-> o]
CancelSignal(o) == [k |-> "cancel", o |-> o]
MarketTick(price) == [k |-> "tick", price |-> price]
FillReport(o, number, size) == [k |-> "fill", o |-> o, n |-> number, size |-> size]
StatusReport(o, st) == [k |-> "status", o |-> o, st |-> st]
FundingAccrual(boundary) == [k |-> "funding", boundary |-> boundary]

\* A finite set of numbers in their order, and the elements of a list at them.
Ascending(K) ==
    CHOOSE at \in [1..Cardinality(K) -> K] :
        \A i, j \in 1..Cardinality(K) : i < j => at[i] < at[j]

Only(list, K) == [j \in 1..Cardinality(K) |-> list[Ascending(K)[j]]]

--------------------------------------------------------------------------------
\* The venue between two awaits.  It is a record: the latest tick's price, the
\* resting orders in the order they rest (asked is the size the order asked
\* for, working the size it is worked at), the fill counts, the orders it has a
\* status of, the fills the store has not applied, and what it published.

NewVenue == [price |-> NoPrice, book |-> <<>>, count |-> [o \in Orders |-> 0],
             statuses |-> {}, unapplied |-> {}, out |-> <<>>]

Say(v, o, st) == [v EXCEPT !.out = Append(@, StatusReport(o, st)),
                           !.statuses = @ \cup {o}]

Unapplied(v) == {f \in v.unapplied : f.n \notin rows[f.o].trades}

StoreNetOnly(v) == StoreNet

\* The account net: the store's plus the venue's fills the store has not applied.
Net(v) == StoreNet + SumFunction([f \in Unapplied(v) |-> f.size])

ReducesNet(v, o) == IF Side(o) = "sell" THEN Net(v) > 0 ELSE Net(v) < 0

WorkingSize(v, o, size) ==
    IF signals[o].reduceOnly THEN Min({size, Abs(Net(v))}) ELSE size

Resting(v, o) == {i \in DOMAIN v.book : v.book[i].o = o}
Entry(v, o) == v.book[CHOOSE i \in Resting(v, o) : TRUE]

Rest(v, o, size) ==
    [v EXCEPT !.book = Append(@, [o |-> o, asked |-> size, filled |-> 0,
                                  working |-> WorkingSize(v, o, size)])]

TakeOff(v, o) == [v EXCEPT !.book = Only(@, {i \in DOMAIN @ : @[i].o # o})]

\* RestingBook.apply_fill: capped at what still works, off the book when done.
BookFill(v, o, size) ==
    LET e == Entry(v, o)
        filled == e.filled + Min({size, e.working - e.filled})
    IN  IF filled >= e.working THEN TakeOff(v, o)
        ELSE [v EXCEPT !.book = [i \in DOMAIN @ |->
                 IF @[i].o = o THEN [@[i] EXCEPT !.filled = filled] ELSE @[i]]]

Numbered(v, o, size) ==
    LET n == v.count[o] + 1
    IN  [v EXCEPT !.count[o] = n,
                  !.unapplied = @ \cup {[o |-> o, n |-> n,
                                         size |-> Direction(Side(o)) * size]},
                  !.out = Append(@, FillReport(o, n, size))]

\* Fit each resting reduce-only order to the net a fill left behind.
RecheckReduceOnly(v) ==
    LET Keeps(e) == ~signals[e.o].reduceOnly \/ ReducesNet(v, e.o)
        Fit(e) == IF signals[e.o].reduceOnly
                  THEN [e EXCEPT !.working =
                           e.filled + Min({e.working - e.filled, Abs(Net(v))})]
                  ELSE e
        kept == {i \in DOMAIN v.book : Keeps(v.book[i])}
        gone == Only(v.book, DOMAIN v.book \ kept)
    IN  [v EXCEPT !.book = Only([i \in DOMAIN @ |-> Fit(@[i])], kept),
                  !.out = @ \o [i \in DOMAIN gone |-> StatusReport(gone[i].o, "CANCELLED")],
                  !.statuses = @ \cup {gone[i].o : i \in DOMAIN gone}]

\* What a fill model offers: the whole size, or half of it, rounded up.
Offer(size) == IF stochastic THEN (size + 1) \div 2 ELSE size

\* Of a queue miss nothing fills.
FillCrossingLimit(v, o, missed) ==
    LET e == Entry(v, o)
        size == Min({Offer(e.working), e.working - e.filled})
        done == e.filled + size >= e.working
        filled == Numbered(BookFill(v, o, size), o, size)
    IN  IF missed THEN v
        ELSE RecheckReduceOnly(IF done /\ e.working < e.asked
                               THEN Say(filled, o, "CANCELLED") ELSE filled)

Crosses(o, price) ==
    IF Side(o) = "buy" THEN price <= signals[o].price
    ELSE price >= signals[o].price

\* on_tick: the book as it was is walked, and each order is read again, because
\* an earlier fill on this tick may have cancelled or shrunk it.
MatchBook(v, price, missed) ==
    LET walk[i \in 0..Len(v.book)] ==
            IF i = 0 THEN [v EXCEPT !.price = price, !.unapplied = Unapplied(v)]
            ELSE LET o == v.book[i].o
                 IN  IF Resting(walk[i - 1], o) # {} /\ Crosses(o, price)
                     THEN FillCrossingLimit(walk[i - 1], o, o \in missed)
                     ELSE walk[i - 1]
    IN  walk[Len(v.book)]

PlaceMarket(v, o, size) ==
    LET working == WorkingSize(v, o, size)
        filled == Numbered(v, o, working)
    IN  IF MinNotionalRefuses(v.price, working, Side(o),
                              signals[o].reduceOnly, Net(v))
        THEN Say(v, o, "REJECTED")
        ELSE RecheckReduceOnly(IF working < size THEN Say(filled, o, "CANCELLED")
                               ELSE filled)

\* A fill has driven the saga to a working state already.
HasPartial(v, o) == Resting(v, o) # {} /\ Entry(v, o).filled > 0

PlaceLimit(v, o, size, missed) ==
    LET ioc == signals[o].tif = "ioc"
        working == WorkingSize(v, o, size)
        arrived == FillCrossingLimit(Rest(v, o, size), o, missed)
    IN  IF Crosses(o, v.price)
        THEN IF signals[o].postOnly THEN Say(v, o, "REJECTED")
             ELSE IF ~missed /\ Offer(working) >= working THEN arrived
             ELSE IF ioc THEN Say(TakeOff(arrived, o), o, "CANCELLED")
             ELSE IF HasPartial(arrived, o) THEN arrived
             ELSE Say(arrived, o, "LIVE")
        ELSE IF ioc THEN Say(v, o, "CANCELLED")
        ELSE Say(Rest(v, o, size), o, "LIVE")

Place(v, o, size, missed) ==
    IF signals[o].reduceOnly /\ ~ReducesNet(v, o) THEN Say(v, o, "REJECTED")
    ELSE IF v.price = NoPrice THEN Say(v, o, "FAILED")
    ELSE IF signals[o].type = "market" THEN PlaceMarket(v, o, size)
    ELSE PlaceLimit(v, o, size, missed)

Cancel(v, o) ==
    IF Resting(v, o) = {} THEN v ELSE Say(TakeOff(v, o), o, "CANCELLED")

BookReported(v, m) ==
    IF Resting(v, m.o) = {} THEN v
    ELSE [BookFill(v, m.o, m.size) EXCEPT
             !.count[m.o] = m.n,
             !.unapplied = @ \cup {[o |-> m.o, n |-> m.n,
                                    size |-> Direction(Side(m.o)) * m.size]}]

OnFillReportForgotten(v, m) == v

\* A fill an earlier life made on an order this one rebuilt.  The venue has
\* counted its own fills and those the row had booked, and skips them.
OnFillReport(v, m) ==
    IF m.n <= v.count[m.o] THEN v ELSE BookReported(v, m)

\* place_order_of: the terms of the saga, at the size still open.
OpenPart(o) == rows[o].size - rows[o].cum

RestsAtVenue(o) ==
    /\ rows[o].st \in WorkingStates
    /\ signals[o].type = "limit" /\ signals[o].tif = "gtc"

\* start(): the limit orders an earlier life left working, each counted from the
\* fills its row has booked.
Rebuilt ==
    LET left == {o \in Orders : RestsAtVenue(o)}
    IN  [NewVenue EXCEPT
            !.book = [i \in 1..Cardinality(left) |->
                         LET o == Ascending(left)[i]
                         IN  [o |-> o, asked |-> OpenPart(o), filled |-> 0,
                              working |-> WorkingSize(NewVenue, o, OpenPart(o))]],
            !.statuses = left,
            !.count = [o \in Orders |->
                          IF o \in left THEN Cardinality(rows[o].trades) ELSE 0]]

--------------------------------------------------------------------------------
\* The process, the bus and the clock.

Init ==
    /\ kafka \in BOOLEAN /\ stochastic \in BOOLEAN
    /\ \E holding \in Holdings : own = holding.own /\ other = holding.other
    /\ signals = [o \in Orders |-> NoSignal]
    /\ rows = [o \in Orders |-> NoRow] /\ halted = FALSE /\ watermark = 0
    /\ queue = <<>> /\ held = <<>> /\ dispatched = FALSE
    /\ \E price \in Prices \cup {NoPrice} : venue = [NewVenue EXCEPT !.price = price]
    /\ tripped = FALSE /\ approved = <<>> /\ settled = 0
    /\ phase = "running" /\ unproved = {}
    /\ now = 0 /\ bounds \in Budgets
    /\ fault = FALSE /\ acked = FALSE /\ charged = <<>> /\ gap = {} /\ owed = {}
    /\ ghosted = {} /\ crashed = FALSE

\* A task other than the bus's publishes.
Publish(m) ==
    /\ queue' = Append(queue, m)
    /\ UNCHANGED <<held, dispatched>>

\* The oldest event is dispatched: its handlers publish out.
Dispatch(out) ==
    IF kafka THEN held' = out /\ dispatched' = TRUE /\ UNCHANGED queue
    ELSE queue' = Tail(queue) \o out /\ UNCHANGED <<held, dispatched>>

FlushHeld ==
    /\ phase # "down" /\ dispatched /\ held # <<>>
    /\ queue' = Append(queue, Head(held)) /\ held' = Tail(held)
    /\ UNCHANGED <<config, signals, durable, dispatched, memory, now, bounds, history>>

Commit ==
    /\ phase # "down" /\ dispatched /\ held = <<>>
    /\ queue' = Tail(queue) /\ dispatched' = FALSE
    /\ UNCHANGED <<config, signals, durable, held, memory, now, bounds, history>>

\* What a process that ends leaves of its memory and of its bus.
Down ==
    /\ venue' = NewVenue /\ tripped' = FALSE /\ approved' = <<>> /\ settled' = 0
    /\ phase' = "down" /\ unproved' = {}
    /\ queue' = (IF kafka THEN queue ELSE <<>>) /\ held' = <<>> /\ dispatched' = FALSE
    /\ owed' = {}

Crashes ==
    /\ phase # "down" /\ bounds.crashes > 0
    /\ bounds' = [bounds EXCEPT !.crashes = @ - 1]
    /\ crashed' = TRUE
    /\ Down

Crash ==
    /\ Crashes
    /\ UNCHANGED <<config, signals, durable, now, fault, acked, charged, gap, ghosted>>

RestoredForgetful == FALSE

\* The guard's constructor restores the halt.
Restored == halted

Restart ==
    /\ phase = "down" /\ ~fault
    /\ venue' = Rebuilt /\ tripped' = Restored
    /\ phase' = "boot" /\ unproved' = {o \in Orders : IsOpenRow(o)}
    /\ UNCHANGED <<config, signals, durable, bus, approved, settled, now, bounds,
                   history>>

\* reconcile_startup reads one order; its publish returns once the verdict has
\* been handled.  An order the venue reports is replayed as it stands.
Verdicts == {i \in DOMAIN queue : queue[i].k = "status" /\ queue[i].st = "FAILED"}

ReconcileStartup ==
    /\ phase = "boot" /\ unproved # {} /\ Verdicts = {}
    /\ LET o == Min(unproved)
       IN  /\ unproved' = unproved \ {o}
           /\ IF o \notin venue.statuses /\ rows[o].st \notin WorkingStates
              THEN Publish(StatusReport(o, "FAILED")) ELSE UNCHANGED bus
    /\ UNCHANGED <<config, signals, durable, venue, tripped, approved, settled, phase,
                   now, bounds, history>>

\* run_funding resumes from the startup instant, never from the watermark.
SettledFrom == now

BarrierClears ==
    /\ phase = "boot" /\ unproved = {} /\ Verdicts = {}
    /\ phase' = "running" /\ settled' = SettledFrom
    /\ UNCHANGED <<config, signals, durable, bus, venue, tripped, approved, unproved,
                   now, bounds, history>>

\* The multiples of the interval in (after, through], ascending.
Boundaries(after, through) ==
    [i \in 1..(through \div Interval - after \div Interval) |->
        (after \div Interval + i) * Interval]

\* Time passes, and a replay's clock jumps.
Advance ==
    /\ \E d \in 1..bounds.time :
          LET passed == ToSet(Boundaries(now, now + d))
          IN  /\ now' = now + d
              /\ bounds' = [bounds EXCEPT !.time = @ - d]
              /\ gap' = IF phase = "running" THEN gap ELSE gap \cup passed
              /\ owed' = IF phase = "running" /\ StoreNet # 0 /\ venue.price # NoPrice
                         THEN owed \cup passed ELSE owed
    /\ UNCHANGED <<config, signals, durable, bus, memory, fault, acked, charged,
                   ghosted, crashed>>

\* run_funding wakes at the next boundary and settles every one crossed, on one
\* reading of the net.  Nothing is owed on a flat or an unpriced symbol.
RunFunding ==
    /\ phase = "running" /\ now >= (settled \div Interval + 1) * Interval
    /\ settled' = now
    /\ LET crossed == Boundaries(settled, now)
       IN  IF StoreNet = 0 \/ venue.price = NoPrice
           THEN owed' = owed \ ToSet(crossed) /\ UNCHANGED queue
           ELSE /\ queue' = queue \o [i \in DOMAIN crossed |-> FundingAccrual(crossed[i])]
                /\ UNCHANGED owed
    /\ UNCHANGED <<config, signals, durable, held, dispatched, venue, tripped, approved,
                   phase, unproved, now, bounds, fault, acked, charged, gap, ghosted, crashed>>

--------------------------------------------------------------------------------
\* What reaches the engine: signals, ticks, and the operator's two signals.

Sent == {o \in Orders : signals[o] # NoSignal}

EmitPlace ==
    /\ phase = "running" /\ bounds.signals > 0
    /\ \E signal \in Menu :
          /\ bounds' = [bounds EXCEPT !.signals = @ - 1]
          /\ signals' = [signals EXCEPT ![Cardinality(Sent) + 1] = signal]
          /\ Publish(PlaceSignal(Cardinality(Sent) + 1))
    /\ UNCHANGED <<config, durable, memory, now, history>>

EmitCancel ==
    /\ phase = "running" /\ bounds.cancels > 0
    /\ \E o \in Sent : Publish(CancelSignal(o))
    /\ bounds' = [bounds EXCEPT !.cancels = @ - 1]
    /\ UNCHANGED <<config, signals, durable, memory, now, history>>

FeedTick ==
    /\ phase = "running" /\ bounds.ticks > 0
    /\ \E price \in Prices : Publish(MarketTick(price))
    /\ bounds' = [bounds EXCEPT !.ticks = @ - 1]
    /\ UNCHANGED <<config, signals, durable, memory, now, history>>

Switches ==
    /\ phase # "down" /\ bounds.switches > 0
    /\ bounds' = [bounds EXCEPT !.switches = @ - 1]

\* The store first, then memory.
Trip ==
    /\ Switches /\ ~tripped
    /\ halted' = TRUE /\ tripped' = TRUE /\ acked' = TRUE
    /\ UNCHANGED <<config, signals, rows, own, watermark, bus, venue, approved, settled,
                   phase, unproved, now, fault, charged, gap, owed, ghosted, crashed>>

Reset ==
    /\ Switches /\ tripped
    /\ halted' = FALSE /\ tripped' = FALSE /\ acked' = FALSE
    /\ UNCHANGED <<config, signals, rows, own, watermark, bus, venue, approved, settled,
                   phase, unproved, now, fault, charged, gap, owed, ghosted, crashed>>

\* The process is killed between the two writes of a trip or of a reset.
CrashInSwitch ==
    /\ Crashes
    /\ halted' = ~tripped /\ acked' = FALSE
    /\ UNCHANGED <<config, signals, rows, own, watermark, now, fault, charged, gap, ghosted>>

--------------------------------------------------------------------------------
\* The handlers of the oldest event.

Handling(kind) ==
    phase # "down" /\ ~dispatched /\ queue # <<>> /\ Head(queue).k = kind

\* A handler raised: the run faults.
Faults ==
    /\ Down
    /\ fault' = TRUE
    /\ UNCHANGED <<config, signals, durable, now, bounds, acked, charged, gap, ghosted, crashed>>

OpenRemainder(side) ==
    MapThenSumSet(OpenPart,
                  {p \in Orders : IsOpenRow(p) /\ Side(p) = side})

Reading(o, mark) ==
    [accountNet |-> StoreNet, strategyNet |-> own,
     openRemainder |-> OpenRemainder(Side(o)), mark |-> mark]

SkipPlaced ==
    /\ Handling("place") /\ HasRow(Head(queue).o)
    /\ Dispatch(<<>>)
    /\ UNCHANGED <<config, signals, durable, memory, now, bounds, history>>

Deny ==
    /\ Handling("place") /\ ~HasRow(Head(queue).o)
    /\ LET o == Head(queue).o
       IN  /\ \/ phase = "boot"
              \/ \E mark \in Marks :
                    ~Approves(signals[o], Reading(o, mark), tripped, approved, now)
           /\ rows' = [rows EXCEPT ![o] = NewRow(o, "DENIED")]
           /\ Dispatch(<<>>)
    /\ UNCHANGED <<config, signals, own, halted, watermark, memory, now, bounds, history>>

\* _place: PENDING is written, the venue works the order, and SUBMITTED is
\* written.  Nothing of another task comes between them.
PlaceOrder ==
    /\ Handling("place") /\ ~HasRow(Head(queue).o) /\ phase = "running"
    /\ LET o == Head(queue).o
       IN  /\ \E mark \in Marks :
                 Approves(signals[o], Reading(o, mark), tripped, approved, now)
           /\ approved' = AfterApproval(signals[o], approved, now)
           /\ rows' = [rows EXCEPT ![o] = [NewRow(o, "SUBMITTED") EXCEPT
                                              !.entered = {"SUBMITTED"}]]
           /\ \E missed \in IF stochastic THEN BOOLEAN ELSE {FALSE} :
                 LET v == Place(venue, o, rows'[o].size, missed)
                 IN  venue' = [v EXCEPT !.out = <<>>] /\ Dispatch(v.out)
    /\ UNCHANGED <<config, signals, own, halted, watermark, tripped, settled, phase,
                   unproved, now, bounds, history>>

\* The process is killed between the two writes.
CrashInPlace ==
    /\ Handling("place") /\ ~HasRow(Head(queue).o) /\ phase = "running"
    /\ LET o == Head(queue).o
       IN  /\ \E mark \in Marks :
                 Approves(signals[o], Reading(o, mark), tripped, approved, now)
           /\ rows' = [rows EXCEPT ![o] = NewRow(o, "PENDING")]
    /\ Crashes
    /\ UNCHANGED <<config, signals, own, halted, watermark, now, fault, acked, charged, gap,
                   ghosted>>

OnCancel ==
    /\ Handling("cancel")
    /\ LET o == Head(queue).o
           v == Cancel(venue, o)
       IN  IF IsOpenRow(o) /\ ~rows[o].cancel
           THEN /\ rows' = [rows EXCEPT ![o].cancel = TRUE]
                /\ venue' = [v EXCEPT !.out = <<>>] /\ Dispatch(v.out)
           ELSE Dispatch(<<>>) /\ UNCHANGED <<rows, venue>>
    /\ UNCHANGED <<config, signals, own, halted, watermark, tripped, approved, settled,
                   phase, unproved, now, bounds, history>>

OnTick ==
    /\ Handling("tick")
    /\ \E missed \in IF stochastic THEN SUBSET {e.o : e \in ToSet(venue.book)} ELSE {{}} :
          LET v == MatchBook(venue, Head(queue).price, missed)
          IN  venue' = [v EXCEPT !.out = <<>>] /\ Dispatch(v.out)
    /\ UNCHANGED <<config, signals, durable, tripped, approved, settled, phase, unproved,
                   now, bounds, history>>

\* _apply_fill: the row and the partition move in one transaction.
OnFill ==
    /\ Handling("fill")
    /\ LET m == Head(queue)
           row == rows[m.o]
           reached == IF row.cum + m.size >= row.size THEN "FILLED"
                      ELSE "PARTIALLY_FILLED"
       IN  IF m.n \in row.trades
           THEN /\ venue' = OnFillReport(venue, m) /\ Dispatch(<<>>)
                /\ UNCHANGED <<config, signals, durable, tripped, approved, settled, phase,
                               unproved, now, bounds, history>>
           ELSE IF m.size = 0 \/ ~MayEnter(row, reached) THEN Faults
           ELSE /\ venue' = OnFillReport(venue, m)
                /\ rows' = [rows EXCEPT ![m.o] =
                              [row EXCEPT !.st = reached, !.cum = @ + m.size,
                                          !.trades = @ \cup {m.n}]]
                /\ own' = own + Direction(Side(m.o)) * m.size
                /\ Dispatch(<<>>)
                /\ UNCHANGED <<config, signals, halted, watermark, tripped, approved,
                               settled, phase, unproved, now, bounds, history>>

\* _apply_status: a late or a seen one is absorbed.
OnStatus ==
    /\ Handling("status")
    /\ LET m == Head(queue)
           row == rows[m.o]
       IN  IF IsTerminal(row) \/ SeenStatus(row, m.st)
           THEN /\ Dispatch(<<>>)
                /\ UNCHANGED <<config, signals, durable, memory, now, bounds, history>>
           ELSE IF ~MayEnter(row, m.st) THEN Faults
           ELSE /\ rows' = [rows EXCEPT ![m.o].st = m.st, ![m.o].entered = @ \cup {m.st}]
                /\ Dispatch(<<>>)
                /\ UNCHANGED <<config, signals, own, halted, watermark, memory, now,
                               bounds, history>>

AppliesAgain(boundary) == TRUE

\* The ledger's gate on an accrual.
AppliesFunding(boundary) == boundary > watermark

OnFunding ==
    /\ Handling("funding")
    /\ LET boundary == Head(queue).boundary
       IN  IF AppliesFunding(boundary)
           THEN watermark' = boundary /\ charged' = Append(charged, boundary)
           ELSE UNCHANGED <<watermark, charged>>
    /\ Dispatch(<<>>)
    /\ UNCHANGED <<config, signals, rows, own, halted, memory, now, bounds, fault, acked,
                   gap, owed, ghosted, crashed>>

\* The open-order cadence has found a working order without a status for the
\* whole of the ghost grace, which outlasts any queue, whatever fills the venue
\* remembers of it.
Ghost(o) ==
    /\ phase = "running" /\ queue = <<>> /\ o \notin ghosted
    /\ rows[o].st \in WorkingStates /\ o \notin venue.statuses
    /\ Publish(StatusReport(o, IF rows[o].cancel \/ rows[o].st = "PARTIALLY_FILLED"
                               THEN "CANCELLED" ELSE "REJECTED"))
    /\ ghosted' = ghosted \cup {o}
    /\ UNCHANGED <<config, signals, durable, memory, now, bounds, fault, acked, charged,
                   gap, owed, crashed>>

Next ==
    \/ FlushHeld \/ Commit \/ Crash \/ Restart \/ ReconcileStartup \/ BarrierClears
    \/ Advance \/ RunFunding
    \/ EmitPlace \/ EmitCancel \/ FeedTick \/ Trip \/ Reset \/ CrashInSwitch
    \/ SkipPlaced \/ Deny \/ PlaceOrder \/ CrashInPlace
    \/ OnCancel \/ OnTick \/ OnFill \/ OnStatus \/ OnFunding
    \/ \E o \in Orders : Ghost(o)

Spec == Init /\ [][Next]_vars
==============================================================================
