------------------------------- MODULE Valuation -------------------------------
(***************************************************************************)
(* What the account reads as: the partitions behind every symbol, the      *)
(* isolated buckets, and the figures a strategy, the guard and the account *)
(* reconcile are given, on paper and on a live venue.                      *)
(*                                                                         *)
(* A position keeps its entry price, as the code does; Ledger keeps the    *)
(* cost basis, and BooksBalance is why it may.  Money and sizes are small  *)
(* integers; a division that is not exact rounds down.  What is not known  *)
(* is None, and a figure built on it is None too.                          *)
(*                                                                         *)
(* When a fill is heard, healed or paid for is the business of SagaEngine, *)
(* PaperVenue and Ledger: here each may happen at any time.                *)
(*                                                                         *)
(* An operator that stands before the one it is named after is a plausible *)
(* bug in it, for the sensitivity runs; no specification uses it.          *)
(***************************************************************************)
EXTENDS Integers, Sequences, FiniteSets, FiniteSetsExt, SequencesExt

CONSTANTS
    None,
    Symbols,
    Isolated,       \* the symbols margined isolated; the others are cross
    Strategies,
    Unattributed,   \* the reserved partition that heals book into
    Rank,           \* stands for the sort of the owners' names
    Leverage,       \* of each symbol
    MaintNum, MaintDen,     \* InstrumentSpec.margin_maint, a fraction
    Genesis,        \* the opening cash
    Fee,            \* of a fill
    Scenes,         \* whether the account is paper, and what is traded in it
    Lock,           \* what the venue locks behind an isolated position of a size
    Buckets,        \* what anybody may make of it afterwards
    Payments,       \* funding payments
    MaxFills, MaxPayments, MaxReads, MaxTopUps, MaxRestarts     \* bounds

ASSUME ValuationAssumption ==
    /\ Isolated \subseteq Symbols
    /\ Unattributed \notin Strategies
    /\ Leverage \in [Symbols -> Nat \ {0}]
    /\ MaintNum \in Nat \ {0} /\ MaintDen \in Nat /\ MaintNum < MaintDen
    /\ Genesis \in Nat /\ Fee \in Nat
    /\ Lock[0] = 0 /\ Buckets \subseteq Nat /\ Payments \subseteq Int
    /\ {MaxFills, MaxPayments, MaxReads, MaxTopUps, MaxRestarts} \subseteq Nat

Owners == Strategies \cup {Unattributed}

ByName(o, p) == Rank[o] < Rank[p]

VARIABLES
    scene,      \* paper or live, the symbols traded, sizes and prices
    owner,      \* the strategy that trades each symbol in this life
    book,       \* the partitions, the order they were filed in, and the cash
    marks,      \* the last mark of each symbol, None before the first
    venue,      \* live: net size and bucket of each symbol, at the venue
    unread,     \* live: fills on their way to the ledger
    snap,       \* live: the account read the cadence holds, or None
    touched,    \* symbols a fill moved since that read
    spent,      \* how much of each bound is used up
    trail       \* history, see below

vars == <<scene, owner, book, marks, venue, unread, snap, touched, spent, trail>>
venueVars == <<venue, unread, snap, touched>>

\* trail.paid    the cash the booked trades, fees and payments came to
\* trail.nobody  funding that no partition held the symbol for
\* trail.unseen  symbols whose ledger net no account read has shown yet
\* trail.parted  symbols one partition has left while another still held
\* trail.posted  the bucket each symbol's last account read brought

--------------------------------------------------------------------------------
(* Average-cost accounting: Position._book                                  *)

Abs(n) == IF n < 0 THEN -n ELSE n
Sign(n) == IF n < 0 THEN -1 ELSE 1

FlatPart == [size |-> 0, entry |-> 0, realized |-> 0, fees |-> 0,
             funding |-> 0, bucket |-> 0]

Against(part, q) == part.size * q < 0
Closes(part, q) == Against(part, q) /\ Abs(q) >= Abs(part.size)
Flips(part, q) == Against(part, q) /\ Abs(q) > Abs(part.size)
Opens(part, q) == part.size = 0 \/ Flips(part, q)

Mean(part, q, px) ==
    (part.entry * Abs(part.size) + px * Abs(q)) \div (Abs(part.size) + Abs(q))

\* A flip keeps the old leg's entry.
EntryKeptOnFlip(part, q, px) ==
    IF part.size = 0 THEN px
    ELSE IF ~Against(part, q) THEN Mean(part, q, px)
    ELSE IF part.size + q = 0 THEN 0 ELSE part.entry

EntryAfter(part, q, px) ==
    IF Opens(part, q) THEN px
    ELSE IF Closes(part, q) THEN 0
    ELSE IF Against(part, q) THEN part.entry ELSE Mean(part, q, px)

\* The closed part, at the old entry.
Realizes(part, q, px) ==
    IF Against(part, q)
    THEN (px - part.entry) * Min({Abs(part.size), Abs(q)}) * Sign(part.size)
    ELSE 0

\* Paper locks what the open put in; a live bucket is not known until the venue
\* posts it again.  A close releases it, whatever the mode.
BucketAfter(s, part, q, px) ==
    IF s \in Isolated /\ Opens(part, q) /\ scene.paper
    THEN (Abs(part.size + q) * px) \div Leverage[s]
    ELSE IF s \in Isolated /\ ~scene.paper /\ part.size + q # 0 THEN None
    ELSE IF Closes(part, q) THEN 0 ELSE part.bucket

\* One fill in its partition.
Booked(s, part, q, px, fee) ==
    [part EXCEPT !.size = @ + q,
                 !.entry = EntryAfter(part, q, px),
                 !.realized = @ + Realizes(part, q, px),
                 !.fees = @ + fee,
                 !.bucket = BucketAfter(s, part, q, px)]

FoldFill(b, o, s, q, px, fee) ==
    [b EXCEPT !.part[o][s] = Booked(s, @, q, px, fee),
              !.filed[s] = IF o \in ToSet(@) THEN @ ELSE Append(@, o),
              !.cash = @ + Realizes(b.part[o][s], q, px) - fee]

--------------------------------------------------------------------------------
(* What one partition's share of an amount of the symbol is                 *)

Held(b, s) == {o \in ToSet(b.filed[s]) : b.part[o][s].size # 0}

Net(b, s) == MapThenSumSet(LAMBDA o : b.part[o][s].size, Owners)

\* Pro rata, and the last partition takes what is left of the amount.
ProRata(amount, weight, across) ==
    LET total == MapThenSumSet(LAMBDA o : weight[o], ToSet(across))
        quotient(o) == (Sign(total) * amount * weight[o]) \div Abs(total)
        others == ToSet(across) \ {Last(across)}
    IN  [o \in ToSet(across) |->
            IF o \in others THEN quotient(o)
            ELSE amount - MapThenSumSet(quotient, others)]

\* Funding, by signed size, over the partitions that hold the symbol.
FoldPayment(b, s, amount) ==
    LET across == SelectSeq(b.filed[s], LAMBDA o : o \in Held(b, s))
        shares == ProRata(amount, [o \in ToSet(across) |-> b.part[o][s].size], across)
    IN  [b EXCEPT
            !.cash = @ + amount,
            !.part = [o \in Owners |->
                [@[o] EXCEPT ![s].funding =
                    IF Net(b, s) # 0 /\ o \in ToSet(across) THEN @ + shares[o] ELSE @]]]

\* A bucket, by size regardless of direction, over every partition filed.
Shares(b, s, bucket) ==
    IF Held(b, s) = {} THEN [o \in ToSet(b.filed[s]) |-> 0]
    ELSE ProRata(bucket, [o \in ToSet(b.filed[s]) |-> Abs(b.part[o][s].size)], b.filed[s])

\* A snapshot that is not asked whether it shows the position we hold.
IngestAny(b, snapshot) ==
    [b EXCEPT !.part = [o \in Owners |-> [s \in Symbols |->
        IF o \in ToSet(b.filed[s])
        THEN [@[o][s] EXCEPT !.bucket = Shares(b, s, snapshot[s].bucket)[o]]
        ELSE @[o][s]]]]

\* The snapshot shows the position of the partitions filed: one that this pass's heal
\* has opened is not filed yet.
Carries(b, snapshot, s) ==
    snapshot[s].net = MapThenSumSet(LAMBDA o : b.part[o][s].size, ToSet(b.filed[s]))

\* A bucket that is not posted waits for a snapshot that carries our position.
Ingest(b, snapshot) ==
    [b EXCEPT !.part = [o \in Owners |-> [s \in Symbols |->
        IF /\ o \in ToSet(b.filed[s])
           /\ b.part[o][s].bucket = None => Carries(b, snapshot, s)
        THEN [@[o][s] EXCEPT !.bucket = Shares(b, s, snapshot[s].bucket)[o]]
        ELSE @[o][s]]]]

--------------------------------------------------------------------------------
(* The figures, of a book at some marks                                     *)

Plus(a, b) == IF a = None \/ b = None THEN None ELSE a + b
Minus(a, b) == IF a = None \/ b = None THEN None ELSE a - b

\* One unknown term makes the sum unknown.
Total(Term(_), S) ==
    IF \E x \in S : Term(x) = None THEN None ELSE MapThenSumSet(Term, S)

UnrealizedPnl(b, m, s) ==
    IF m[s] = None THEN IF Held(b, s) = {} THEN 0 ELSE None
    ELSE MapThenSumSet(LAMBDA o : b.part[o][s].size * (m[s] - b.part[o][s].entry), Owners)

Notional(b, m, s) ==
    IF Net(b, s) = 0 THEN 0
    ELSE IF m[s] = None THEN None ELSE Abs(Net(b, s)) * m[s]

Bucket(b, s) == Total(LAMBDA o : b.part[o][s].bucket, Owners)

Equity(b, m) == Plus(b.cash, Total(LAMBDA s : UnrealizedPnl(b, m, s), Symbols))

\* What stands behind a position: its own bucket marked to market, or the pool.
BackingCollateral(b, m, s) ==
    IF s \in Isolated THEN Plus(Bucket(b, s), UnrealizedPnl(b, m, s)) ELSE Equity(b, m)

MarginUsed(b, m, s) ==
    IF s \in Isolated THEN BackingCollateral(b, m, s)
    ELSE IF Notional(b, m, s) = None THEN None
    ELSE Notional(b, m, s) \div Leverage[s]

MaintenanceMargin(b, m, s) ==
    IF Notional(b, m, s) = None THEN None
    ELSE (Notional(b, m, s) * MaintNum) \div MaintDen

TotalMaintenance(b, m) == Total(LAMBDA s : MaintenanceMargin(b, m, s), Symbols)

\* A cross position answers for itself alone.
OwnMaintenance(b, m, s) == MaintenanceMargin(b, m, s)

\* What is owed on the pool that the backing is drawn from.
LiquidationMaintenance(b, m, s) ==
    IF s \in Isolated THEN MaintenanceMargin(b, m, s) ELSE TotalMaintenance(b, m)

FreeMargin(b, m) ==
    Minus(Equity(b, m), Total(LAMBDA s : MarginUsed(b, m, s), Symbols))

\* mark - side * available / size / (1 - rate * side), a fraction.
Fraction(b, m, s) ==
    LET side == Sign(Net(b, s))
        size == Abs(Net(b, s))
        keeps == MaintDen - MaintNum * side
        available == BackingCollateral(b, m, s) - LiquidationMaintenance(b, m, s)
    IN  [num |-> m[s] * size * keeps - side * available * MaintDen, den |-> size * keeps]

Solvable(b, m, s) ==
    /\ Net(b, s) # 0 /\ m[s] # None
    /\ BackingCollateral(b, m, s) # None /\ LiquidationMaintenance(b, m, s) # None

\* A level at or below zero is none.
LiquidationPrice(b, m, s) ==
    IF Solvable(b, m, s) /\ Fraction(b, m, s).num > 0 THEN Fraction(b, m, s) ELSE None

--------------------------------------------------------------------------------
(* Steps                                                                    *)

Init ==
    /\ scene \in Scenes
    /\ owner = [s \in Symbols |-> CHOOSE o \in Strategies : TRUE]
    /\ book = [part |-> [o \in Owners |-> [s \in Symbols |-> FlatPart]],
               filed |-> [s \in Symbols |-> <<>>],
               cash |-> Genesis]
    /\ marks = [s \in Symbols |-> None]
    /\ venue = [s \in Symbols |-> [net |-> 0, bucket |-> 0]]
    /\ unread = <<>>
    /\ snap = None
    /\ touched = {}
    /\ spent = [fills |-> 0, payments |-> 0, reads |-> 0, topUps |-> 0, restarts |-> 0]
    /\ trail = [paid |-> 0, nobody |-> 0, unseen |-> {}, parted |-> {},
                posted |-> [s \in Symbols |-> 0]]

\* The history of a fill that the ledger books.
Remembers(o, s, q, px, fee) ==
    trail' = [trail EXCEPT
        !.paid = @ - q * px - fee,
        !.unseen = @ \cup {s},
        !.parted = IF Closes(book.part[o][s], q) /\ Held(book, s) # {o}
                   THEN @ \cup {s} ELSE @]

\* The paper venue trades and the ledger books it.
PaperFill(s, q, px) ==
    /\ scene.paper /\ s \in scene.symbols /\ q \in scene.sizes /\ px \in scene.prices
    /\ spent.fills < MaxFills
    /\ book' = FoldFill(book, owner[s], s, q, px, Fee)
    /\ Remembers(owner[s], s, q, px, Fee)
    /\ spent' = [spent EXCEPT !.fills = @ + 1]
    /\ UNCHANGED <<scene, owner, marks, venueVars>>

\* A trade at a live venue, the engine's own or somebody else's.
VenueTrades(s, q, px, own) ==
    /\ ~scene.paper /\ s \in scene.symbols /\ q \in scene.sizes /\ px \in scene.prices
    /\ spent.fills < MaxFills
    /\ LET net == venue[s].net + q
       IN  venue' = [venue EXCEPT ![s] =
                        [net |-> net, bucket |-> IF s \in Isolated THEN Lock[Abs(net)] ELSE 0]]
    /\ unread' = IF own THEN Append(unread, [o |-> owner[s], s |-> s, q |-> q, px |-> px])
                 ELSE unread
    /\ spent' = [spent EXCEPT !.fills = @ + 1]
    /\ UNCHANGED <<scene, owner, book, marks, snap, touched, trail>>

\* Somebody tops a bucket up, or takes from it.
VenueMovesBucket(s, b) ==
    /\ ~scene.paper /\ s \in Isolated /\ venue[s].net # 0
    /\ spent.topUps < MaxTopUps
    /\ venue' = [venue EXCEPT ![s].bucket = b]
    /\ spent' = [spent EXCEPT !.topUps = @ + 1]
    /\ UNCHANGED <<scene, owner, book, marks, unread, snap, touched, trail>>

\* A report of a live fill reaches the ledger.
FillArrives ==
    /\ unread # <<>>
    /\ LET f == Head(unread)
       IN  /\ book' = FoldFill(book, f.o, f.s, f.q, f.px, Fee)
           /\ Remembers(f.o, f.s, f.q, f.px, Fee)
           /\ touched' = touched \cup {f.s}
    /\ unread' = Tail(unread)
    /\ UNCHANGED <<scene, owner, marks, venue, snap, spent>>

\* The account cadence has the venue's answer, but not yet the drain's turn.
ReadsAccount ==
    /\ ~scene.paper /\ snap = None /\ spent.reads < MaxReads
    /\ snap' = venue
    /\ touched' = {}
    /\ spent' = [spent EXCEPT !.reads = @ + 1]
    /\ UNCHANGED <<scene, owner, book, marks, venue, unread, trail>>

\* The sizes that a pass may heal: seen at a price, and no fill of them is on its
\* way (Ledger: HealsWaitForFacts).
Healable ==
    {s \in Symbols \ touched :
        /\ snap[s].net # Net(book, s) /\ snap[s].net # 0
        /\ \A i \in DOMAIN unread : unread[i].s # s}

Healed(b, S, px) ==
    [b EXCEPT
        !.part[Unattributed] = [s \in Symbols |->
            IF s \in S THEN Booked(s, @[s], snap[s].net - Net(b, s), px, 0) ELSE @[s]],
        !.cash = @ + MapThenSumSet(LAMBDA s :
            Realizes(b.part[Unattributed][s], snap[s].net - Net(b, s), px), S)]

\* project_heal, once the write has landed.
Filed(b, S) ==
    [b EXCEPT !.filed = [s \in Symbols |->
        IF s \in S /\ Unattributed \notin ToSet(@[s]) THEN Append(@[s], Unattributed)
        ELSE @[s]]]

\* A pass heals the sizes it has confirmed and takes the buckets, in one write.
Reconciles(S, px) ==
    /\ snap # None
    /\ S \subseteq Healable
    /\ book' = Filed(Ingest(Healed(book, S, px), snap), S)
    /\ trail' = [trail EXCEPT
          !.paid = @ - MapThenSumSet(LAMBDA s : (snap[s].net - Net(book, s)) * px, S),
          !.unseen = (@ \cup S) \ {s \in Symbols : snap[s].net = Net(book', s)},
          !.parted = @ \ {s \in Symbols : snap[s].net = Net(book', s)},
          !.posted = [s \in Symbols |-> snap[s].bucket]]
    /\ snap' = None
    /\ touched' = {}
    /\ UNCHANGED <<scene, owner, marks, venue, unread, spent>>

\* A boundary settles; the gates that let it in once are Ledger's.
Funds(s, amount) ==
    /\ s \in scene.symbols /\ spent.payments < MaxPayments
    /\ book' = FoldPayment(book, s, amount)
    /\ trail' = [trail EXCEPT
          !.paid = @ + amount,
          !.nobody = IF Net(book, s) = 0 THEN @ + amount ELSE @]
    /\ spent' = [spent EXCEPT !.payments = @ + 1]
    /\ UNCHANGED <<scene, owner, marks, venueVars>>

ObservesMark(s, px) ==
    /\ s \in scene.symbols /\ px \in scene.prices
    /\ marks' = [marks EXCEPT ![s] = px]
    /\ UNCHANGED <<scene, owner, book, venueVars, spent, trail>>

\* The rows come back in the order of their owners' names, the marks do not; another
\* strategy may own a symbol in the next life.
Restart ==
    /\ spent.restarts < MaxRestarts
    /\ \E o \in Strategies : owner' = [s \in Symbols |-> o]
    /\ book' = [book EXCEPT !.filed = [s \in Symbols |-> SetToSortSeq(ToSet(@[s]), ByName)]]
    /\ marks' = [s \in Symbols |-> None]
    /\ snap' = None
    /\ touched' = {}
    /\ spent' = [spent EXCEPT !.restarts = @ + 1]
    /\ UNCHANGED <<scene, venue, unread, trail>>

Next ==
    \/ \E s \in Symbols, q \in scene.sizes, px \in scene.prices :
          \/ PaperFill(s, q, px)
          \/ \E own \in BOOLEAN : VenueTrades(s, q, px, own)
    \/ \E s \in Symbols, b \in Buckets : VenueMovesBucket(s, b)
    \/ FillArrives
    \/ ReadsAccount
    \/ \E S \in SUBSET Symbols, px \in scene.prices : Reconciles(S, px)
    \/ \E s \in Symbols, amount \in Payments : Funds(s, amount)
    \/ \E s \in Symbols, px \in scene.prices : ObservesMark(s, px)
    \/ Restart

Spec == Init /\ [][Next]_vars
================================================================================
