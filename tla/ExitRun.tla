------------------------------ MODULE ExitRun -------------------------------
(***************************************************************************)
(* The operator's flatten run (engine/exit_run.py) over a venue with       *)
(* account truth: cancel everything that rests, then one loop per symbol,  *)
(* all at once, that closes what the venue holds and books each fill over  *)
(* every partition; then the final read.  Hand trades, lost and refused    *)
(* answers, thin books, fills listed late and a crash at any step.         *)
(***************************************************************************)
EXTENDS FlattenSplit, SequencesExt

CONSTANTS Symbols, Unattributed,
          GiveUp,     \* dry attempts in a row that stop a symbol's loop
          Scenarios   \* where the run starts and what may go wrong

Strategies == Owners \ {Unattributed}

\* What the first run finds: no close, and orders that the stopped engine or a
\* hand has placed.
Found ==
    [id : Nat, kind : {"strategy", "hand"}, owner : Owners, side : {-1, 1},
     qty : Nat \ {0}, row : {"sent", "live", "ended", "none"},
     venue : {"wire", "resting", "gone"},
     record : {"none", "filled", "cancelled", "rejected"},
     exec : Nat, cum : Nat, seen : {-1}, split : {<<>>}]

ASSUME FlattenAssumption ==
    /\ Unattributed \in Owners
    /\ \A o \in Owners, p \in Owners : Rank[o] = Rank[p] => o = p
    /\ GiveUp \in Nat \ {0}
    /\ \A scene \in Scenarios :
          /\ scene.books \in [Symbols -> [Owners -> Int]]
          /\ scene.orders \in [Symbols -> Seq(Found)]

VARIABLES
    pos,      \* the venue's position in each symbol
    orders,   \* per symbol, the orders with an open row or alive at the venue
    books,    \* what each partition holds
    halted,   \* the kill switch's row
    main,     \* where the run is
    cancels,  \* the cancel-all: rounds sent, and the orders its last read shows
    loop,     \* where each symbol's loop is
    turn,     \* the loops inside a turn
    account,  \* the account pass: its snapshot, the symbols a fill touched
              \* since, and the gaps the last pass found
    left      \* what may still go wrong

venueVars == <<pos, orders>>
vars == <<pos, orders, books, halted, main, cancels, loop, turn, account, left>>

-----------------------------------------------------------------------------
(* Orders                                                                  *)

\* kind: a close of ours, an order of a strategy (its owner), or one placed by
\* hand.  row: sent, live, ended, or none.  venue: on the wire, resting or
\* gone; record is what the venue's record of a gone order says.  cum is what
\* the row has booked of what was executed, seen the total a shrunk order's
\* last read showed.  The sizes a close's row stores appear as the split they give.
NewClose(size, split) ==
    [id |-> 0, kind |-> "close", owner |-> Unattributed, side |-> -Sign(size),
     qty |-> Size(size), row |-> "sent", venue |-> "wire", record |-> "none",
     exec |-> 0, cum |-> 0, seen |-> -1, split |-> split]

Resting(id, kind, owner, size) ==
    [id |-> id, kind |-> kind, owner |-> owner, side |-> Sign(size),
     qty |-> Size(size), row |-> IF kind = "hand" THEN "none" ELSE "live",
     venue |-> "resting", record |-> "none", exec |-> 0, cum |-> 0, seen |-> -1,
     split |-> <<>>]

OpenRow(o) == o.row \in {"sent", "live"}
CanTrade(o) == o.venue \in {"wire", "resting"}

OpenRows(s) == {i \in DOMAIN orders[s] : OpenRow(orders[s][i])}

\* Orders nobody will ask about again are dropped from the model.
Kept(list) ==
    FoldLeft(LAMBDA kept, o : IF OpenRow(o) \/ CanTrade(o) THEN Append(kept, o) ELSE kept,
             <<>>, list)

\* One order of the symbol is now n.
Becomes(s, i, n) ==
    orders' = [orders EXCEPT ![s] = Kept([orders[s] EXCEPT ![i] = n])]

\* A reduce-only order is cut to the position it may shrink.
Room(o, position) ==
    IF o.kind # "close" THEN o.qty - o.exec
    ELSE IF o.side * position < 0
         THEN IF o.qty < Size(position) THEN o.qty ELSE Size(position)
         ELSE 0

\* A fill books into the partition its order names; a close's over all of them.
Booked(parts, o, upto) ==
    IF o.kind = "strategy"
    THEN [parts EXCEPT ![o.owner] = @ + o.side * (upto - o.cum)]
    ELSE [p \in Owners |-> parts[p] + o.split[upto][p] - o.split[o.cum][p]]

\* Fills that were listed are booked; the row is full at its quantity.
WithFills(o, listed) ==
    [o EXCEPT !.cum = listed, !.row = IF listed = o.qty THEN "ended" ELSE "live"]

\* A record that says filled moves no row, whatever the order asked for.
AdoptedAsFilled(o, listed) ==
    IF o.venue = "wire" \/ ~OpenRow(o) THEN o
    ELSE IF o.record = "none" /\ o.venue = "gone" THEN [o EXCEPT !.row = "ended"]
    ELSE IF o.record \in {"none", "filled"} THEN WithFills(o, listed)
    ELSE [WithFills(o, listed) EXCEPT !.row = "ended"]

\* A read by cloid: the fills first, then the record.  A record that says
\* filled moves no row; where the order was shrunk, the same total on two reads
\* ends it.  No record is a miss until the request can no longer land.
Adopted(o, listed) ==
    IF o.venue = "wire" \/ ~OpenRow(o) THEN o
    ELSE IF o.record = "none" /\ o.venue = "gone" THEN [o EXCEPT !.row = "ended"]
    ELSE LET filled == WithFills(o, listed)
         IN IF filled.row = "ended" \/ o.venue = "resting" THEN filled
            ELSE IF o.record # "filled" \/ o.seen = listed
                 THEN [filled EXCEPT !.row = "ended"]
                 ELSE [filled EXCEPT !.seen = listed]

-----------------------------------------------------------------------------
(* The books against the venue                                             *)

HeldIn(parts) == NetOf(parts)

GapsIn(b, snap) ==
    {[symbol |-> s, gap |-> snap[s] - HeldIn(b[s])] :
        s \in {t \in Symbols : snap[t] # HeldIn(b[t])}}

\* A gap is healed when no fill touched its symbol during the read, the last
\* pass found the same gap, and the venue has a price to book it at.
Healed(b, acc) ==
    {g \in GapsIn(b, acc.snap) :
        /\ g.symbol \notin acc.touched
        /\ g \in acc.previous
        /\ acc.snap[g.symbol] # 0}

Heal(b, healed) ==
    [s \in Symbols |->
        IF \E g \in healed : g.symbol = s
        THEN [b[s] EXCEPT ![Unattributed] =
                 @ + (CHOOSE g \in healed : g.symbol = s).gap]
        ELSE b[s]]

SeenGaps(b, acc) ==
    {g \in GapsIn(b, acc.snap) : g.symbol \notin acc.touched} \ Healed(b, acc)

-----------------------------------------------------------------------------
(* The start of a life                                                     *)

IdleLoop == [at |-> "out", size |-> 0, dry |-> 0, filled |-> FALSE, why |-> "none"]
NoCancels == [rounds |-> 0, shown |-> {}]
NoAccount == [snap |-> [s \in Symbols |-> 0], touched |-> {}, previous |-> {}]

memory == <<main, cancels, loop, turn, account>>

Init ==
    \E scene \in Scenarios :
        /\ books = scene.books
        /\ orders = scene.orders
        /\ pos = [s \in Symbols |-> NetOf(scene.books[s]) + scene.unknown[s]]
        /\ left = scene.left
        /\ halted = FALSE
        /\ main = "boot"
        /\ cancels = NoCancels
        /\ loop = [s \in Symbols |-> IdleLoop]
        /\ turn = {}
        /\ account = NoAccount

\* What a read of every open row leaves, when one order may lack its last fill.
Listed(s, i, short) ==
    orders[s][i].exec - (IF <<s, i>> = short THEN 1 ELSE 0)

ShortReads ==
    {<<>>} \cup UNION {{<<s, i>> : i \in {j \in DOMAIN orders[s] :
                                          /\ left.late > 0
                                          /\ orders[s][j].exec > orders[s][j].cum}} :
                       s \in Symbols}

AfterRead(s, short) ==
    [i \in DOMAIN orders[s] |-> Adopted(orders[s][i], Listed(s, i, short))]

\* The fills of all the rows on a symbol, booked one after the other.
BookAll(parts, old, new) ==
    FoldLeftDomain(LAMBDA b, i : IF new[i].cum = old[i].cum THEN b
                                 ELSE Booked(b, old[i], new[i].cum),
                   parts, old)

Grown(old, new) == \E i \in DOMAIN old : new[i].cum > old[i].cum

Spend(what) == left[what] > 0 /\ left' = [left EXCEPT ![what] = @ - 1]

\* One read of the open rows on the symbols in seen: what is booked, and which
\* loops had waited for it.
Adopts(seen, short) ==
    \E new \in {[s \in Symbols |-> IF s \in seen THEN AfterRead(s, short)
                                   ELSE orders[s]]} :
       /\ orders' = [s \in Symbols |-> Kept(new[s])]
       /\ books' = [s \in Symbols |-> BookAll(books[s], orders[s], new[s])]
       /\ account' = [account EXCEPT !.touched =
                         @ \cup {s \in Symbols : Grown(orders[s], new[s])}]

BootReads ==
    /\ main = "boot"
    /\ \A s \in Symbols : \A i \in DOMAIN orders[s] : orders[s][i].venue # "wire"
    /\ \E short \in ShortReads :
          /\ Adopts(Symbols, short)
          /\ IF short = <<>> THEN UNCHANGED left ELSE Spend("late")
    /\ main' = "trip"
    /\ UNCHANGED <<pos, halted, cancels, loop, turn>>

-----------------------------------------------------------------------------
(* The run: halt, cancel, close, read                                      *)

Trip ==
    /\ main = "trip"
    /\ halted' = TRUE /\ main' = "read"
    /\ UNCHANGED <<venueVars, books, cancels, loop, turn, account, left>>

Shown == UNION {{[symbol |-> s, id |-> orders[s][i].id] :
                    i \in {j \in DOMAIN orders[s] : orders[s][j].venue = "resting"}} :
                 s \in Symbols}

\* One cancel, then one more for whatever the read still shows.
ReadOrders ==
    /\ main = "read"
    /\ \/ /\ cancels' = [cancels EXCEPT !.shown = Shown]
          /\ main' = IF Shown = {} THEN "positions"
                     ELSE IF cancels.rounds = 2 THEN "stopped" ELSE "cancel"
          /\ UNCHANGED left
       \/ /\ main' = "stopped" /\ UNCHANGED cancels /\ Spend("failures")
    /\ UNCHANGED <<venueVars, books, halted, loop, turn, account>>

CancelledAt(list, s, which, answered) ==
    [i \in DOMAIN list |->
        IF [symbol |-> s, id |-> list[i].id] \in which /\ list[i].venue = "resting"
        THEN [list[i] EXCEPT !.venue = "gone", !.record = "cancelled",
                             !.row = IF answered /\ @ = "live" THEN "ended" ELSE @]
        ELSE list[i]]

\* The venue's answer ends the rows it cancelled; a batch whose answer is lost
\* may or may not have reached it.
CancelRound ==
    /\ main = "cancel"
    /\ main' = "read" /\ cancels' = [cancels EXCEPT !.rounds = @ + 1]
    /\ \/ /\ orders' = [s \in Symbols |->
                           Kept(CancelledAt(orders[s], s, cancels.shown, TRUE))]
          /\ UNCHANGED left
       \/ /\ \E which \in {{}, cancels.shown} :
                orders' = [s \in Symbols |->
                              Kept(CancelledAt(orders[s], s, which, FALSE))]
          /\ Spend("failures")
    /\ UNCHANGED <<pos, books, halted, loop, turn, account>>

\* The symbols the venue holds and those the books hold.
Concerned ==
    {s \in Symbols : pos[s] # 0 \/ \E o \in Owners : books[s][o] # 0}

ReadPositions ==
    /\ main = "positions"
    /\ \/ /\ main' = "loops"
          /\ loop' = [s \in Symbols |->
                         IF s \in Concerned
                         THEN [IdleLoop EXCEPT !.at = "resume", !.size = pos[s]]
                         ELSE IdleLoop]
          /\ UNCHANGED left
       \/ /\ main' = "stopped" /\ UNCHANGED loop /\ Spend("failures")
    /\ UNCHANGED <<venueVars, books, halted, cancels, turn, account>>

-----------------------------------------------------------------------------
(* One symbol's loop                                                       *)

At(s, place) == main = "loops" /\ loop[s].at = place

Goes(s, place) == [loop EXCEPT ![s].at = place]

\* One more dry attempt: the loop gives up, or goes on at place.
Dry(s, place) ==
    [loop EXCEPT ![s].dry = @ + 1,
                 ![s].at = IF loop[s].dry + 1 = GiveUp THEN "gave up" ELSE place]

\* A failed read is dry, unless the rate limit refused it: that is waited out.
ReadFailed(s, place) ==
    /\ Spend("failures")
    /\ loop' \in {Dry(s, place), Goes(s, place)}

\* The venue's size on the symbol.  Flat, it ends the loop and moves what the
\* strategies still hold; else the next attempt closes it.
LeftIs(s, size, next) ==
    IF size = 0
    THEN /\ books' = [books EXCEPT ![s] = Leftover(@, Unattributed)]
         /\ loop' = Goes(s, "over")
    ELSE /\ UNCHANGED books
         /\ loop' = [next EXCEPT ![s].size = size]

\* No row is waited for: the next attempt is sized by the venue anyway.
WaitsForNothing(s) == FALSE

\* Only a close is waited for.
WaitsForCloses(s) == \E i \in OpenRows(s) : orders[s][i].kind = "close"

\* A row of the symbol that is open, whoever placed it, is waited for.
Waits(s) == OpenRows(s) # {}

Resume(s) ==
    /\ At(s, "resume")
    /\ IF Waits(s)
       THEN /\ loop' = [loop EXCEPT ![s].at = "verdict", ![s].why = "none",
                                    ![s].filled = FALSE]
            /\ UNCHANGED books
       ELSE LeftIs(s, loop[s].size, Goes(s, "attempt"))
    /\ UNCHANGED <<venueVars, halted, main, cancels, turn, account, left>>

\* A turn is one close, one pass over the orders or one account pass.
MayTurn(s) == turn = {}

LoopsSee(old, new) ==
    [s \in Symbols |->
        [old[s] EXCEPT !.filled =
            @ \/ (old[s].at = "verdict" /\ new[s])]]

\* Both halves of a reconcile pass, over the rows of every symbol.
Pass(s) ==
    /\ At(s, "verdict") /\ Waits(s) /\ MayTurn(s)
    /\ \E short \in ShortReads :
          /\ Adopts(Symbols, short)
          /\ IF short = <<>> THEN UNCHANGED left ELSE Spend("late")
          /\ loop' = LoopsSee(loop, [t \in Symbols |->
                                        Grown(orders[t], AfterRead(t, short))])
    /\ UNCHANGED <<pos, halted, main, cancels, turn>>

\* A pass that stops at a failed read has handled the rows before it.
PassFails(s) ==
    /\ At(s, "verdict") /\ Waits(s) /\ MayTurn(s)
    /\ \E seen \in SUBSET (Symbols \ {s}) :
          /\ Adopts(seen, <<>>)
          /\ \E next \in {Dry(s, "verdict"), loop} :
                loop' = LoopsSee(next, [t \in Symbols |->
                            t \in seen /\ Grown(orders[t], AfterRead(t, <<>>))])
    /\ Spend("failures")
    /\ UNCHANGED <<pos, halted, main, cancels, turn>>

\* Any fill starts a new row of dry attempts.
DryAfter(l) == IF l.filled THEN 0 ELSE l.dry

Decided(s) ==
    /\ At(s, "verdict") /\ ~Waits(s)
    /\ loop' = [loop EXCEPT ![s].at = "left",
                            ![s].dry = DryAfter(loop[s]),
                            ![s].why = IF loop[s].filled THEN "none" ELSE @]
    /\ UNCHANGED <<venueVars, books, halted, main, cancels, turn, account, left>>

\* No price yet, or the books and the venue disagree, or a close goes out.
Attempt(s) ==
    /\ At(s, "attempt")
    /\ \/ /\ loop' = Goes(s, IF HeldIn(books[s]) = loop[s].size THEN "close" ELSE "gap 1")
          /\ UNCHANGED left
       \/ /\ loop' = [loop EXCEPT ![s].at = "left", ![s].why = "dry"]
          /\ Spend("failures")
    /\ UNCHANGED <<venueVars, books, halted, main, cancels, turn, account>>

\* After an account pass: the gap is gone, a second pass is due, or the attempt
\* was dry.
AfterGap(s, b) ==
    IF HeldIn(b[s]) = loop[s].size THEN Goes(s, "close")
    ELSE IF loop[s].at = "gap 1" THEN Goes(s, "gap 2")
    ELSE [loop EXCEPT ![s].at = "left", ![s].why = "dry"]

AtGap(s) == At(s, "gap 1") \/ At(s, "gap 2")

AccountRead(s) ==
    /\ AtGap(s) /\ s \notin turn /\ MayTurn(s)
    /\ turn' = turn \cup {s}
    /\ account' = [account EXCEPT !.snap = pos, !.touched = {}]
    /\ UNCHANGED <<venueVars, books, halted, main, cancels, loop, left>>

AccountJudged(s) ==
    /\ AtGap(s) /\ s \in turn
    /\ turn' = turn \ {s}
    /\ LET healed == Healed(books, account)
       IN /\ books' = Heal(books, healed)
          /\ account' = [NoAccount EXCEPT !.previous = SeenGaps(books, account)]
    /\ loop' = AfterGap(s, books')
    /\ UNCHANGED <<venueVars, halted, main, cancels, left>>

AccountFails(s) ==
    /\ AtGap(s) /\ s \in turn
    /\ turn' = turn \ {s} /\ loop' = AfterGap(s, books)
    /\ account' = [NoAccount EXCEPT !.previous = account.previous]
    /\ Spend("failures")
    /\ UNCHANGED <<venueVars, books, halted, main, cancels>>

\* One reduce-only order for the whole of size.  The partitions' sizes ride the
\* write-ahead row; an order the split cannot book is denied.
Close(s) ==
    /\ At(s, "close") /\ MayTurn(s)
    /\ IF SplitRefused(books[s], -Sign(loop[s].size), Size(loop[s].size))
       THEN /\ loop' = [loop EXCEPT ![s].at = "verdict", ![s].why = "dry",
                                    ![s].filled = FALSE]
            /\ UNCHANGED <<orders, turn>>
       ELSE \E split \in {Totals(books[s], Size(loop[s].size))} :
               /\ orders' = [orders EXCEPT ![s] =
                                Append(@, NewClose(loop[s].size, split))]
               /\ turn' = turn \cup {s}
               /\ loop' = [loop EXCEPT ![s].at = "sent", ![s].why = "dry",
                                       ![s].filled = FALSE]
    /\ UNCHANGED <<pos, books, halted, main, cancels, account, left>>

\* The placement's answer.  A filled one is acknowledged, its fills are read,
\* and a total that falls short of the order with every fill listed ends it.
Placed(o, listed) ==
    IF o.exec = 0 THEN [o EXCEPT !.row = "ended"]
    ELSE LET filled == WithFills(o, listed)
         IN IF listed = o.exec THEN [filled EXCEPT !.row = "ended"] ELSE filled

Answered(s, o, new) ==
    /\ Becomes(s, Len(orders[s]), new)
    /\ books' = [books EXCEPT ![s] = IF new.cum = 0 THEN @ ELSE Booked(@, o, new.cum)]
    /\ account' = [account EXCEPT !.touched =
                      IF new.cum = 0 THEN @ ELSE @ \cup {s}]
    /\ turn' = turn \ {s}

Answer(s) ==
    /\ At(s, "sent")
    /\ LET o == Last(orders[s])
       IN /\ o.venue = "gone"
          /\ \E listed \in {o.exec, o.exec - 1} :
                /\ listed >= 0
                /\ IF listed = o.exec THEN UNCHANGED left ELSE Spend("late")
                /\ Answered(s, o, Placed(o, listed))
                /\ loop' = [loop EXCEPT ![s].at = "verdict", ![s].filled = listed > 0]
    /\ UNCHANGED <<pos, halted, main, cancels>>

\* A rate limit is waited out and not counted.
NoAnswer(s) == \E why \in {"dry", "none"} :
                  loop' = [loop EXCEPT ![s].at = "verdict", ![s].why = why]

\* The fills cannot be read, the venue refuses the action, or the answer is
\* lost with the order landed, on its way or lost too.
AnswerFails(s) ==
    /\ At(s, "sent")
    /\ LET o == Last(orders[s])
       IN \/ /\ o.exec > 0
             /\ Answered(s, o, [o EXCEPT !.row = "live"])
             /\ loop' = Goes(s, "verdict")
          \/ /\ o.venue = "wire"
             /\ Answered(s, o, [o EXCEPT !.venue = "gone"])
             /\ NoAnswer(s)
          \/ Answered(s, o, o) /\ NoAnswer(s)
    /\ Spend("failures")
    /\ UNCHANGED <<pos, halted, main, cancels>>

\* What the venue still holds decides what comes next.
ReadLeft(s) ==
    /\ At(s, "left")
    /\ LeftIs(s, pos[s], IF loop[s].why = "dry" THEN Dry(s, "attempt")
                         ELSE Goes(s, "attempt"))
    /\ UNCHANGED <<venueVars, halted, main, cancels, turn, account, left>>

ReadLeftFails(s) ==
    /\ At(s, "left")
    /\ ReadFailed(s, "left")
    /\ UNCHANGED <<venueVars, books, halted, main, cancels, turn, account>>

LoopStep(s) ==
    \/ Resume(s) \/ Pass(s) \/ PassFails(s) \/ Decided(s) \/ Attempt(s)
    \/ AccountRead(s) \/ AccountJudged(s) \/ AccountFails(s)
    \/ Close(s) \/ Answer(s) \/ AnswerFails(s) \/ ReadLeft(s) \/ ReadLeftFails(s)

-----------------------------------------------------------------------------
(* The final read                                                          *)

LoopsEnd ==
    /\ main = "loops"
    /\ \A s \in Symbols : loop[s].at \in {"out", "over", "gave up"}
    /\ main' = "final orders"
    /\ UNCHANGED <<venueVars, books, halted, cancels, loop, turn, account, left>>

FinalOrders ==
    /\ main = "final orders"
    /\ \/ /\ main' = "final positions"
          /\ cancels' = [cancels EXCEPT !.shown = Shown]
          /\ UNCHANGED left
       \/ /\ main' = "stopped" /\ UNCHANGED cancels /\ Spend("failures")
    /\ UNCHANGED <<venueVars, books, halted, loop, turn, account>>

\* A loop that gave up is not asked about.
OutcomeOfTheRead ==
    IF cancels.shown = {} /\ \A s \in Symbols : pos[s] = 0
    THEN "done" ELSE "stopped"

\* Done only when nothing rests, nothing is held and no loop gave up.
Outcome ==
    IF /\ cancels.shown = {}
       /\ \A s \in Symbols : pos[s] = 0
       /\ \A s \in Symbols : loop[s].at # "gave up"
    THEN "done" ELSE "stopped"

FinalPositions ==
    /\ main = "final positions"
    /\ \/ main' = Outcome /\ UNCHANGED left
       \/ main' = "stopped" /\ Spend("failures")
    /\ UNCHANGED <<venueVars, books, halted, cancels, loop, turn, account>>

-----------------------------------------------------------------------------
(* The venue, the operator's hand, and the end of a life                   *)

Fate(o, exec, room) ==
    IF exec = 0 THEN "rejected"
    ELSE IF exec = o.qty \/ exec = room THEN "filled" ELSE "cancelled"

Traded(o, lots, fate, where) ==
    [o EXCEPT !.exec = @ + lots, !.record = fate, !.venue = where]

Executes(s, i, lots, fate, where) ==
    /\ Becomes(s, i, Traded(orders[s][i], lots, fate, where))
    /\ pos' = [pos EXCEPT ![s] = @ + orders[s][i].side * lots]

\* A close takes what it can reduce, or less where the book is thin, and ends.
Lands(s, i) ==
    /\ orders[s][i].venue = "wire"
    /\ LET room == Room(orders[s][i], pos[s])
       IN \E exec \in 0 .. room :
             /\ Executes(s, i, exec, Fate(orders[s][i], exec, room), "gone")
             /\ IF exec = room THEN UNCHANGED left ELSE Spend("thin")
    /\ UNCHANGED <<books, halted, memory>>

\* A request nobody has an answer to may be lost.
Lost(s, i) ==
    /\ orders[s][i].venue = "wire"
    /\ ~(loop[s].at = "sent" /\ i = Len(orders[s]))
    /\ Becomes(s, i, [orders[s][i] EXCEPT !.venue = "gone"])
    /\ UNCHANGED <<pos, books, halted, memory, left>>

RestingFills(s, i) ==
    /\ orders[s][i].venue = "resting"
    /\ LET full == orders[s][i].exec + 1 = orders[s][i].qty
       IN Executes(s, i, 1, IF full THEN "filled" ELSE "none",
                   IF full THEN "gone" ELSE "resting")
    /\ UNCHANGED <<books, halted, memory, left>>

HandTrade(s) ==
    /\ Spend("trades")
    /\ \E side \in {-1, 1} : pos' = [pos EXCEPT ![s] = @ + side]
    /\ UNCHANGED <<orders, books, halted, memory>>

\* Killed, or run again: what is on the wire and what is stored stays.
Crash ==
    /\ main # "boot" /\ Spend("crashes")
    /\ main' = "boot" /\ cancels' = NoCancels /\ turn' = {}
    /\ loop' = [s \in Symbols |-> IdleLoop] /\ account' = NoAccount
    /\ orders' = [s \in Symbols |->
                     [i \in DOMAIN orders[s] |-> [orders[s][i] EXCEPT !.seen = -1]]]
    /\ UNCHANGED <<pos, books, halted>>

Venue ==
    \E s \in Symbols :
        \/ \E i \in DOMAIN orders[s] : Lands(s, i) \/ Lost(s, i) \/ RestingFills(s, i)
        \/ HandTrade(s)

Run ==
    \/ BootReads \/ Trip \/ ReadOrders \/ CancelRound \/ ReadPositions
    \/ LoopsEnd \/ FinalOrders \/ FinalPositions

Next == Run \/ (\E s \in Symbols : LoopStep(s)) \/ Venue \/ Crash

Spec == Init /\ [][Next]_vars

Arrives(s) == \E i \in DOMAIN orders[s] : Lands(s, i) \/ Lost(s, i)

\* The event loop runs every task that can go on, and what is on the wire
\* arrives or is lost.
Fairness ==
    /\ WF_vars(Run)
    /\ \A s \in Symbols :
          /\ WF_vars(Resume(s)) /\ WF_vars(Pass(s)) /\ WF_vars(Decided(s))
          /\ WF_vars(Attempt(s)) /\ WF_vars(AccountRead(s))
          /\ WF_vars(AccountJudged(s)) /\ WF_vars(Close(s)) /\ WF_vars(Answer(s))
          /\ WF_vars(ReadLeft(s)) /\ WF_vars(Arrives(s))

FairSpec == Spec /\ Fairness
=============================================================================
