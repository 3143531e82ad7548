--------------------------- MODULE PaperProperties ---------------------------
(***************************************************************************)
(* The correctness properties of PaperVenue.                               *)
(***************************************************************************)
EXTENDS PaperVenue

\* What is published and not committed, in the order the store handles it.
Log == queue \o held

\* The i-th of it is a fill the store has still to apply.  A fill published again
\* by a redelivered tick carries the id of the first.
IsAhead(i) ==
    /\ Log[i].k = "fill" /\ Log[i].n \notin rows[Log[i].o].trades
    /\ \A j \in 1..(i - 1) : ~(Log[j].k = "fill" /\ Log[j].o = Log[i].o /\ Log[j].n = Log[i].n)

Signed(m) == Direction(Side(m.o)) * m.size

\* The account net once the fills among the first i of the log are applied.
NetAfter ==
    LET net[i \in 0..Len(Log)] ==
            IF i = 0 THEN StoreNet
            ELSE net[i - 1] + (IF IsAhead(i) THEN Signed(Log[i]) ELSE 0)
    IN  net

\* No process was killed, and the reconciler ended no order as a ghost.
Undisturbed == ~crashed /\ ghosted = {}

\* A fill of a reduce-only order shrinks the account net and never crosses
\* zero, by the net the store holds when it applies the fill: whatever fills
\* are still queued ahead of it, of however many orders (ADR-0057, _net).
ReduceOnlyReduces ==
    Undisturbed =>
        \A i \in 1..Len(Log) :
            IsAhead(i) /\ signals[Log[i].o].reduceOnly =>
                Shrinks(NetAfter[i - 1], NetAfter[i])

\* After a crash on Kafka a tick is redelivered in front of the fill it made: a
\* stochastic fill, a share of the part still open, may be made again under its
\* own trade id in another size.
RemadeInAnotherSize == kafka /\ crashed /\ stochastic

\* After a crash on Kafka a status may still be in the log that the rebuilt book
\* does not know of, and a reduce-only order may have shrunk.
Comparable ==
    IF kafka /\ crashed
    THEN {o \in venue.statuses : /\ ~signals[o].reduceOnly /\ rows[o].st # "CANCELLED"
                                 /\ ~RemadeInAnotherSize \/ rows[o].trades = {}}
    ELSE Orders

\* Once every report is handled the venue's book and the rows agree: an order
\* works in its row exactly when it rests, with the same part still open; only
\* a reduce-only order may work less (_place_limit, start(), _on_fill_report).
BookMatchesRows ==
    phase = "running" /\ queue = <<>> =>
        \A o \in Comparable \ ghosted :
            /\ RestsAtVenue(o) <=> Resting(venue, o) # {}
            /\ RestsAtVenue(o) =>
                  LET left == Entry(venue, o).working - Entry(venue, o).filled
                  IN  IF signals[o].reduceOnly THEN left <= OpenPart(o)
                      ELSE left = OpenPart(o)

\* Nothing was held beyond the cap at the start, nor is by the other partitions
\* alone: a reduce-only order skips the cap, and is judged by its own worst case.
HoldingsFit ==
    \A h \in Holdings : Abs(h.own + h.other) <= MaxPosition /\ Abs(h.other) <= MaxPosition

\* Whatever is open and in flight, no order of fills takes a position that
\* began within the cap beyond it (guard.py's worst case).  A fill made again in
\* another size may be one too many; the row, full by then, refuses it.
WithinCap ==
    HoldingsFit /\ ghosted = {} =>
        /\ Abs(StoreNet) <= MaxPosition
        /\ Abs(NetAfter[Len(Log)]) <= MaxPosition \/ RemadeInAnotherSize

\* A row that is placed in a step, its order not refused.
Places(o) == rows[o].st = "none" /\ rows'[o].st \notin {"none", "DENIED"}

\* From the moment a trip has returned nothing is placed until a reset begins,
\* through crashes and restarts (guard.py, _set_kill_switch and __init__).
HaltHolds == [][acked => \A o \in Orders : ~Places(o)]_vars

\* A funding boundary is charged once, in order, whatever is redelivered, and
\* never when it passed while nothing ran; and one that passes with a position
\* held is charged, a clock jump across several included (run_funding,
\* funding_boundaries, the ledger's watermark).
FundingIsExact ==
    /\ \A i, j \in DOMAIN charged : i < j => charged[i] < charged[j]
    /\ ToSet(charged) \cap gap = {}
    /\ phase = "running" /\ queue = <<>> /\ settled = now => owed \subseteq ToSet(charged)

\* ADR-0011: an order must be continuously absent before it is ghost-resolved.
GhostsAreGone ==
    \A o \in ghosted : rows[o].st \in TerminalStates => Resting(venue, o) = {}
==============================================================================
