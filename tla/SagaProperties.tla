--------------------------- MODULE SagaProperties ---------------------------
(***************************************************************************)
(* What the order path of SagaEngine must guarantee.                       *)
(***************************************************************************)
EXTENDS SagaEngine

\* Every variable keeps its type; an in-flight run of misses never reaches the
\* budget without being spent (ConsecutiveMisses.record_absent).
TypeOK ==
    /\ store \in [Cloids -> Saga(Lots)]
    /\ cache \in [Cloids -> Saga(Lots)]
    /\ venue \in [Cloids -> VenueOrder]
    /\ wire \subseteq {"place", "cancel"} \X Cloids
    /\ handler \in [at : {"place", "fills", "cancel"}, c : Cloids] \cup {Idle}
    /\ reply \in Replies
    /\ queue \in Seq(Message) /\ outbox \in Seq(Message)
    /\ drainer \in Cadences \cup {"feed"}
    /\ phase \in {"down", "starting", "up"}
    /\ misses \in [Cloids -> 0..(MissLimit - 1)]
    /\ armed \in [Cloids -> BOOLEAN]
    /\ reads \in [Cadences -> [c : Cloids, view : Views, racing : BOOLEAN] \cup {NoRead}]
    /\ proved \subseteq Cloids
    /\ asked \subseteq Message /\ told \subseteq Message /\ delivered \subseteq Message
    /\ hasty \subseteq Cloids
    /\ sends \in [Cloids -> Nat]
    /\ fault \in (OrderStates \cup {"none"}) \X (OrderStates \cup {"none"})
    /\ crashes \in Nat /\ dups \in Nat

-------------------------------------------------------------------------------
\* A place signal reaches the venue at most once, over redeliveries, crashes and
\* restarts (_place's dedup by derived cloid against the write-ahead row).
NeverPlacedTwice == \A c \in Cloids : sends[c] <= 1

\* Nothing is at the venue, or on its way there, that a restart would not find in
\* the store: an order has a row that is not DENIED, a cancel has its marker.
RequestsAreDurable ==
    \A c \in Cloids :
        /\ (<<"place", c>> \in wire \/ venue[c].st # "absent")
              => store[c].st \notin {"none", "DENIED"}
        /\ <<"cancel", c>> \in wire => store[c].cancel

\* The send window of _place is the only time a saga in memory and its row differ.
SendWindow(c) ==
    /\ handler.at \in {"place", "fills"} /\ handler.c = c
    /\ store[c] = NewOrder
    /\ cache[c] = ApplyStatus(NewOrder, "SUBMITTED", FALSE)

MemoryIsDurable ==
    phase # "down" => \A c \in Cloids : cache[c] = store[c] \/ SendWindow(c)

\* An OrderEvent the strategies may have seen is never lost by a crash: what it
\* tells is in the row.  OrderPlaced and OrderSubmitted promise only that there
\* is a row, SUBMITTED being announced before it is durable (_commit, _place).
AnnouncedIsDurable ==
    \A m \in told :
        LET row == store[m.c]
        IN  CASE m.t > 0 -> m.t \in row.fills
              [] m.st \in {"PENDING", "SUBMITTED"} -> row.st \notin {"none", "DENIED"}
              [] OTHER -> m.st \in row.entered

\* A row books no trade that did not happen and none twice, however its reports
\* are duplicated, replayed by reconciliation or cut by crashes.
BookedOnce ==
    \A c \in Cloids : /\ store[c].fills \subseteq 1..venue[c].fills
                      /\ store[c].cum = Cardinality(store[c].fills)

\* The venue can still be asked what an order traded: it holds the record, or the
\* saga holds the oid, the only key the fill history answers to without it.
Traceable(c) == venue[c].rec \/ store[c].oid

\* No verdict contradicts the venue, whatever stale reads, lost answers and
\* verdicts crossed: a terminal row means the order cannot trade any more, and,
\* while it is traceable, that it ended there as the row says (_adopt,
\* _resolve_ghost, _resolve_inflight, _apply_placement, _apply_cancellation).  The
\* one verdict that may be untrue is FAILED on a read that began while the
\* placement was still on the wire: the budget does not outlast every send.
EndedAs(st, order) ==
    CASE st = "FILLED"    -> order.st = "filled"
      [] st = "CANCELLED" -> order.st = "cancelled"
      [] st = "REJECTED"  -> order.st \in {"rejected", "cancelled"} /\ order.fills = 0
      [] st = "FAILED"    -> ~order.rec
      [] st = "DENIED"    -> order.st = "absent"

TerminalAgreesWithVenue ==
    \A c \in Cloids : IsTerminal(store[c]) =>
        \/ store[c].st = "FAILED" /\ c \in hasty
        \/ /\ <<"place", c>> \notin wire
           /\ venue[c].st # "open"
           /\ Traceable(c) => EndedAs(store[c].st, venue[c])

\* A traceable order that ends without the engine's cancel ends with every trade
\* booked: _adopt replays the fills before the status that closes the saga.
EndedOrdersAreHealed ==
    \A c \in Cloids :
        store[c].st \in {"FILLED", "CANCELLED", "REJECTED"} /\ ~store[c].cancel /\ Traceable(c)
            => Cardinality(store[c].fills) = venue[c].fills

\* The barrier clears only when every intent of an earlier life is resolved: no
\* order is PENDING once strategies run (reconcile_startup, StartupBarrier).
BarrierProvesAll ==
    phase = "up" => \A c \in Cloids : cache[c].st # "PENDING"

\* A terminal row never changes again: no late status, fill, cancel request,
\* checkpoint or recovery reopens or rewrites it.
TerminalIsFinal ==
    [][\A c \in Cloids : IsTerminal(store[c]) => store'[c] = store[c]]_vars

-------------------------------------------------------------------------------
\* The rows implement the contract of OrderContract: an order is overdue while a
\* read that began before its placement had settled is out, and for good once
\* such a read has failed it.
Overdue(c) == c \in hasty \/ \E d \in Cadences : reads[d].c = c /\ reads[d].racing

Contract == INSTANCE OrderContract WITH
    saga    <- [c \in Cloids |-> [st |-> store[c].st, booked |-> store[c].cum]],
    market  <- [c \in Cloids |-> [st |-> venue[c].st, fills |-> venue[c].fills,
                              kept |-> venue[c].rec, coming |-> Racing(c)]],
    overdue <- {c \in Cloids : Overdue(c)}

ImplementsContract == Contract!Spec

-------------------------------------------------------------------------------
\* Once an order cannot land or trade any more, its saga ends: by its own answer
\* or, when that is lost, by a cadence or a restart (ADR-0011).
Settled(c) ==
    /\ store[c].st # "none"
    /\ <<"place", c>> \notin wire
    /\ venue[c].st # "open"

OpenSagasSettle == \A c \in Cloids : Settled(c) ~> IsTerminal(store[c])

-------------------------------------------------------------------------------

\* The races of answers, reads and pushes are absorbed, never a fault.
RacesAreAbsorbed == fault = <<"none", "none">>
=============================================================================
