------------------------ MODULE StrategyHostProperties ------------------------
(***************************************************************************)
(* What StrategyHost must guarantee.                                       *)
(***************************************************************************)
EXTENDS StrategyHost

\* What the strategy published on s, in the topic or held behind it.
Published(s) == topic[s] \o (IF s = current THEN held ELSE <<>>)

Places(s) == {i \in DOMAIN Published(s) : Published(s)[i].kind \in Kinds}

\* ADR-0016, #442: no seq is ever given to two signals, whatever a crash left in
\* the topic unhandled and whatever handled cancel-alls left no row.  A reused seq
\* is an order the manager drops as a duplicate, or a cancel of another's order.
SeqNeverReused ==
    \A s, t \in Symbols : \A i \in Places(s), j \in Places(t) :
        Published(s)[i].seq = Published(t)[j].seq => s = t /\ i = j

\* ADR-0016, #348, #350: a strategy that remembers never publishes a step of its
\* script twice: what it has done is saved before any of its signals is durable.
StepTakenOnce ==
    ~forgot =>
    \A s \in Symbols : \A i, j \in Places(s) :
        /\ Published(s)[i].step = Published(s)[j].step
        /\ Published(s)[i].part = Published(s)[j].part
        => i = j

\* ADR-0055: a cancel-all, delivered whenever and as often as it may be, is sent
\* only for orders the strategy sent before it.
CancelAllReachesEarlier ==
    \A k \in DOMAIN sends :
        \A i, j \in DOMAIN topic[sends[k].symbol] :
            LET by == topic[sends[k].symbol][i]
                order == topic[sends[k].symbol][j]
            IN  /\ by.kind = "cancel_all" /\ by.seq = sends[k].by
                /\ order.kind = "place" /\ order.seq \in sends[k].orders
                => j < i

\* ADR-0055: a cancel-all whose handling is finished has left no open order of its
\* symbol that was sent before it without its mark, though an earlier cancel had
\* marked the order or a crash had cut an earlier delivery.
CancelAllLeavesNone ==
    stage = "flushing" /\ Signal.kind = "cancel_all" =>
        \A o \in OpenOrders(current) : o < Signal.seq => rows[o].marker >= Signal.seq

===============================================================================
