------------------------------- MODULE MCRunner -------------------------------
\* Small instances of Runner for TLC: each scene is a run of its own.
EXTENDS RunnerProperties, TLC

CONSTANTS trades, marks, btc, eth

MCStreams == {trades, marks}
MCSymbols == {btc, eth}

Left(mishaps, rows, hangups, publishes, heals) ==
    [mishaps |-> mishaps, rows |-> rows, hangups |-> hangups, publishes |-> publishes,
     heals |-> heals]
Base == [job |-> FALSE, kafka |-> FALSE, live |-> FALSE, store |-> "ok", backlog |-> <<>>,
         account |-> [mode |-> "default", leverage |-> [s \in MCSymbols |-> 5]],
         book |-> [s \in MCSymbols |-> 3], held |-> {}, left |-> Left(0, 0, 0, 0, 0)]
Kafka == [Base EXCEPT !.kafka = TRUE]
Live == [Base EXCEPT !.live = TRUE]
Old(bys) == [i \in DOMAIN bys |-> [by |-> bys[i], row |-> <<>>]]

\* Runs that trade: in memory and over Kafka, with rows, hang-ups, heals and a
\* mishap that may be anything, anywhere.
Trading ==
    { [Base EXCEPT !.left = Left(1, 2, 1, 1, 1)],
      [Base EXCEPT !.left = Left(0, 3, 2, 0, 0)],
      [Kafka EXCEPT !.left = Left(1, 1, 1, 1, 1), !.backlog = Old(<<"old_fill", "old_place">>)],
      [Kafka EXCEPT !.left = Left(2, 1, 0, 1, 0)] }

\* Exit runs: the feed may be started, and old signals may wait on the bus.
Exiting ==
    { [b EXCEPT !.job = TRUE, !.left = Left(1, 1, 0, 1, 1),
                !.backlog = Old(<<"old_place", "old_cancel">>)] : b \in {Base, Kafka} }

\* Boots that meet a store they must not touch.
Stores ==
    { [b EXCEPT !.store = st] : st \in {"held", "broken", "new", "foreign"},
                                b \in {Base, [Base EXCEPT !.job = TRUE]} }

\* Boots that meet a venue: unsupported, held at the book's leverage or at
\* another, and a run that trades nothing; with answers that are lost.
Venues ==
    { [Live EXCEPT !.left = Left(2, 0, 0, 0, 0), !.account.mode = mode, !.held = held,
                   !.account.leverage[btc] = lev] :
          mode \in {"disabled", "pooled"}, held \in {{}, {btc}}, lev \in {3, 5} }
    \cup { [Live EXCEPT !.job = TRUE, !.book = <<>>, !.left = Left(1, 0, 0, 0, 0)] }

MCScenes == Trading \cup Exiting \cup Stores \cup Venues
===============================================================================
