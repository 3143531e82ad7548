------------------------------- MODULE KafkaBus -------------------------------
(***************************************************************************)
(* The Kafka transport of the event bus: publishes from the engine's tasks *)
(* and from handlers, the poll loop that dispatches one record at a time,  *)
(* the events a handler publishes and the loop holds until it returns, the *)
(* drain fence of the ledger, faults, and restarts from the committed      *)
(* offsets.                                                                *)
(*                                                                         *)
(* A record is its place in a partition, counted from 1, and an offset is  *)
(* a number of records.  An operator that stands before the one it is      *)
(* named after (FlushedEarly before Flushed) is a plausible bug in it, for *)
(* the sensitivity runs of PROJECT.json; no specification uses it.         *)
(***************************************************************************)
EXTENDS Integers, Sequences, Functions

CONSTANTS
    Partitions,
    Events,
    Roots,         \* the events the engine's tasks publish, one task each
    PartitionOf,   \* an event's key decides its partition
    Cascade,       \* what the handlers of an event publish, in order
    MaxLives,      \* bound: kills and teardowns, each followed by a restart
    CommitMayFail  \* the broker may refuse a commit

ASSUME KafkaBusAssumption ==
    /\ Roots \subseteq Events
    /\ PartitionOf \in [Events -> Partitions]
    /\ Cascade \in [Events -> Seq(Events)]
    /\ MaxLives \in Nat
    /\ CommitMayFail \in BOOLEAN

Stages == {"getone", "handling", "writing", "flushing", "dead"}
PublishStates == {"ready", "landed", "draining", "returned", "raised", "gone"}

VARIABLES
    log,       \* broker: the records of each partition
    committed, \* broker: the group's offsets
    wrote,     \* store: the events whose handlers' writes have landed
    position,  \* the consumer's position in each partition
    produced,  \* DrainLedger: the offset of the last record produced
    done,      \* DrainLedger: the offset dispatched, or dropped, so far
    stage,     \* where the poll loop is
    current,   \* the partition of the record it dispatches
    held,      \* what that record's handlers published
    fault,     \* a dispatch fault no drain has taken yet
    pub,       \* the publishes of the roots, and where each one landed
    dropped,   \* history: the events whose record faulted or was skipped
    popped,    \* history: some drain has raised a fault
    lives      \* bound counter

durable == <<log, committed, wrote>>
ledger == <<produced, done>>
history == <<dropped, popped>>
vars == <<durable, position, ledger, stage, current, held, fault, pub, history, lives>>

Init ==
    /\ log = [p \in Partitions |-> <<>>]
    /\ committed = [p \in Partitions |-> 0]
    /\ wrote = {}
    /\ position = [p \in Partitions |-> 0]
    /\ produced = [p \in Partitions |-> 0]
    /\ done = [p \in Partitions |-> 0]
    /\ stage = "getone"
    /\ current \in Partitions
    /\ held = <<>>
    /\ fault = FALSE
    /\ pub = [r \in Roots |-> [at |-> "ready", i |-> 0]]
    /\ dropped = {}
    /\ popped = FALSE
    /\ lives = 0

Event == log[current][position[current]]

Landed(e) == \E p \in Partitions : e \in Range(log[p])

-------------------------------------------------------------------------------
\* The drain fence.

InFlightEverywhere == \A p \in Partitions : done[p] < produced[p]

InFlight == \E p \in Partitions : done[p] < produced[p]

RecordProducedNext(p, i) ==
    produced' = [produced EXCEPT ![p] = IF i + 1 > @ THEN i + 1 ELSE @]

RecordProduced(p, i) ==
    produced' = [produced EXCEPT ![p] = IF i > @ THEN i ELSE @]

RecordCommitted(p, i) == done' = [done EXCEPT ![p] = i]

-------------------------------------------------------------------------------
\* A publish from one of the engine's tasks: the record lands, the task resumes
\* and counts it, then drains.

Send(r) ==
    LET p == PartitionOf[r]
    IN  /\ pub[r].at = "ready"
        /\ log' = [log EXCEPT ![p] = Append(@, r)]
        /\ pub' = [pub EXCEPT ![r] = [at |-> "landed", i |-> Len(log[p]) + 1]]
        /\ UNCHANGED <<committed, wrote, position, ledger, stage, current, held,
                       fault, history, lives>>

Sent(r) ==
    /\ pub[r].at = "landed"
    /\ RecordProduced(PartitionOf[r], pub[r].i)
    /\ pub' = [pub EXCEPT ![r].at = "draining"]
    /\ UNCHANGED <<durable, position, done, stage, current, held, fault, history, lives>>

\* The first drain to see the ledger idle takes the fault and raises it.
DrainReturns(r) ==
    /\ pub[r].at = "draining"
    /\ ~InFlight
    /\ pub' = [pub EXCEPT ![r].at = IF fault THEN "raised" ELSE "returned"]
    /\ fault' = FALSE
    /\ popped' = (popped \/ fault)
    /\ UNCHANGED <<durable, position, ledger, stage, current, held, dropped, lives>>

-------------------------------------------------------------------------------
\* The poll loop.

\* It takes the next record of some partition.  While a fault waits to be taken
\* the record is skipped: counted in the ledger, and neither dispatched nor
\* committed.
GetOne(p) ==
    /\ stage = "getone"
    /\ position[p] < Len(log[p])
    /\ position' = [position EXCEPT ![p] = @ + 1]
    /\ IF fault
       THEN /\ RecordCommitted(p, position[p] + 1)
            /\ dropped' = dropped \cup {log[p][position[p] + 1]}
            /\ UNCHANGED <<stage, current>>
       ELSE /\ stage' = "handling"
            /\ current' = p
            /\ UNCHANGED <<done, dropped>>
    /\ UNCHANGED <<durable, produced, held, fault, pub, popped, lives>>

\* A publish inside a handler is held until its dispatch returns.
Hold(e) ==
    /\ held' = Cascade[e]
    /\ UNCHANGED log

\* A handler may publish before it writes: a strategy's callback does, and its
\* snapshot is saved after it.
HandlerPublishes ==
    /\ stage = "handling"
    /\ Hold(Event)
    /\ stage' = "writing"
    /\ UNCHANGED <<committed, wrote, position, ledger, current, fault, pub, history, lives>>

HandlerWrites ==
    /\ stage = "writing"
    /\ wrote' = wrote \cup {Event}
    /\ stage' = "flushing"
    /\ UNCHANGED <<log, committed, position, ledger, current, held, fault, pub,
                   history, lives>>

FlushHeld ==
    /\ stage = "flushing"
    /\ held # <<>>
    /\ LET p == PartitionOf[Head(held)]
       IN  /\ log' = [log EXCEPT ![p] = Append(@, Head(held))]
           /\ RecordProduced(p, Len(log[p]) + 1)
    /\ held' = Tail(held)
    /\ UNCHANGED <<committed, wrote, position, done, stage, current, fault, pub,
                   history, lives>>

\* A record that will not decode, a handler that raises, a flush that cannot
\* send: what was held is dropped and the fault waits for a drain.
DispatchFaults ==
    /\ \/ stage \in {"handling", "writing"}
       \/ stage = "flushing" /\ held # <<>>
    /\ fault' = TRUE
    /\ dropped' = dropped \cup {Event}
    /\ held' = <<>>
    /\ RecordCommitted(current, position[current])
    /\ stage' = "getone"
    /\ UNCHANGED <<durable, position, produced, current, pub, popped, lives>>

FlushedEarly == TRUE

Flushed == held = <<>>

\* commit() names no offset: it commits the consumer's position everywhere.
Commit ==
    /\ stage = "flushing"
    /\ Flushed
    /\ committed' = position
    /\ held' = <<>>
    /\ RecordCommitted(current, position[current])
    /\ stage' = "getone"
    /\ UNCHANGED <<log, wrote, position, produced, current, fault, pub, history, lives>>

\* The commit stands outside the loop's try: when it raises the task ends.
CommitFails ==
    /\ CommitMayFail
    /\ stage = "flushing"
    /\ Flushed
    /\ stage' = "dead"
    /\ UNCHANGED <<durable, position, ledger, current, held, fault, pub, history, lives>>

-------------------------------------------------------------------------------
RestartOffsetsKept == position

RestartOffsets == committed

\* The process is killed, or its teardown closes the bus in the middle of
\* whatever it does; the next life consumes from the committed offsets.
Restart ==
    /\ lives < MaxLives
    /\ lives' = lives + 1
    /\ position' = RestartOffsets
    /\ produced' = [p \in Partitions |-> 0]
    /\ done' = [p \in Partitions |-> 0]
    /\ stage' = "getone"
    /\ held' = <<>>
    /\ fault' = FALSE
    /\ pub' = [r \in Roots |->
                 IF pub[r].at \in {"landed", "draining"} THEN [pub[r] EXCEPT !.at = "gone"]
                 ELSE pub[r]]
    /\ UNCHANGED <<durable, current, history>>

-------------------------------------------------------------------------------
Publish == \E r \in Roots : Send(r) \/ Sent(r) \/ DrainReturns(r)

Poll ==
    \/ \E p \in Partitions : GetOne(p)
    \/ HandlerPublishes
    \/ HandlerWrites
    \/ FlushHeld
    \/ DispatchFaults
    \/ Commit
    \/ CommitFails

Next == Publish \/ Poll \/ Restart

Spec == Init /\ [][Next]_vars

\* The loop and the tasks run when they can.
Fairness ==
    /\ WF_vars(Poll)
    /\ \A r \in Roots : WF_vars(Sent(r)) /\ WF_vars(DrainReturns(r))

FairSpec == Spec /\ Fairness
===============================================================================
