-------------------------- MODULE KafkaBusProperties --------------------------
(***************************************************************************)
(* What the Kafka transport of KafkaBus must guarantee.                    *)
(***************************************************************************)
EXTENDS KafkaBus

\* Every variable keeps its type, and no count passes the log it counts in.
TypeOK ==
    /\ log \in [Partitions -> Seq(Events)]
    /\ wrote \subseteq Events
    /\ committed \in [Partitions -> Nat] /\ position \in [Partitions -> Nat]
    /\ produced \in [Partitions -> Nat] /\ done \in [Partitions -> Nat]
    /\ \A p \in Partitions : /\ committed[p] <= position[p] /\ done[p] <= position[p]
                           /\ position[p] <= Len(log[p]) /\ produced[p] <= Len(log[p])
    /\ stage \in Stages
    /\ current \in Partitions
    /\ stage \in {"handling", "writing", "flushing"} => position[current] > 0
    /\ held \in Seq(Events)
    /\ fault \in BOOLEAN
    /\ pub \in [Roots -> [at : PublishStates, i : Nat]]
    /\ \A r \in Roots : pub[r].i <= Len(log[PartitionOf[r]])
    /\ dropped \subseteq Events
    /\ popped \in BOOLEAN
    /\ lives \in Nat

-------------------------------------------------------------------------------
\* A record is finished with when its handlers' writes have landed and so has
\* all they published.
Finished(p, i) ==
    LET e == log[p][i]
    IN  e \in wrote /\ \A x \in Range(Cascade[e]) : Landed(x)

AllCommittedFinished == \A p \in Partitions : \A i \in 1..committed[p] : Finished(p, i)

\* Until some drain has raised a fault, an offset is committed only over finished
\* records, so a kill at any point delivers every other record again.
CommittedIsFinished == ~popped => AllCommittedFinished

\* What a handler published is in the topic only if that handler's own writes
\* landed (the order of the strategy snapshot and its Signal, issue #350).
WritesLandFirst ==
    \A x \in Events \ Roots :
        Landed(x) => \E e \in wrote : x \in Range(Cascade[e])

\* The events a publish gives rise to, below none that was lost.
CascadeOf(r) ==
    { e \in Events :
        \A S \in SUBSET Events :
            (r \in S /\ \A x \in S \ dropped : Range(Cascade[x]) \subseteq S) => e \in S }

\* A publish returns only when its whole cascade has been delivered or lost to a
\* fault, whatever other publishes drain beside it and whatever backlog of an
\* earlier life stands before it (the drain-to-quiescence contract).
ReturnedIsDelivered ==
    \A r \in Roots : pub[r].at = "returned" => CascadeOf(r) \subseteq wrote \cup dropped

\* Every drain ends, whether it returns or raises, while the broker takes commits.
DrainsEnd ==
    \A r \in Roots : pub[r].at = "draining" ~> (pub[r].at # "draining" \/ stage = "dead")

\* A record that landed is delivered, in this life or a later one, unless some
\* dispatch faults or some commit is refused.
LandedIsDelivered ==
    \A e \in Events : Landed(e) ~> (e \in wrote \/ dropped # {} \/ stage = "dead")

===============================================================================
