--------------------------- MODULE KafkaBusProofs ---------------------------
(***************************************************************************)
(* Theorems about KafkaBus, for every set of partitions and events.        *)
(***************************************************************************)
EXTENDS KafkaBusProperties, TLAPS

\* What the loop knows of the record it dispatches.
Loop ==
    /\ fault => stage = "getone"
    /\ stage = "writing" => held = Cascade[Event]
    /\ stage = "flushing" =>
          /\ Event \in wrote
          /\ \A i \in 1..Len(held) : held[i] \in Range(Cascade[Event])
          /\ \A x \in Range(Cascade[Event]) : (\E i \in 1..Len(held) : held[i] = x) \/ Landed(x)

\* While no fault has happened, every record the consumer has passed is finished,
\* but the one it dispatches.
Passed ==
    ~popped /\ ~fault =>
        \A p \in Partitions : \A i \in 1..position[p] :
            \/ Finished(p, i)
            \/ stage # "getone" /\ p = current /\ i = position[p]

KInv == TypeOK /\ Loop /\ Passed /\ CommittedIsFinished /\ WritesLandFirst
-------------------------------------------------------------------------------
\* A log that grows keeps the records it had.
LEMMA Appended ==
    ASSUME TypeOK, NEW p \in Partitions, NEW e \in Events,
           log' = [log EXCEPT ![p] = Append(@, e)]
    PROVE  /\ log' \in [Partitions -> Seq(Events)]
           /\ Len(log'[p]) = Len(log[p]) + 1
           /\ \A q \in Partitions : \A m \in Nat : m <= Len(log[q]) => m <= Len(log'[q])
           /\ \A q \in Partitions :
                 /\ Len(log[q]) <= Len(log'[q])
                 /\ \A i \in 1..Len(log[q]) : log'[q][i] = log[q][i]
           /\ Landed(e)'
           /\ \A x : Landed(x) => Landed(x)'
           /\ \A x : Landed(x)' => Landed(x) \/ x = e
<1>1. log \in [Partitions -> Seq(Events)]
  BY DEF TypeOK
<1>2. log[p] \in Seq(Events) /\ log'[p] = Append(log[p], e)
  BY <1>1
<1>3. \A q \in Partitions : q # p => log'[q] = log[q]
  BY <1>1
<1>4. log' \in [Partitions -> Seq(Events)]
  <2>1. Append(log[p], e) \in Seq(Events)
    BY <1>2
  <2> QED
    BY <1>1, <2>1
<1>5. Len(log'[p]) = Len(log[p]) + 1
  BY <1>2
<1>6. \A i \in 1..Len(log[p]) : log'[p][i] = log[p][i]
  BY <1>2
<1>7. \A q \in Partitions : /\ Len(log[q]) <= Len(log'[q])
                            /\ \A i \in 1..Len(log[q]) : log'[q][i] = log[q][i]
  BY <1>1, <1>3, <1>5, <1>6
<1>8. \A q \in Partitions : DOMAIN log[q] = 1..Len(log[q]) /\ DOMAIN log'[q] = 1..Len(log'[q])
                            /\ Len(log[q]) \in Nat
  BY <1>1, <1>4
<1>9. Landed(e)'
  <2>1. log'[p][Len(log[p]) + 1] = e
    BY <1>2
  <2>2. Len(log[p]) + 1 \in DOMAIN log'[p]
    BY <1>5, <1>8
  <2> QED
    BY <2>1, <2>2 DEF Landed, Range
<1>10. ASSUME NEW x, Landed(x) PROVE Landed(x)'
  <2>1. PICK q \in Partitions : x \in Range(log[q])
    BY <1>10 DEF Landed
  <2>2. PICK i \in DOMAIN log[q] : x = log[q][i]
    BY <2>1 DEF Range
  <2>3. i \in DOMAIN log'[q] /\ log'[q][i] = x
    BY <2>2, <1>7, <1>8
  <2> QED
    BY <2>3 DEF Landed, Range
<1>11. ASSUME NEW x, Landed(x)' PROVE Landed(x) \/ x = e
  <2>1. PICK q \in Partitions : x \in Range(log'[q])
    BY <1>11 DEF Landed
  <2>2. PICK i \in DOMAIN log'[q] : x = log'[q][i]
    BY <2>1 DEF Range
  <2>3. CASE i \in DOMAIN log[q]
    BY <2>2, <2>3, <1>7, <1>8 DEF Landed, Range
  <2>4. CASE i \notin DOMAIN log[q]
    <3>1. q = p
      BY <2>2, <2>4, <1>3
    <3>2. i = Len(log[p]) + 1
      BY <3>1, <2>2, <2>4, <1>5, <1>8
    <3> QED
      BY <3>1, <3>2, <2>2, <1>2
  <2> QED
    BY <2>3, <2>4
<1>12. \A q \in Partitions : \A m \in Nat : m <= Len(log[q]) => m <= Len(log'[q])
  <2> TAKE q \in Partitions
  <2>1. Len(log[q]) \in Nat /\ Len(log'[q]) \in Nat /\ Len(log[q]) <= Len(log'[q])
    BY <1>7, <1>8, <1>4
  <2> QED
    BY <2>1
<1> QED
  BY <1>4, <1>5, <1>7, <1>9, <1>10, <1>11, <1>12

\* What is finished stays finished while the logs and the writes only grow.
LEMMA FinishedStays ==
    ASSUME wrote \subseteq wrote',
           \A q \in Partitions : \A i \in 1..Len(log[q]) : log'[q][i] = log[q][i],
           \A x : Landed(x) => Landed(x)'
    PROVE  \A q \in Partitions : \A i \in 1..Len(log[q]) : Finished(q, i) => Finished(q, i)'
<1> SUFFICES ASSUME NEW q \in Partitions, NEW i \in 1..Len(log[q]), Finished(q, i)
             PROVE  Finished(q, i)'
  OBVIOUS
<1>1. log'[q][i] = log[q][i]
  OBVIOUS
<1>2. log[q][i] \in wrote /\ \A x \in Range(Cascade[log[q][i]]) : Landed(x)
  BY DEF Finished
<1> HIDE DEF Landed
<1> QED
  BY <1>1, <1>2 DEF Finished

\* Types are preserved by every step.
LEMMA TypedStep == ASSUME TypeOK, [Next]_vars PROVE TypeOK'
<1> USE KafkaBusAssumption
<1>a. log \in [Partitions -> Seq(Events)]
  BY DEF TypeOK
<1>b. \A q \in Partitions : /\ log[q] \in Seq(Events) /\ Len(log[q]) \in Nat
                            /\ \A i \in 1..Len(log[q]) : log[q][i] \in Events
  BY <1>a
<1>c. /\ committed \in [Partitions -> Nat] /\ position \in [Partitions -> Nat]
      /\ produced \in [Partitions -> Nat] /\ done \in [Partitions -> Nat]
  BY DEF TypeOK
<1>d. \A q \in Partitions : /\ Len(log[q]) \in Nat /\ position[q] \in Nat /\ committed[q] \in Nat
                            /\ produced[q] \in Nat /\ done[q] \in Nat
                            /\ committed[q] <= position[q] /\ done[q] <= position[q]
                            /\ position[q] <= Len(log[q]) /\ produced[q] <= Len(log[q])
  BY <1>b, <1>c DEF TypeOK
<1>e. /\ pub \in [Roots -> [at : PublishStates, i : Nat]]
      /\ \A s \in Roots : pub[s].i <= Len(log[PartitionOf[s]])
  BY DEF TypeOK
<1>f. \A s \in Roots : s \in Events /\ PartitionOf[s] \in Partitions /\ pub[s].i \in Nat
  BY <1>e
<1>g. /\ current \in Partitions /\ stage \in Stages /\ held \in Seq(Events)
      /\ wrote \subseteq Events /\ dropped \subseteq Events /\ lives \in Nat
      /\ fault \in BOOLEAN /\ popped \in BOOLEAN
      /\ stage \in {"handling", "writing", "flushing"} => position[current] > 0
  BY DEF TypeOK
<1>h. stage \in {"handling", "writing", "flushing"} => Event \in Events
  <2>1. /\ position[current] \in Nat /\ Len(log[current]) \in Nat
        /\ position[current] <= Len(log[current])
    BY <1>c, <1>d, <1>g
  <2> QED
    BY <1>b, <1>g, <2>1 DEF Event
<1>1. ASSUME NEW r \in Roots, Send(r) PROVE TypeOK'
  <2> DEFINE p == PartitionOf[r]
  <2>1. /\ r \in Events /\ p \in Partitions
        /\ log' = [log EXCEPT ![p] = Append(@, r)]
        /\ pub' = [pub EXCEPT ![r] = [at |-> "landed", i |-> Len(log[p]) + 1]]
    BY <1>1, <1>f DEF Send
  <2> HIDE DEF p
  <2>2. /\ log' \in [Partitions -> Seq(Events)]
        /\ Len(log'[p]) = Len(log[p]) + 1
        /\ \A q \in Partitions : Len(log[q]) <= Len(log'[q])
    BY <2>1, Appended
  <2>3. \A q \in Partitions : Len(log'[q]) \in Nat
                             /\ \A m \in Nat : m <= Len(log[q]) => m <= Len(log'[q])
    BY <2>1, <2>2, Appended
  <2>4. pub' \in [Roots -> [at : PublishStates, i : Nat]]
    BY <2>1, <1>b, <1>e DEF PublishStates
  <2>5. \A s \in Roots : pub'[s].i <= Len(log'[PartitionOf[s]])
    <3>1. pub'[r].i = Len(log[p]) + 1
      BY <2>1, <1>e
    <3>2. \A s \in Roots : s # r => pub'[s] = pub[s]
      BY <2>1, <1>e
    <3>3. pub'[r].i <= Len(log'[PartitionOf[r]])
      BY <3>1, <2>1, <2>2, <2>3 DEF p
    <3>4. \A s \in Roots : s # r => pub'[s].i <= Len(log'[PartitionOf[s]])
      <4> TAKE s \in Roots
      <4>1. PartitionOf[s] \in Partitions /\ pub[s].i \in Nat
        BY <1>f
      <4>2. pub[s].i <= Len(log[PartitionOf[s]])
        BY <1>e
      <4>3. pub[s].i <= Len(log'[PartitionOf[s]])
        BY <4>1, <4>2, <2>3
      <4> QED
        BY <3>2, <4>3
    <3> QED
      BY <3>3, <3>4
  <2>6. \A q \in Partitions : position[q] <= Len(log'[q]) /\ produced[q] <= Len(log'[q])
    BY <2>3, <1>d
  <2>7. UNCHANGED <<committed, wrote, position, produced, done, stage, current, held,
                    fault, dropped, popped, lives>>
    BY <1>1 DEF Send, ledger, history
  <2> QED
    BY <2>2, <2>4, <2>5, <2>6, <2>7, <1>c, <1>d, <1>g DEF TypeOK
<1>2. ASSUME NEW r \in Roots, Sent(r) PROVE TypeOK'
  <2> DEFINE p == PartitionOf[r]
  <2>1. /\ p \in Partitions
        /\ produced' = [produced EXCEPT ![p] = IF pub[r].i > @ THEN pub[r].i ELSE @]
        /\ pub' = [pub EXCEPT ![r].at = "draining"]
        /\ pub[r].i <= Len(log[p])
    BY <1>2, <1>e, <1>f DEF Sent, RecordProduced
  <2> HIDE DEF p
  <2>2. produced' \in [Partitions -> Nat] /\ \A q \in Partitions : produced'[q] <= Len(log[q])
    <3>1. produced' \in [Partitions -> Nat]
      BY <2>1, <1>c, <1>f
    <3>2. \A q \in Partitions : q # p => produced'[q] = produced[q]
      BY <2>1, <1>c
    <3>3. produced'[p] = produced[p] \/ produced'[p] = pub[r].i
      BY <2>1, <1>c
    <3>4. produced'[p] <= Len(log[p])
      BY <3>3, <2>1, <1>d
    <3>5. \A q \in Partitions : q # p => produced'[q] <= Len(log[q])
      BY <3>2, <1>d
    <3> QED
      BY <3>1, <3>4, <3>5
  <2>3. pub' \in [Roots -> [at : PublishStates, i : Nat]] /\ \A s \in Roots : pub'[s].i = pub[s].i
    BY <2>1, <1>e DEF PublishStates
  <2>4. UNCHANGED <<log, committed, wrote, position, done, stage, current, held, fault,
                    dropped, popped, lives>>
    BY <1>2 DEF Sent, durable, history
  <2> QED
    BY <2>2, <2>3, <2>4, <1>a, <1>c, <1>d, <1>e, <1>g DEF TypeOK
<1>3. ASSUME NEW r \in Roots, DrainReturns(r) PROVE TypeOK'
  <2>1. pub' \in [Roots -> [at : PublishStates, i : Nat]] /\ \A s \in Roots : pub'[s].i = pub[s].i
    BY <1>3, <1>e DEF DrainReturns, PublishStates
  <2>2. fault' \in BOOLEAN /\ popped' \in BOOLEAN
    BY <1>3, <1>g DEF DrainReturns
  <2>3. UNCHANGED <<log, committed, wrote, position, produced, done, stage, current, held,
                    dropped, lives>>
    BY <1>3 DEF DrainReturns, durable, ledger
  <2> QED
    BY <2>1, <2>2, <2>3, <1>a, <1>c, <1>d, <1>e, <1>g DEF TypeOK
<1>4. ASSUME NEW p \in Partitions, GetOne(p) PROVE TypeOK'
  <2>1. /\ position[p] + 1 <= Len(log[p]) /\ position[p] \in Nat
        /\ position' = [position EXCEPT ![p] = @ + 1]
        /\ UNCHANGED <<log, committed, wrote, produced, held, fault, pub, popped, lives>>
    BY <1>4, <1>d DEF GetOne, durable
  <2>2. /\ position' \in [Partitions -> Nat]
        /\ position'[p] = position[p] + 1
        /\ \A q \in Partitions : position[q] <= position'[q] /\ position'[q] <= Len(log[q])
    <3>1. position' \in [Partitions -> Nat] /\ position'[p] = position[p] + 1
      BY <2>1, <1>c
    <3>2. \A q \in Partitions : q # p => position'[q] = position[q]
      BY <2>1, <1>c
    <3> QED
      BY <3>1, <3>2, <2>1, <1>d
  <2>3. log[p][position[p] + 1] \in Events
    BY <2>1, <1>b
  <2>4. /\ done' \in [Partitions -> Nat]
        /\ \A q \in Partitions : done'[q] <= position'[q] /\ committed[q] <= position'[q]
    <3>1. \A q \in Partitions : committed[q] <= position'[q] /\ done[q] <= position'[q]
      <4>1. \A q \in Partitions : position'[q] \in Nat /\ position[q] <= position'[q]
        BY <2>2
      <4> QED
        BY <4>1, <1>d
    <3>2. CASE done' = done
      BY <3>1, <3>2, <1>c
    <3>3. CASE done' = [done EXCEPT ![p] = position[p] + 1]
      <4>1. done' \in [Partitions -> Nat] /\ done'[p] = position'[p]
        BY <3>3, <2>1, <2>2, <1>c
      <4>2. \A q \in Partitions : q # p => done'[q] <= position'[q]
        BY <3>1, <3>3, <1>c
      <4>3. done'[p] <= position'[p]
        BY <4>1, <2>2
      <4> QED
        BY <3>1, <4>1, <4>2, <4>3
    <3> QED
      BY <1>4, <3>2, <3>3 DEF GetOne, RecordCommitted
  <2>5. /\ stage' \in Stages /\ current' \in Partitions /\ dropped' \subseteq Events
        /\ stage' \in {"handling", "writing", "flushing"} => position'[current'] > 0
    BY <1>4, <1>c, <1>g, <2>1, <2>2, <2>3 DEF GetOne, Stages
  <2>6. committed' \in [Partitions -> Nat] /\ produced' \in [Partitions -> Nat]
        /\ \A q \in Partitions : produced'[q] <= Len(log'[q])
    BY <2>1, <1>c, <1>d
  <2>7. pub' \in [Roots -> [at : PublishStates, i : Nat]]
        /\ \A s \in Roots : pub'[s].i <= Len(log'[PartitionOf[s]])
    BY <2>1, <1>e
  <2> QED
    BY <2>1, <2>2, <2>4, <2>5, <2>6, <2>7, <1>a, <1>g DEF TypeOK
<1>5. ASSUME HandlerPublishes PROVE TypeOK'
  <2>1. Event \in Events /\ Cascade[Event] \in Seq(Events)
    BY <1>5, <1>h DEF HandlerPublishes
  <2>2. held' \in Seq(Events) /\ stage' = "writing" /\ stage = "handling"
    BY <1>5, <2>1 DEF HandlerPublishes, Hold
  <2>3. UNCHANGED <<log, committed, wrote, position, produced, done, current, fault, pub,
                    dropped, popped, lives>>
    BY <1>5 DEF HandlerPublishes, Hold, ledger, history
  <2> QED
    BY <2>2, <2>3, <1>a, <1>c, <1>d, <1>e, <1>g DEF TypeOK, Stages
<1>6. ASSUME HandlerWrites PROVE TypeOK'
  <2>1. Event \in Events
    BY <1>6, <1>h DEF HandlerWrites
  <2>2. wrote' \subseteq Events /\ stage' = "flushing" /\ stage = "writing"
    BY <1>6, <2>1, <1>g DEF HandlerWrites
  <2>3. UNCHANGED <<log, committed, position, produced, done, current, held, fault, pub,
                    dropped, popped, lives>>
    BY <1>6 DEF HandlerWrites, ledger, history
  <2> QED
    BY <2>2, <2>3, <1>a, <1>c, <1>d, <1>e, <1>g DEF TypeOK, Stages
<1>7. ASSUME FlushHeld PROVE TypeOK'
  <2> DEFINE p == PartitionOf[Head(held)]
  <2>1. Head(held) \in Events /\ p \in Partitions /\ Tail(held) \in Seq(Events)
    BY <1>7, <1>g DEF FlushHeld
  <2>2. /\ log' = [log EXCEPT ![p] = Append(@, Head(held))]
        /\ produced' = [produced EXCEPT ![p] = IF Len(log[p]) + 1 > @ THEN Len(log[p]) + 1 ELSE @]
        /\ held' = Tail(held)
        /\ UNCHANGED <<committed, wrote, position, done, stage, current, fault, pub,
                       dropped, popped, lives>>
    BY <1>7 DEF FlushHeld, RecordProduced, history
  <2> HIDE DEF p
  <2>3. /\ log' \in [Partitions -> Seq(Events)]
        /\ Len(log'[p]) = Len(log[p]) + 1
        /\ \A q \in Partitions : Len(log[q]) <= Len(log'[q])
    BY <2>1, <2>2, Appended
  <2>4. \A q \in Partitions : Len(log'[q]) \in Nat
                             /\ \A m \in Nat : m <= Len(log[q]) => m <= Len(log'[q])
    BY <2>1, <2>2, <2>3, Appended
  <2>5. produced' \in [Partitions -> Nat] /\ \A q \in Partitions : produced'[q] <= Len(log'[q])
    <3>0. produced \in [Partitions -> Nat] /\ Len(log[p]) \in Nat
      BY <2>1, <1>c, <1>d
    <3>a. PICK n : n = IF Len(log[p]) + 1 > produced[p] THEN Len(log[p]) + 1 ELSE produced[p]
      OBVIOUS
    <3>b. n \in Nat /\ (n = produced[p] \/ n = Len(log[p]) + 1)
      BY <2>1, <3>0, <3>a
    <3>c. produced' = [produced EXCEPT ![p] = n]
      BY <2>2, <3>0, <3>a
    <3>1. produced' \in [Partitions -> Nat]
      BY <3>0, <3>b, <3>c
    <3>2. \A q \in Partitions : q # p => produced'[q] = produced[q]
      BY <3>0, <3>c
    <3>3. produced'[p] = produced[p] \/ produced'[p] = Len(log[p]) + 1
      BY <2>1, <3>0, <3>b, <3>c
    <3>4. produced'[p] <= Len(log'[p])
      <4>1. /\ produced[p] \in Nat /\ produced[p] <= Len(log[p])
            /\ Len(log[p]) \in Nat /\ Len(log'[p]) = Len(log[p]) + 1
        BY <2>1, <2>3, <3>0, <1>d
      <4> QED
        BY <3>3, <4>1
    <3>5. \A q \in Partitions : q # p => produced'[q] <= Len(log'[q])
      BY <3>2, <2>4, <1>d
    <3> QED
      BY <3>1, <3>4, <3>5
  <2>6. \A q \in Partitions : position[q] <= Len(log'[q])
    BY <2>4, <1>d
  <2>7. \A s \in Roots : pub[s].i <= Len(log'[PartitionOf[s]])
    BY <2>4, <1>e, <1>f
  <2> QED
    BY <2>1, <2>2, <2>3, <2>5, <2>6, <2>7, <1>c, <1>d, <1>e, <1>g DEF TypeOK
<1>8. ASSUME DispatchFaults PROVE TypeOK'
  <2>1. Event \in Events
    BY <1>8, <1>h DEF DispatchFaults
  <2>2. done' \in [Partitions -> Nat] /\ \A q \in Partitions : done'[q] <= position[q]
    BY <1>8, <1>c, <1>d, <1>g DEF DispatchFaults, RecordCommitted
  <2>3. /\ fault' = TRUE /\ dropped' \subseteq Events /\ held' \in Seq(Events)
        /\ stage' = "getone"
        /\ UNCHANGED <<log, committed, wrote, position, produced, current, pub, popped, lives>>
    BY <1>8, <1>g, <2>1 DEF DispatchFaults, durable
  <2> QED
    BY <2>2, <2>3, <1>a, <1>c, <1>d, <1>e, <1>g DEF TypeOK, Stages
<1>9. ASSUME Commit PROVE TypeOK'
  <2>1. done' \in [Partitions -> Nat] /\ \A q \in Partitions : done'[q] <= position[q]
    BY <1>9, <1>c, <1>d, <1>g DEF Commit, RecordCommitted
  <2>2. /\ committed' = position /\ held' \in Seq(Events) /\ stage' = "getone"
        /\ UNCHANGED <<log, wrote, position, produced, current, fault, pub, dropped, popped,
                       lives>>
    BY <1>9 DEF Commit, history
  <2> QED
    BY <2>1, <2>2, <1>a, <1>c, <1>d, <1>e, <1>g DEF TypeOK, Stages
<1>10. ASSUME CommitFails PROVE TypeOK'
  <2>1. /\ stage' = "dead"
        /\ UNCHANGED <<log, committed, wrote, position, produced, done, current, held, fault,
                       pub, dropped, popped, lives>>
    BY <1>10 DEF CommitFails, durable, ledger, history
  <2> QED
    BY <2>1, <1>a, <1>c, <1>d, <1>e, <1>g DEF TypeOK, Stages
<1>11. ASSUME Restart PROVE TypeOK'
  <2>1. pub' \in [Roots -> [at : PublishStates, i : Nat]] /\ \A s \in Roots : pub'[s].i = pub[s].i
    BY <1>11, <1>e DEF Restart, PublishStates
  <2>2. \A q \in Partitions : Len(log[q]) \in Nat /\ committed[q] <= Len(log[q])
    BY <1>d
  <2>3. /\ position' = committed /\ stage' = "getone" /\ held' \in Seq(Events) /\ fault' = FALSE
        /\ lives' \in Nat
        /\ produced' = [q \in Partitions |-> 0] /\ done' = [q \in Partitions |-> 0]
        /\ UNCHANGED <<log, committed, wrote, current, dropped, popped>>
    BY <1>11, <1>g DEF Restart, RestartOffsets, durable, history
  <2>4. /\ position' \in [Partitions -> Nat] /\ produced' \in [Partitions -> Nat]
        /\ done' \in [Partitions -> Nat] /\ committed' \in [Partitions -> Nat]
    BY <2>3, <1>c
  <2>5. \A q \in Partitions :
           /\ committed'[q] <= position'[q] /\ done'[q] <= position'[q]
           /\ position'[q] <= Len(log'[q]) /\ produced'[q] <= Len(log'[q])
    BY <2>2, <2>3, <1>d
  <2>6. \A s \in Roots : pub'[s].i <= Len(log'[PartitionOf[s]])
    BY <2>1, <2>3, <1>e
  <2> QED
    BY <2>1, <2>3, <2>4, <2>5, <2>6, <1>a, <1>g DEF TypeOK, Stages
<1>12. ASSUME UNCHANGED vars PROVE TypeOK'
  BY <1>12 DEF vars, TypeOK, durable, ledger, history
<1> QED
  BY <1>1, <1>2, <1>3, <1>4, <1>5, <1>6, <1>7, <1>8, <1>9, <1>10, <1>11, <1>12
     DEF Next, Publish, Poll

-------------------------------------------------------------------------------
\* What a step that touches neither the consumer nor the offsets keeps, when the
\* logs and the writes only grow.
LEMMA Kept ==
    ASSUME KInv, TypeOK',
           wrote \subseteq wrote',
           \A q \in Partitions : \A i \in 1..Len(log[q]) : log'[q][i] = log[q][i],
           \A x : Landed(x) => Landed(x)',
           UNCHANGED <<committed, position, current>>,
           stage' = "getone" <=> stage = "getone",
           fault' = fault, popped' = popped
    PROVE  /\ Passed'
           /\ CommittedIsFinished'
           /\ stage \in {"handling", "writing", "flushing"} => Event' = Event
<1>1. \A q \in Partitions : \A i \in 1..Len(log[q]) : Finished(q, i) => Finished(q, i)'
  BY FinishedStays
<1>2. \A q \in Partitions : \A i \in 1..position[q] : i \in 1..Len(log[q])
  BY DEF KInv, TypeOK
<1>3. \A q \in Partitions : \A i \in 1..committed[q] : i \in 1..Len(log[q])
  BY DEF KInv, TypeOK
<1>4. Passed'
  <2> SUFFICES ASSUME ~popped', ~fault', NEW q \in Partitions, NEW i \in 1..position[q]
               PROVE  \/ Finished(q, i)'
                      \/ stage' # "getone" /\ q = current' /\ i = position'[q]
    BY DEF Passed
  <2>1. Finished(q, i) \/ (stage # "getone" /\ q = current /\ i = position[q])
    BY DEF KInv, Passed
  <2> QED
    BY <2>1, <1>1, <1>2
<1>5. CommittedIsFinished'
  <2> SUFFICES ASSUME ~popped', NEW q \in Partitions, NEW i \in 1..committed[q]
               PROVE  Finished(q, i)'
    BY DEF CommittedIsFinished, AllCommittedFinished
  <2>1. Finished(q, i)
    BY DEF KInv, CommittedIsFinished, AllCommittedFinished
  <2> QED
    BY <2>1, <1>1, <1>3
<1>6. stage \in {"handling", "writing", "flushing"} => Event' = Event
  <2> SUFFICES ASSUME stage \in {"handling", "writing", "flushing"} PROVE Event' = Event
    OBVIOUS
  <2>1. current \in Partitions /\ position[current] \in 1..position[current]
    BY DEF KInv, TypeOK
  <2>2. log'[current][position[current]] = log[current][position[current]]
    BY <2>1, <1>2
  <2> QED
    BY <2>2 DEF Event
<1> QED
  BY <1>4, <1>5, <1>6

\* The publishes of the tasks disturb neither the loop nor what was committed.
LEMMA PublishStep ==
    ASSUME KInv, TypeOK', NEW r \in Roots, Send(r) \/ Sent(r) \/ DrainReturns(r)
    PROVE  KInv'
<1> USE KafkaBusAssumption
<1>1. ASSUME Send(r) PROVE KInv'
  <2> DEFINE p == PartitionOf[r]
  <2>1. /\ r \in Events /\ p \in Partitions /\ TypeOK
        /\ log' = [log EXCEPT ![p] = Append(@, r)]
        /\ UNCHANGED <<committed, wrote, position, stage, current, held, fault, popped>>
    BY <1>1 DEF Send, history, KInv
  <2> HIDE DEF p
  <2>2. /\ \A q \in Partitions : \A i \in 1..Len(log[q]) : log'[q][i] = log[q][i]
        /\ \A x : Landed(x) => Landed(x)'
        /\ \A x : Landed(x)' => Landed(x) \/ x = r
    BY <2>1, Appended
  <2>3. /\ Passed' /\ CommittedIsFinished'
        /\ stage \in {"handling", "writing", "flushing"} => Event' = Event
    BY <2>1, <2>2, Kept
  <2>4. Loop'
    BY <2>1, <2>2, <2>3 DEF KInv, Loop
  <2>5. WritesLandFirst'
    BY <2>1, <2>2 DEF KInv, WritesLandFirst
  <2> QED
    BY <2>3, <2>4, <2>5 DEF KInv
<1>2. ASSUME Sent(r) PROVE KInv'
  <2>1. UNCHANGED <<log, committed, wrote, position, stage, current, held, fault, popped>>
    BY <1>2 DEF Sent, durable, history
  <2> QED
    BY <2>1 DEF KInv, Loop, Passed, CommittedIsFinished, AllCommittedFinished,
                WritesLandFirst, Finished, Landed, Event
<1>3. ASSUME DrainReturns(r) PROVE KInv'
  <2>1. /\ UNCHANGED <<log, committed, wrote, position, stage, current, held>>
        /\ fault' = FALSE /\ popped' = (popped \/ fault)
    BY <1>3 DEF DrainReturns, durable, ledger
  <2> QED
    BY <2>1 DEF KInv, Loop, Passed, CommittedIsFinished, AllCommittedFinished,
                WritesLandFirst, Finished, Landed, Event
<1> QED
  BY <1>1, <1>2, <1>3

\* Each step of the poll loop keeps the invariant.
LEMMA PollStep == ASSUME KInv, TypeOK', Poll PROVE KInv'
<1> USE KafkaBusAssumption
<1>t. TypeOK
  BY DEF KInv
<1>1. ASSUME NEW p \in Partitions, GetOne(p) PROVE KInv'
  <2>1. /\ stage = "getone"
        /\ position' = [position EXCEPT ![p] = @ + 1]
        /\ UNCHANGED <<log, committed, wrote, held, fault, popped>>
        /\ fault => stage' = "getone"
        /\ ~fault => stage' = "handling" /\ current' = p
    BY <1>1 DEF GetOne, durable
  <2>2. Loop'
    BY <2>1 DEF Loop
  <2>3. Passed'
    <3> SUFFICES ASSUME ~popped, ~fault, NEW q \in Partitions, NEW i \in 1..position'[q]
                 PROVE  \/ Finished(q, i)'
                        \/ stage' # "getone" /\ q = current' /\ i = position'[q]
      BY <2>1 DEF Passed
    <3>1. Finished(q, i)' <=> Finished(q, i)
      BY <2>1 DEF Finished, Landed
    <3>2. position \in [Partitions -> Nat]
      BY <1>t DEF TypeOK
    <3>3. i \in 1..position[q] => Finished(q, i)
      BY <2>1 DEF KInv, Passed
    <3>4. CASE q = p
      <4>1. i \in 1..position[q] \/ i = position'[q]
        BY <2>1, <3>2, <3>4
      <4> QED
        BY <2>1, <3>1, <3>3, <3>4, <4>1
    <3>5. CASE q # p
      BY <2>1, <3>1, <3>2, <3>3, <3>5
    <3> QED
      BY <3>4, <3>5
  <2>4. CommittedIsFinished' /\ WritesLandFirst'
    BY <2>1 DEF KInv, CommittedIsFinished, AllCommittedFinished, WritesLandFirst, Finished, Landed
  <2> QED
    BY <2>2, <2>3, <2>4 DEF KInv
<1>2. ASSUME HandlerPublishes PROVE KInv'
  <2>1. /\ stage = "handling" /\ stage' = "writing" /\ held' = Cascade[Event]
        /\ UNCHANGED <<log, committed, wrote, position, current, fault, popped>>
    BY <1>2 DEF HandlerPublishes, Hold, ledger, history
  <2>2. Event' = Event /\ ~fault
    BY <2>1 DEF Event, KInv, Loop
  <2>3. Loop'
    BY <2>1, <2>2 DEF Loop
  <2> QED
    BY <2>1, <2>3 DEF KInv, Passed, CommittedIsFinished, AllCommittedFinished,
                      WritesLandFirst, Finished, Landed
<1>3. ASSUME HandlerWrites PROVE KInv'
  <2>1. /\ stage = "writing" /\ stage' = "flushing" /\ wrote' = wrote \cup {Event}
        /\ UNCHANGED <<log, committed, position, current, held, fault, popped>>
    BY <1>3 DEF HandlerWrites, ledger, history
  <2>2. \A x : Landed(x) <=> Landed(x)'
    BY <2>1 DEF Landed
  <2>3. Passed' /\ CommittedIsFinished'
    BY <2>1, <2>2, Kept
  <2>4. Loop'
    <3>1. Event' = Event /\ ~fault /\ held = Cascade[Event]
      BY <2>1 DEF Event, KInv, Loop
    <3>2. held \in Seq(Events)
      BY <1>t DEF TypeOK
    <3>3. /\ \A i \in 1..Len(held) : held[i] \in Range(Cascade[Event])
          /\ \A x \in Range(Cascade[Event]) : \E i \in 1..Len(held) : held[i] = x
      BY <3>1, <3>2 DEF Range
    <3> QED
      BY <2>1, <3>1, <3>3 DEF Loop
  <2>5. WritesLandFirst'
    BY <2>1, <2>2 DEF KInv, WritesLandFirst
  <2> QED
    BY <2>3, <2>4, <2>5 DEF KInv
<1>4. ASSUME FlushHeld PROVE KInv'
  <2>0. held # <<>> /\ held \in Seq(Events) /\ Head(held) \in Events
    BY <1>4, <1>t DEF FlushHeld, TypeOK
  <2>e. PICK e \in Events : e = Head(held)
    BY <2>0
  <2>p. PICK p \in Partitions : p = PartitionOf[e]
    OBVIOUS
  <2>1. /\ stage = "flushing"
        /\ log' = [log EXCEPT ![p] = Append(@, e)]
        /\ held' = Tail(held)
        /\ UNCHANGED <<committed, wrote, position, stage, current, fault, popped>>
    BY <1>4, <2>e, <2>p DEF FlushHeld, history
  <2>2. e = held[1] /\ Len(held) > 0 /\ Len(held) \in Nat
        /\ Len(held') = Len(held) - 1 /\ \A i \in 1..Len(held') : held'[i] = held[i + 1]
    BY <2>0, <2>1, <2>e
  <2>3a. \A i \in 1..Len(held) : i = 1 \/ (i - 1 \in 1..Len(held') /\ held'[i - 1] = held[i])
    BY <2>2
  <2>3. /\ \A q \in Partitions : \A i \in 1..Len(log[q]) : log'[q][i] = log[q][i]
        /\ Landed(e)'
        /\ \A x : Landed(x) => Landed(x)'
        /\ \A x : Landed(x)' => Landed(x) \/ x = e
    BY <2>1, <1>t, Appended
  <2>4. Passed' /\ CommittedIsFinished' /\ Event' = Event
    BY <2>1, <2>3, Kept
  <2>5. /\ Event \in wrote /\ ~fault
        /\ \A i \in 1..Len(held) : held[i] \in Range(Cascade[Event])
        /\ \A x \in Range(Cascade[Event]) : (\E i \in 1..Len(held) : held[i] = x) \/ Landed(x)
    BY <2>1 DEF KInv, Loop
  <2>6. \A i \in 1..Len(held') : held'[i] \in Range(Cascade[Event])
    BY <2>2, <2>5
  <2>7. ASSUME NEW x \in Range(Cascade[Event])
        PROVE  (\E i \in 1..Len(held') : held'[i] = x) \/ Landed(x)'
    <3>1. CASE Landed(x)
      BY <3>1, <2>3
    <3>2. CASE \E i \in 1..Len(held) : held[i] = x
      <4>1. PICK i \in 1..Len(held) : held[i] = x
        BY <3>2
      <4>2. CASE i = 1
        BY <4>1, <4>2, <2>2, <2>3
      <4>3. CASE i # 1
        BY <4>1, <4>3, <2>3a
      <4> QED
        BY <4>2, <4>3
    <3> QED
      BY <3>1, <3>2, <2>5
  <2>8. Loop'
    BY <2>1, <2>4, <2>5, <2>6, <2>7 DEF Loop
  <2>9. WritesLandFirst'
    <3>1. e \in Range(Cascade[Event])
      BY <2>2, <2>5
    <3> QED
      BY <3>1, <2>1, <2>3, <2>5 DEF KInv, WritesLandFirst
  <2> QED
    BY <2>4, <2>8, <2>9 DEF KInv
<1>5. ASSUME DispatchFaults PROVE KInv'
  <2>1. /\ fault' = TRUE /\ stage' = "getone"
        /\ UNCHANGED <<log, committed, wrote, position, current, popped>>
    BY <1>5 DEF DispatchFaults, durable
  <2> QED
    BY <2>1 DEF KInv, Loop, Passed, CommittedIsFinished, AllCommittedFinished,
                WritesLandFirst, Finished, Landed
<1>6. ASSUME Commit PROVE KInv'
  <2>1. /\ stage = "flushing" /\ held = <<>> /\ stage' = "getone" /\ committed' = position
        /\ UNCHANGED <<log, wrote, position, current, fault, popped>>
    BY <1>6 DEF Commit, Flushed, history
  <2>2. ~fault /\ Event \in wrote /\ \A x \in Range(Cascade[Event]) : Landed(x)
    BY <2>1 DEF KInv, Loop
  <2>3. Finished(current, position[current])
    BY <2>2 DEF Finished, Event
  <2>4. ~popped => \A q \in Partitions : \A i \in 1..position[q] : Finished(q, i)
    BY <2>1, <2>2, <2>3 DEF KInv, Passed
  <2>5. \A q, i : Finished(q, i)' <=> Finished(q, i)
    BY <2>1 DEF Finished, Landed
  <2>6. Passed' /\ CommittedIsFinished'
    BY <2>1, <2>4, <2>5 DEF Passed, CommittedIsFinished, AllCommittedFinished
  <2>7. Loop' /\ WritesLandFirst'
    BY <2>1, <2>2 DEF KInv, Loop, WritesLandFirst, Landed
  <2> QED
    BY <2>6, <2>7 DEF KInv
<1>7. ASSUME CommitFails PROVE KInv'
  <2>1. /\ stage = "flushing" /\ stage' = "dead"
        /\ UNCHANGED <<log, committed, wrote, position, current, held, fault, popped>>
    BY <1>7 DEF CommitFails, durable, history
  <2> QED
    BY <2>1 DEF KInv, Loop, Passed, CommittedIsFinished, AllCommittedFinished,
                WritesLandFirst, Finished, Landed
<1> QED
  BY <1>1, <1>2, <1>3, <1>4, <1>5, <1>6, <1>7 DEF Poll

\* Every step keeps the invariant; a restart starts over from what was committed.
LEMMA InvStep == ASSUME KInv, [Next]_vars PROVE KInv'
<1>1. TypeOK'
  BY TypedStep DEF KInv
<1>2. CASE Publish
  BY <1>1, <1>2, PublishStep DEF Publish
<1>3. CASE Poll
  BY <1>1, <1>3, PollStep
<1>4. CASE Restart
  <2>1. /\ position' = committed /\ stage' = "getone" /\ fault' = FALSE
        /\ UNCHANGED <<log, committed, wrote, current, popped>>
    BY <1>4 DEF Restart, RestartOffsets, durable, history
  <2> QED
    BY <1>1, <2>1 DEF KInv, Loop, Passed, CommittedIsFinished, AllCommittedFinished,
                      WritesLandFirst, Finished, Landed
<1>5. CASE UNCHANGED vars
  <2>1. UNCHANGED <<log, committed, wrote, position, stage, current, held, fault, popped>>
    BY <1>5 DEF vars, durable, history
  <2> QED
    BY <1>1, <2>1 DEF KInv, Loop, Passed, CommittedIsFinished, AllCommittedFinished,
                      WritesLandFirst, Finished, Landed, Event
<1> QED
  BY <1>2, <1>3, <1>4, <1>5 DEF Next

\* The invariant holds when the process first starts.
LEMMA InvInit == Init => KInv
<1> SUFFICES ASSUME Init PROVE KInv
  OBVIOUS
<1> USE KafkaBusAssumption
<1>1. \A p \in Partitions : log[p] = <<>> /\ Len(log[p]) = 0
  BY DEF Init
<1>2. TypeOK
  <2>1. /\ log \in [Partitions -> Seq(Events)] /\ held \in Seq(Events)
        /\ wrote \subseteq Events /\ dropped \subseteq Events
    BY DEF Init
  <2>2. \A p \in Partitions : /\ committed[p] = 0 /\ position[p] = 0
                              /\ produced[p] = 0 /\ done[p] = 0
    BY DEF Init
  <2>3. /\ committed \in [Partitions -> Nat] /\ position \in [Partitions -> Nat]
        /\ produced \in [Partitions -> Nat] /\ done \in [Partitions -> Nat]
    BY DEF Init
  <2>4. /\ pub \in [Roots -> [at : PublishStates, i : Nat]]
        /\ \A r \in Roots : pub[r].i <= Len(log[PartitionOf[r]])
    BY <1>1 DEF Init, PublishStates
  <2>5. \A p \in Partitions : /\ committed[p] <= position[p] /\ done[p] <= position[p]
                              /\ position[p] <= Len(log[p]) /\ produced[p] <= Len(log[p])
    BY <1>1, <2>2
  <2>6. /\ stage = "getone" /\ current \in Partitions /\ fault = FALSE /\ popped = FALSE
        /\ lives = 0
    BY DEF Init
  <2> QED
    BY <2>1, <2>3, <2>4, <2>5, <2>6 DEF TypeOK, Stages
<1>3. Loop /\ Passed /\ CommittedIsFinished
  BY DEF Init, Loop, Passed, CommittedIsFinished, AllCommittedFinished
<1>4. WritesLandFirst
  <2>1. \A x : ~Landed(x)
    BY <1>1 DEF Landed, Range
  <2> QED
    BY <2>1 DEF WritesLandFirst
<1> QED
  BY <1>2, <1>3, <1>4 DEF KInv

\* The invariant holds in every state of every behaviour.
LEMMA Invariant == Spec => []KInv
BY InvInit, InvStep, PTL DEF Spec

\* The transport's variables keep their types, and no count passes its log.
THEOREM KafkaTypeCorrect == Spec => []TypeOK
<1>1. KInv => TypeOK
  BY DEF KInv
<1> QED
  BY Invariant, <1>1, PTL

\* An offset is committed only over records whose handlers' writes, and all they
\* published, have landed, until some drain has raised a fault.
THEOREM CommitFollowsDelivery == Spec => []CommittedIsFinished
<1>1. KInv => CommittedIsFinished
  BY DEF KInv
<1> QED
  BY Invariant, <1>1, PTL

\* What a handler publishes becomes durable only after that handler's own writes.
THEOREM WritesPrecedePublishes == Spec => []WritesLandFirst
<1>1. KInv => WritesLandFirst
  BY DEF KInv
<1> QED
  BY Invariant, <1>1, PTL
-------------------------------------------------------------------------------
(* A publish returns behind its whole cascade.  base is the offset this life *)
(* started from in each partition: what was produced before it is another    *)
(* life's backlog, and what is produced behind it is counted in the ledger.  *)

\* A record of x was produced in this life, and the ledger waits for it.
Counted(base, x) ==
    \E q \in Partitions, k \in Nat : base[q] < k /\ k <= produced[q] /\ log[q][k] = x

\* The record is lost to a fault, or written, its cascade counted.
Handled(base, q, j) ==
    \/ log[q][j] \in dropped
    \/ log[q][j] \in wrote /\ \A x \in Range(Cascade[log[q][j]]) : Counted(base, x)

\* Every record this life has passed is handled, but the one in hand.
Delivered(base) ==
    \A q \in Partitions, j \in Nat :
        base[q] < j /\ j <= position[q] =>
            Handled(base, q, j) \/ (stage # "getone" /\ q = current /\ j = position[q])

\* What the record in hand gave rise to is held or counted.
Flushing(base) ==
    stage = "flushing" =>
        \A x \in Range(Cascade[Event]) :
            (\E i \in 1..Len(held) : held[i] = x) \/ Counted(base, x)

\* A publish that has not ended landed in this life, and one that drains is counted.
Publishing(base) ==
    \A r \in Roots :
        /\ pub[r].at \in {"landed", "draining"} =>
              base[PartitionOf[r]] < pub[r].i /\ log[PartitionOf[r]][pub[r].i] = r
        /\ pub[r].at = "draining" => pub[r].i <= produced[PartitionOf[r]]

Fence(base) ==
    /\ base \in [Partitions -> Nat]
    /\ \A q \in Partitions : base[q] <= Len(log[q])
    /\ Delivered(base) /\ Flushing(base) /\ Publishing(base)

\* The ledger is behind the record in hand.
InHand == stage # "getone" => done[current] < position[current]

RInv == KInv /\ InHand /\ (\E base : Fence(base)) /\ ReturnedIsDelivered

\* How the logs and what is known of their records may move.
Grows ==
    /\ wrote \subseteq wrote' /\ dropped \subseteq dropped'
    /\ \A q \in Partitions : \A i \in 1..Len(log[q]) : log'[q][i] = log[q][i]
    /\ \A q \in Partitions : Len(log[q]) <= Len(log'[q])
    /\ \A q \in Partitions : produced[q] <= produced'[q]

\* The numbers of the consumer and the ledger.
LEMMA Numbers ==
    ASSUME TypeOK, NEW q \in Partitions
    PROVE  /\ log[q] \in Seq(Events) /\ Len(log[q]) \in Nat
           /\ position[q] \in Nat /\ produced[q] \in Nat /\ done[q] \in Nat
           /\ done[q] <= position[q] /\ position[q] <= Len(log[q]) /\ produced[q] <= Len(log[q])
           /\ \A j \in 1..Len(log[q]) : log[q][j] \in Events
<1>1. log \in [Partitions -> Seq(Events)]
  BY DEF TypeOK
<1>2. log[q] \in Seq(Events)
  BY <1>1
<1>3. Len(log[q]) \in Nat /\ \A j \in 1..Len(log[q]) : log[q][j] \in Events
  BY <1>2
<1>4. position[q] \in Nat /\ produced[q] \in Nat /\ done[q] \in Nat
  BY DEF TypeOK
<1>5. done[q] <= position[q] /\ position[q] <= Len(log[q]) /\ produced[q] <= Len(log[q])
  BY DEF TypeOK
<1> QED
  BY <1>2, <1>3, <1>4, <1>5

LEMMA CountedStays ==
    ASSUME TypeOK, TypeOK', Grows, NEW base \in [Partitions -> Nat]
    PROVE  \A x : Counted(base, x) => Counted(base, x)'
<1> SUFFICES ASSUME NEW x, Counted(base, x) PROVE Counted(base, x)'
  OBVIOUS
<1>1. PICK q \in Partitions, k \in Nat : base[q] < k /\ k <= produced[q] /\ log[q][k] = x
  BY DEF Counted
<1>2. /\ produced[q] \in Nat /\ produced'[q] \in Nat /\ produced[q] <= Len(log[q])
      /\ Len(log[q]) \in Nat /\ base[q] \in Nat /\ produced[q] <= produced'[q]
  BY DEF TypeOK, Grows
<1>3. k \in 1..Len(log[q]) /\ k <= produced'[q]
  BY <1>1, <1>2
<1>4. log'[q][k] = x
  BY <1>1, <1>3 DEF Grows
<1> QED
  BY <1>1, <1>3, <1>4 DEF Counted

LEMMA HandledStays ==
    ASSUME TypeOK, TypeOK', Grows, NEW base \in [Partitions -> Nat],
           NEW q \in Partitions, NEW j \in Nat, base[q] < j, j <= Len(log[q])
    PROVE  Handled(base, q, j) => Handled(base, q, j)'
<1>1. j \in 1..Len(log[q])
  <2>1. Len(log[q]) \in Nat /\ base[q] \in Nat
    BY DEF TypeOK
  <2> QED
    BY <2>1
<1>2. log'[q][j] = log[q][j]
  BY <1>1 DEF Grows
<1>3. \A x : Counted(base, x) => Counted(base, x)'
  BY CountedStays
<1> QED
  BY <1>2, <1>3 DEF Handled, Grows

\* A record of the logs is the same one behind a step.
LEMMA SameRecord ==
    ASSUME TypeOK, Grows, UNCHANGED <<position, current>>,
           stage \in {"handling", "writing", "flushing"}
    PROVE  Event' = Event
<1>1. /\ current \in Partitions /\ position[current] \in Nat /\ position[current] > 0
      /\ position[current] <= Len(log[current]) /\ Len(log[current]) \in Nat
  BY DEF TypeOK
<1>2. position[current] \in 1..Len(log[current])
  BY <1>1
<1> QED
  BY <1>1, <1>2 DEF Event, Grows

\* What a step that leaves the consumer alone keeps of the fence.
LEMMA FenceKept ==
    ASSUME TypeOK, TypeOK', Grows, NEW base, Fence(base),
           UNCHANGED <<position, current>>, stage' = "getone" <=> stage = "getone"
    PROVE  /\ base \in [Partitions -> Nat] /\ \A q \in Partitions : base[q] <= Len(log'[q])
           /\ Delivered(base)'
           /\ \A x : Counted(base, x) => Counted(base, x)'
<1>1. base \in [Partitions -> Nat]
  BY DEF Fence
<1>2. \A x : Counted(base, x) => Counted(base, x)'
  BY <1>1, CountedStays
<1>3. \A q \in Partitions : base[q] <= Len(log'[q])
  <2> TAKE q \in Partitions
  <2>1. base[q] \in Nat /\ base[q] <= Len(log[q]) /\ Len(log[q]) <= Len(log'[q])
    BY <1>1 DEF Fence, Grows
  <2>2. Len(log[q]) \in Nat
    BY Numbers
  <2>3. log' \in [Partitions -> Seq(Events)]
    BY DEF TypeOK
  <2>4. Len(log'[q]) \in Nat
    BY <2>3
  <2> QED
    BY <2>1, <2>2, <2>4
<1>4. Delivered(base)'
  <2> SUFFICES ASSUME NEW q \in Partitions, NEW j \in Nat, base[q] < j, j <= position[q]
               PROVE  \/ Handled(base, q, j)'
                      \/ stage' # "getone" /\ q = current /\ j = position[q]
    BY DEF Delivered
  <2>1. Handled(base, q, j) \/ (stage # "getone" /\ q = current /\ j = position[q])
    BY DEF Fence, Delivered
  <2>2. /\ position[q] \in Nat /\ Len(log[q]) \in Nat /\ position[q] <= Len(log[q])
    BY DEF TypeOK
  <2>3. j <= Len(log[q])
    BY <2>2
  <2> QED
    BY <1>1, <2>1, <2>3, HandledStays
<1> QED
  BY <1>1, <1>2, <1>3, <1>4

\* A publish that returned has delivered its cascade for good.
LEMMA ReturnedStays ==
    ASSUME ReturnedIsDelivered, wrote \subseteq wrote', dropped \subseteq dropped',
           NEW r \in Roots, pub[r].at = "returned"
    PROVE  CascadeOf(r)' \subseteq wrote' \cup dropped'
<1>1. CascadeOf(r)' \subseteq CascadeOf(r)
  <2> SUFFICES ASSUME NEW e \in CascadeOf(r)', NEW S \in SUBSET Events, r \in S,
                      \A x \in S \ dropped : Range(Cascade[x]) \subseteq S
               PROVE  e \in S
    BY DEF CascadeOf
  <2>1. \A x \in S \ dropped' : Range(Cascade[x]) \subseteq S
    OBVIOUS
  <2> QED
    BY <2>1 DEF CascadeOf
<1>2. CascadeOf(r) \subseteq wrote \cup dropped
  BY DEF ReturnedIsDelivered
<1> QED
  BY <1>1, <1>2

\* When the ledger is idle, what this life has passed is closed under cascades.
LEMMA IdleIsClosed ==
    ASSUME TypeOK, InHand, NEW base, Fence(base), ~InFlight,
           NEW r \in Roots, pub[r].at = "draining"
    PROVE  CascadeOf(r) \subseteq wrote \cup dropped
<1> USE KafkaBusAssumption
<1> DEFINE S == {e \in Events : \E q \in Partitions, j \in Nat :
                     base[q] < j /\ j <= done[q] /\ log[q][j] = e}
<1>0. base \in [Partitions -> Nat]
  BY DEF Fence
<1>1. \A q \in Partitions :
         /\ done[q] \in Nat /\ produced[q] \in Nat /\ position[q] \in Nat /\ base[q] \in Nat
         /\ Len(log[q]) \in Nat /\ produced[q] <= done[q]
         /\ done[q] <= position[q] /\ position[q] <= Len(log[q])
         /\ \A j \in 1..Len(log[q]) : log[q][j] \in Events
  <2> TAKE q \in Partitions
  <2>1. base[q] \in Nat /\ ~(done[q] < produced[q])
    BY <1>0 DEF InFlight
  <2> QED
    BY <2>1, Numbers
<1>2. \A x : Counted(base, x) => x \in S
  <2> SUFFICES ASSUME NEW x, Counted(base, x) PROVE x \in S
    OBVIOUS
  <2>1. PICK q \in Partitions, k \in Nat : base[q] < k /\ k <= produced[q] /\ log[q][k] = x
    BY DEF Counted
  <2>2. /\ done[q] \in Nat /\ produced[q] \in Nat /\ position[q] \in Nat /\ base[q] \in Nat
        /\ Len(log[q]) \in Nat /\ produced[q] <= done[q]
        /\ done[q] <= position[q] /\ position[q] <= Len(log[q])
    BY <1>1
  <2>3. k <= done[q] /\ k \in 1..Len(log[q])
    <3> HIDE DEF S
    <3> QED BY <2>1, <2>2
  <2>4. log[q][k] \in Events
    BY <1>1, <2>3
  <2> QED
    BY <2>1, <2>3, <2>4
<1>3. r \in S
  <2>1. PICK q \in Partitions : q = PartitionOf[r]
    OBVIOUS
  <2>2. /\ base[q] < pub[r].i /\ log[q][pub[r].i] = r /\ pub[r].i <= produced[q]
        /\ pub[r].i \in Nat
    BY <2>1 DEF Fence, Publishing, TypeOK
  <2>3. Counted(base, r)
    BY <2>2 DEF Counted
  <2> QED
    BY <1>2, <2>3
<1>4. ASSUME NEW e \in S
      PROVE  e \in dropped \/ (e \in wrote /\ \A x \in Range(Cascade[e]) : x \in S)
  <2>1. PICK q \in Partitions, j \in Nat : base[q] < j /\ j <= done[q] /\ log[q][j] = e
    OBVIOUS
  <2>2. j <= position[q]
    BY <1>1, <2>1
  <2>3. ~(stage # "getone" /\ q = current /\ j = position[q])
    <3> SUFFICES ASSUME stage # "getone", q = current, j = position[q] PROVE FALSE
      OBVIOUS
    <3>1. done[q] < position[q]
      BY DEF InHand
    <3> QED
      BY <1>1, <2>1, <3>1
  <2>4. Handled(base, q, j)
    BY <2>1, <2>2, <2>3 DEF Fence, Delivered
  <2> HIDE DEF S
  <2> QED
    BY <1>2, <2>1, <2>4 DEF Handled
<1>5. \A e \in S \ dropped : Range(Cascade[e]) \subseteq S
  BY <1>4
<1>6. S \subseteq wrote \cup dropped
  BY <1>4
<1>7. S \in SUBSET Events
  OBVIOUS
<1>8. CascadeOf(r) \subseteq S
  <2> HIDE DEF S
  <2> QED
    BY <1>3, <1>5, <1>7 DEF CascadeOf
<1> QED
  BY <1>6, <1>8

LEMMA FencedPublishes ==
    ASSUME RInv, KInv', NEW r \in Roots, Send(r) \/ Sent(r) \/ DrainReturns(r)
    PROVE  RInv'
<1> USE KafkaBusAssumption
<1>t. TypeOK /\ TypeOK' /\ InHand /\ ReturnedIsDelivered
  BY DEF RInv, KInv
<1>b. PICK base : Fence(base)
  BY DEF RInv
<1>p. PICK p \in Partitions : p = PartitionOf[r]
  OBVIOUS
<1>l. /\ base \in [Partitions -> Nat] /\ pub \in [Roots -> [at : PublishStates, i : Nat]]
      /\ \A q \in Partitions : /\ log[q] \in Seq(Events) /\ Len(log[q]) \in Nat
                               /\ produced[q] \in Nat /\ base[q] <= Len(log[q])
  <2>1. base \in [Partitions -> Nat] /\ \A q \in Partitions : base[q] <= Len(log[q])
    BY <1>b DEF Fence
  <2>2. pub \in [Roots -> [at : PublishStates, i : Nat]]
    BY <1>t DEF TypeOK
  <2> QED
    BY <2>1, <2>2, <1>t, Numbers
<1>1. ASSUME Send(r) PROVE RInv'
  <2>1. /\ r \in Events /\ log' = [log EXCEPT ![p] = Append(@, r)]
        /\ pub' = [pub EXCEPT ![r] = [at |-> "landed", i |-> Len(log[p]) + 1]]
        /\ UNCHANGED <<wrote, dropped, position, produced, done, stage, current, held>>
    BY <1>1, <1>p DEF Send, ledger, history
  <2>2. /\ Len(log'[p]) = Len(log[p]) + 1 /\ log'[p][Len(log[p]) + 1] = r
        /\ \A q \in Partitions : /\ Len(log[q]) <= Len(log'[q])
                                 /\ \A i \in 1..Len(log[q]) : log'[q][i] = log[q][i]
    <3>1. log' = [log EXCEPT ![p] = Append(@, r)] /\ log \in [Partitions -> Seq(Events)]
      BY <2>1, <1>t DEF TypeOK
    <3>2. log'[p] = Append(log[p], r) /\ log[p] \in Seq(Events)
      BY <3>1
    <3>3. log'[p][Len(log[p]) + 1] = r
      BY <3>2
    <3> QED
      BY <2>1, <3>3, <1>t, Appended
  <2>3. Grows
    BY <2>1, <2>2, <1>l DEF Grows
  <2>4. /\ \A q \in Partitions : base[q] <= Len(log'[q])
        /\ Delivered(base)' /\ \A x : Counted(base, x) => Counted(base, x)'
    BY <1>b, <1>t, <2>1, <2>3, FenceKept
  <2>5. Flushing(base)'
    <3>1. stage = "flushing" => Event' = Event
      BY <1>t, <2>1, <2>3, SameRecord
    <3> QED
      BY <1>b, <2>1, <2>4, <3>1 DEF Fence, Flushing
  <2>6. Publishing(base)'
    <3> SUFFICES ASSUME NEW s \in Roots
                 PROVE  /\ pub'[s].at \in {"landed", "draining"} =>
                              /\ base[PartitionOf[s]] < pub'[s].i
                              /\ log'[PartitionOf[s]][pub'[s].i] = s
                        /\ pub'[s].at = "draining" => pub'[s].i <= produced[PartitionOf[s]]
      BY <2>1 DEF Publishing
    <3>1. CASE s = r
      <4>1. pub'[s] = [at |-> "landed", i |-> Len(log[p]) + 1]
        BY <2>1, <3>1, <1>l
      <4>2. base[p] < Len(log[p]) + 1
        BY <1>l
      <4> QED
        BY <4>1, <4>2, <3>1, <2>2, <1>p
    <3>2. CASE s # r
      <4>1. pub'[s] = pub[s]
        BY <2>1, <3>2, <1>l
      <4>2. PICK q \in Partitions : q = PartitionOf[s]
        OBVIOUS
      <4>3. pub[s].i \in Nat /\ pub[s].i <= Len(log[q]) /\ base[q] \in Nat
        BY <4>2, <1>t, <1>l DEF TypeOK
      <4>e. base[q] < pub[s].i => pub[s].i \in 1..Len(log[q])
        BY <4>3, <1>l
      <4>4. base[q] < pub[s].i => log'[q][pub[s].i] = log[q][pub[s].i]
        BY <4>e, <2>2
      <4>5. /\ pub[s].at \in {"landed", "draining"} => base[q] < pub[s].i /\ log[q][pub[s].i] = s
            /\ pub[s].at = "draining" => pub[s].i <= produced[q]
        BY <4>2, <1>b DEF Fence, Publishing
      <4> QED
        BY <4>1, <4>2, <4>4, <4>5
    <3> QED
      BY <3>1, <3>2
  <2>7. ReturnedIsDelivered'
    <3> SUFFICES ASSUME NEW s \in Roots, pub'[s].at = "returned"
                 PROVE  CascadeOf(s)' \subseteq wrote' \cup dropped'
      BY DEF ReturnedIsDelivered
    <3>1. pub[s].at = "returned"
      BY <2>1, <1>l
    <3> QED
      BY <3>1, <2>1, <1>t, ReturnedStays
  <2> QED
    BY <2>1, <2>4, <2>5, <2>6, <2>7, <1>l, <1>t DEF RInv, Fence, InHand
<1>2. ASSUME Sent(r) PROVE RInv'
  <2>1. /\ pub[r].at = "landed" /\ pub' = [pub EXCEPT ![r].at = "draining"]
        /\ produced' = [produced EXCEPT ![p] = IF pub[r].i > @ THEN pub[r].i ELSE @]
        /\ UNCHANGED <<log, wrote, dropped, position, done, stage, current, held>>
    BY <1>2, <1>p DEF Sent, RecordProduced, durable, history
  <2>2. /\ pub[r].i \in Nat /\ pub[r].i <= produced'[p]
        /\ \A q \in Partitions : produced[q] <= produced'[q]
    <3>0. pub[r].i \in Nat /\ produced \in [Partitions -> Nat]
      BY <1>l, <1>t DEF TypeOK
    <3>1. produced'[p] = IF pub[r].i > produced[p] THEN pub[r].i ELSE produced[p]
      BY <2>1, <3>0
    <3>2. \A q \in Partitions : q # p => produced'[q] = produced[q]
      BY <2>1, <3>0
    <3>3. pub[r].i <= produced'[p] /\ produced[p] <= produced'[p]
      BY <3>0, <3>1
    <3>4. \A q \in Partitions : q # p => produced[q] <= produced'[q]
      BY <3>0, <3>2
    <3> QED
      BY <3>0, <3>3, <3>4
  <2>3. Grows
    BY <2>1, <2>2, <1>l DEF Grows
  <2>4. /\ \A q \in Partitions : base[q] <= Len(log'[q])
        /\ Delivered(base)' /\ \A x : Counted(base, x) => Counted(base, x)'
    BY <1>b, <1>t, <2>1, <2>3, FenceKept
  <2>5. Flushing(base)'
    BY <1>b, <2>1, <2>4 DEF Fence, Flushing, Event
  <2>6. Publishing(base)'
    <3> SUFFICES ASSUME NEW s \in Roots
                 PROVE  /\ pub'[s].at \in {"landed", "draining"} =>
                              /\ base[PartitionOf[s]] < pub'[s].i
                              /\ log[PartitionOf[s]][pub'[s].i] = s
                        /\ pub'[s].at = "draining" => pub'[s].i <= produced'[PartitionOf[s]]
      BY <2>1 DEF Publishing
    <3>1. CASE s = r
      <4>1. pub'[s].i = pub[r].i
        BY <2>1, <3>1, <1>l
      <4>2. base[p] < pub[r].i /\ log[p][pub[r].i] = r
        BY <1>b, <1>p, <2>1 DEF Fence, Publishing
      <4> QED
        BY <4>1, <4>2, <3>1, <2>2, <1>p
    <3>2. CASE s # r
      <4>1. pub'[s] = pub[s]
        BY <2>1, <3>2, <1>l
      <4>2. PICK q \in Partitions : q = PartitionOf[s]
        OBVIOUS
      <4>3. /\ pub[s].i \in Nat /\ produced[q] \in Nat /\ produced'[q] \in Nat
            /\ produced[q] <= produced'[q]
        BY <1>t, <1>l, <2>2 DEF TypeOK
      <4>4. /\ pub[s].at \in {"landed", "draining"} => base[q] < pub[s].i /\ log[q][pub[s].i] = s
            /\ pub[s].at = "draining" => pub[s].i <= produced[q]
        BY <4>2, <1>b DEF Fence, Publishing
      <4>5. pub[s].i <= produced[q] => pub[s].i <= produced'[q]
        BY <4>3
      <4> QED
        BY <4>1, <4>2, <4>4, <4>5
    <3> QED
      BY <3>1, <3>2
  <2>7. ReturnedIsDelivered'
    <3> SUFFICES ASSUME NEW s \in Roots, pub'[s].at = "returned"
                 PROVE  CascadeOf(s)' \subseteq wrote' \cup dropped'
      BY DEF ReturnedIsDelivered
    <3>1. pub[s].at = "returned"
      BY <2>1, <1>l
    <3> QED
      BY <3>1, <2>1, <1>t, ReturnedStays
  <2> QED
    BY <2>1, <2>4, <2>5, <2>6, <2>7, <1>l, <1>t DEF RInv, Fence, InHand
<1>3. ASSUME DrainReturns(r) PROVE RInv'
  <2>1. /\ pub[r].at = "draining" /\ ~InFlight
        /\ pub' = [pub EXCEPT ![r].at = IF fault THEN "raised" ELSE "returned"]
        /\ UNCHANGED <<log, wrote, dropped, position, produced, done, stage, current, held>>
    BY <1>3 DEF DrainReturns, durable, ledger
  <2>2. CascadeOf(r) \subseteq wrote \cup dropped
    BY <1>b, <1>t, <2>1, IdleIsClosed
  <2>3. Fence(base)'
    <3>1. \A s \in Roots : pub'[s].at \in {"landed", "draining"} => pub'[s] = pub[s]
      BY <2>1, <1>l
    <3>2. Publishing(base)'
      BY <2>1, <3>1, <1>b DEF Fence, Publishing
    <3>3. Delivered(base)' /\ Flushing(base)'
      BY <2>1, <1>b DEF Fence, Delivered, Flushing, Handled, Counted, Event
    <3> QED
      BY <2>1, <3>2, <3>3, <1>b DEF Fence
  <2>4. ReturnedIsDelivered'
    <3> SUFFICES ASSUME NEW s \in Roots, pub'[s].at = "returned"
                 PROVE  CascadeOf(s)' \subseteq wrote' \cup dropped'
      BY DEF ReturnedIsDelivered
    <3>1. CASE s = r
      BY <2>1, <2>2, <3>1 DEF CascadeOf
    <3>2. CASE s # r
      <4>1. pub[s].at = "returned"
        BY <2>1, <3>2, <1>l
      <4> QED
        BY <4>1, <2>1, <1>t, ReturnedStays
    <3> QED
      BY <3>1, <3>2
  <2> QED
    BY <2>1, <2>3, <2>4, <1>t DEF RInv, InHand
<1> QED
  BY <1>1, <1>2, <1>3

\* What the steps of the poll loop leave alone, the publishes that returned too.
LEMMA PollsKeep ==
    ASSUME RInv, KInv', Grows, UNCHANGED pub, NEW base, Fence(base)
    PROVE  Publishing(base)' /\ ReturnedIsDelivered'
<1> USE KafkaBusAssumption
<1>1. Publishing(base)'
  <2> SUFFICES ASSUME NEW s \in Roots
               PROVE  /\ pub[s].at \in {"landed", "draining"} =>
                            /\ base[PartitionOf[s]] < pub[s].i
                            /\ log'[PartitionOf[s]][pub[s].i] = s
                      /\ pub[s].at = "draining" => pub[s].i <= produced'[PartitionOf[s]]
    BY DEF Publishing
  <2>1. PICK q \in Partitions : q = PartitionOf[s]
    OBVIOUS
  <2>2. /\ pub[s].i \in Nat /\ pub[s].i <= Len(log[q]) /\ Len(log[q]) \in Nat /\ base[q] \in Nat
        /\ produced[q] \in Nat /\ produced'[q] \in Nat /\ produced[q] <= produced'[q]
    <3>1. /\ TypeOK /\ produced' \in [Partitions -> Nat] /\ base \in [Partitions -> Nat]
          /\ produced[q] <= produced'[q]
      BY DEF RInv, KInv, TypeOK, Fence, Grows
    <3>2. pub[s].i \in Nat /\ pub[s].i <= Len(log[q])
      BY <2>1, <3>1 DEF TypeOK
    <3> QED
      BY <3>1, <3>2, Numbers
  <2>3. /\ pub[s].at \in {"landed", "draining"} => base[q] < pub[s].i /\ log[q][pub[s].i] = s
        /\ pub[s].at = "draining" => pub[s].i <= produced[q]
    BY <2>1 DEF Fence, Publishing
  <2>4. base[q] < pub[s].i => pub[s].i \in 1..Len(log[q])
    BY <2>2
  <2>5. base[q] < pub[s].i => log'[q][pub[s].i] = log[q][pub[s].i]
    BY <2>4 DEF Grows
  <2>6. pub[s].i <= produced[q] => pub[s].i <= produced'[q]
    BY <2>2
  <2> QED
    BY <2>1, <2>3, <2>5, <2>6
<1>2. ReturnedIsDelivered'
  <2> SUFFICES ASSUME NEW s \in Roots, pub[s].at = "returned"
               PROVE  CascadeOf(s)' \subseteq wrote' \cup dropped'
    BY DEF ReturnedIsDelivered
  <2> QED
    BY ReturnedStays DEF RInv, Grows
<1> QED
  BY <1>1, <1>2

LEMMA FencedPolls ==
    ASSUME RInv, KInv', Poll PROVE RInv'
<1> USE KafkaBusAssumption
<1>t. TypeOK /\ TypeOK' /\ Loop /\ InHand /\ ReturnedIsDelivered
  BY DEF RInv, KInv
<1>b. PICK base : Fence(base)
  BY DEF RInv
<1>l. /\ base \in [Partitions -> Nat] /\ current \in Partitions
      /\ position \in [Partitions -> Nat] /\ done \in [Partitions -> Nat]
      /\ \A q \in Partitions :
            /\ Len(log[q]) \in Nat /\ produced[q] \in Nat /\ base[q] <= Len(log[q])
            /\ position[q] \in Nat /\ done[q] \in Nat
            /\ done[q] <= position[q] /\ position[q] <= Len(log[q])
  <2>1. base \in [Partitions -> Nat] /\ \A q \in Partitions : base[q] <= Len(log[q])
    BY <1>b DEF Fence
  <2>2. /\ current \in Partitions /\ position \in [Partitions -> Nat]
        /\ done \in [Partitions -> Nat]
    BY <1>t DEF TypeOK
  <2> QED
    BY <2>1, <2>2, <1>t, Numbers
<1>1. ASSUME NEW p \in Partitions, GetOne(p) PROVE RInv'
  <2>1. /\ stage = "getone" /\ position' = [position EXCEPT ![p] = @ + 1]
        /\ UNCHANGED <<log, wrote, produced, held, pub>>
        /\ \/ /\ done' = [done EXCEPT ![p] = position[p] + 1]
              /\ dropped' = dropped \cup {log[p][position[p] + 1]}
              /\ UNCHANGED <<stage, current>>
           \/ /\ stage' = "handling" /\ current' = p
              /\ UNCHANGED <<done, dropped>>
    BY <1>1 DEF GetOne, durable, RecordCommitted
  <2>2. Grows
    BY <2>1, <1>l DEF Grows
  <2>3. /\ position'[p] = position[p] + 1
        /\ \A q \in Partitions : q # p => position'[q] = position[q]
    BY <2>1, <1>l
  <2>4. Publishing(base)' /\ ReturnedIsDelivered'
    BY <2>1, <2>2, <1>b, PollsKeep
  <2>5. Delivered(base)'
    <3> SUFFICES ASSUME NEW q \in Partitions, NEW j \in Nat, base[q] < j, j <= position'[q]
                 PROVE  \/ Handled(base, q, j)'
                        \/ stage' # "getone" /\ q = current' /\ j = position'[q]
      BY DEF Delivered
    <3>1. CASE j <= position[q]
      <4>1. Handled(base, q, j)
        BY <3>1, <2>1, <1>b DEF Fence, Delivered
      <4>2. j <= Len(log[q])
        BY <3>1, <1>l
      <4> QED
        BY <4>1, <4>2, <1>l, <1>t, <2>2, HandledStays
    <3>2. CASE ~(j <= position[q])
      <4>e. q # p => position'[q] = position[q]
        BY <2>3
      <4>f. q = p
        BY <3>2, <4>e
      <4>g. position[p] \in Nat /\ j <= position[p] + 1 /\ ~(j <= position[p])
        BY <3>2, <2>3, <4>f, <1>l
      <4>1. q = p /\ j = position[p] + 1
        BY <4>f, <4>g
      <4>2. CASE dropped' = dropped \cup {log[p][position[p] + 1]}
        BY <4>1, <4>2, <2>1 DEF Handled
      <4>3. CASE stage' = "handling" /\ current' = p
        BY <4>1, <4>3, <2>3
      <4> QED
        BY <4>2, <4>3, <2>1
    <3> QED
      BY <3>1, <3>2
  <2>6. InHand' /\ Flushing(base)'
    <3>1. stage' # "flushing"
      BY <2>1
    <3>2. stage' # "getone" => current' = p /\ done' = done
      BY <2>1
    <3>3. done[p] < position[p] + 1
      BY <1>l
    <3> QED
      BY <3>1, <3>2, <3>3, <2>3 DEF InHand, Flushing
  <2> QED
    BY <2>1, <2>4, <2>5, <2>6, <1>b DEF RInv, Fence
<1>2. ASSUME HandlerPublishes PROVE RInv'
  <2>1. /\ stage = "handling" /\ stage' = "writing"
        /\ UNCHANGED <<log, wrote, dropped, position, produced, done, current, pub>>
    BY <1>2 DEF HandlerPublishes, Hold, ledger, history
  <2>2. Grows
    BY <2>1, <1>l DEF Grows
  <2>3. Publishing(base)' /\ ReturnedIsDelivered'
    BY <2>1, <2>2, <1>b, PollsKeep
  <2>4. Delivered(base)' /\ \A q \in Partitions : base[q] <= Len(log'[q])
    BY <2>1, <2>2, <1>b, <1>t, FenceKept
  <2> QED
    BY <2>1, <2>3, <2>4, <1>l, <1>t DEF RInv, Fence, InHand, Flushing
<1>3. ASSUME HandlerWrites PROVE RInv'
  <2>1. /\ stage = "writing" /\ stage' = "flushing" /\ wrote' = wrote \cup {Event}
        /\ UNCHANGED <<log, dropped, position, produced, done, current, held, pub>>
    BY <1>3 DEF HandlerWrites, ledger, history
  <2>2. Grows
    BY <2>1, <1>l DEF Grows
  <2>3. Publishing(base)' /\ ReturnedIsDelivered'
    BY <2>1, <2>2, <1>b, PollsKeep
  <2>4. Delivered(base)' /\ \A q \in Partitions : base[q] <= Len(log'[q])
    BY <2>1, <2>2, <1>b, <1>t, FenceKept
  <2>5. Flushing(base)'
    <3>1. Event' = Event /\ held' = Cascade[Event] /\ held \in Seq(Events)
      BY <2>1, <1>t DEF Event, Loop, TypeOK
    <3>2. \A x \in Range(Cascade[Event]) : \E i \in 1..Len(held') : held'[i] = x
      <4>1. held = Cascade[Event] /\ held' = held /\ DOMAIN held = 1..Len(held)
        BY <2>1, <3>1
      <4> QED
        BY <4>1 DEF Range
    <3> QED
      BY <3>1, <3>2 DEF Flushing
  <2> QED
    BY <2>1, <2>3, <2>4, <2>5, <1>l, <1>t DEF RInv, Fence, InHand
<1>4. ASSUME FlushHeld PROVE RInv'
  <2>0. held # <<>> /\ held \in Seq(Events) /\ Head(held) \in Events
    BY <1>4, <1>t DEF FlushHeld, TypeOK
  <2>e. PICK e \in Events : e = Head(held)
    BY <2>0
  <2>p. PICK p \in Partitions : p = PartitionOf[e]
    OBVIOUS
  <2>1. /\ stage = "flushing" /\ stage' = "flushing"
        /\ log' = [log EXCEPT ![p] = Append(@, e)]
        /\ produced' = [produced EXCEPT ![p] = IF Len(log[p]) + 1 > @ THEN Len(log[p]) + 1 ELSE @]
        /\ held' = Tail(held)
        /\ UNCHANGED <<wrote, dropped, position, done, current, pub>>
    BY <1>4, <2>e, <2>p DEF FlushHeld, RecordProduced, history
  <2>2. /\ log[p] \in Seq(Events) /\ log'[p] = Append(log[p], e)
        /\ Len(log'[p]) = Len(log[p]) + 1 /\ log'[p][Len(log[p]) + 1] = e
        /\ \A q \in Partitions : /\ Len(log[q]) <= Len(log'[q])
                                 /\ \A i \in 1..Len(log[q]) : log'[q][i] = log[q][i]
    <3>1. log' = [log EXCEPT ![p] = Append(@, e)] /\ log \in [Partitions -> Seq(Events)]
      BY <2>1, <1>t DEF TypeOK
    <3>2. log'[p] = Append(log[p], e) /\ log[p] \in Seq(Events)
      BY <3>1
    <3>3. log'[p][Len(log[p]) + 1] = e
      BY <3>2
    <3> QED
      BY <2>1, <3>2, <3>3, <1>t, Appended
  <2>3. /\ Len(log[p]) + 1 <= produced'[p]
        /\ \A q \in Partitions : produced[q] <= produced'[q]
    <3>0. produced \in [Partitions -> Nat]
      BY <1>t DEF TypeOK
    <3>1. produced'[p] = IF Len(log[p]) + 1 > produced[p] THEN Len(log[p]) + 1 ELSE produced[p]
      BY <2>1, <3>0
    <3>2. \A q \in Partitions : q # p => produced'[q] = produced[q]
      BY <2>1, <3>0
    <3>3. Len(log[p]) + 1 <= produced'[p] /\ produced[p] <= produced'[p]
      <4>1. Len(log[p]) \in Nat /\ produced[p] \in Nat
        BY <2>1, <1>l
      <4> QED
        BY <3>1, <4>1
    <3>4. \A q \in Partitions : q # p => produced[q] <= produced'[q]
      BY <1>l, <3>2
    <3> QED
      BY <3>3, <3>4
  <2>4. Grows
    BY <2>1, <2>2, <2>3 DEF Grows
  <2>5. Publishing(base)' /\ ReturnedIsDelivered'
    BY <2>1, <2>4, <1>b, PollsKeep
  <2>6. /\ Delivered(base)' /\ \A q \in Partitions : base[q] <= Len(log'[q])
        /\ \A x : Counted(base, x) => Counted(base, x)'
    BY <2>1, <2>4, <1>b, <1>t, FenceKept
  <2>7. Counted(base, e)'
    <3>1. base[p] < Len(log[p]) + 1 /\ Len(log[p]) + 1 \in Nat
      BY <1>l
    <3> QED
      BY <3>1, <2>2, <2>3 DEF Counted
  <2>8. Flushing(base)'
    <3>1. Event' = Event
      BY <1>t, <2>1, <2>4, SameRecord
    <3>2. /\ e = held[1] /\ Len(held) \in Nat /\ Len(held') = Len(held) - 1
          /\ \A i \in 1..Len(held') : held'[i] = held[i + 1]
      BY <2>0, <2>1, <2>e
    <3>3. \A i \in 1..Len(held) : i = 1 \/ (i - 1 \in 1..Len(held') /\ held'[i - 1] = held[i])
      BY <3>2
    <3>4. ASSUME NEW x \in Range(Cascade[Event])
          PROVE  (\E i \in 1..Len(held') : held'[i] = x) \/ Counted(base, x)'
      <4>1. (\E i \in 1..Len(held) : held[i] = x) \/ Counted(base, x)
        BY <2>1, <1>b DEF Fence, Flushing
      <4>2. CASE Counted(base, x)
        BY <4>2, <2>6
      <4>3. ASSUME NEW i \in 1..Len(held), held[i] = x
            PROVE  (\E k \in 1..Len(held') : held'[k] = x) \/ Counted(base, x)'
        BY <4>3, <3>2, <3>3, <2>7
      <4> QED
        BY <4>1, <4>2, <4>3
    <3> QED
      BY <3>1, <3>4 DEF Flushing
  <2> QED
    BY <2>1, <2>5, <2>6, <2>8, <1>l, <1>t DEF RInv, Fence, InHand
<1>5. ASSUME DispatchFaults PROVE RInv'
  <2>1. /\ stage' = "getone" /\ dropped' = dropped \cup {Event}
        /\ UNCHANGED <<log, wrote, position, produced, current, pub>>
    BY <1>5 DEF DispatchFaults, durable
  <2>2. Grows
    BY <2>1, <1>l DEF Grows
  <2>3. Publishing(base)' /\ ReturnedIsDelivered'
    BY <2>1, <2>2, <1>b, PollsKeep
  <2>4. Delivered(base)'
    <3> SUFFICES ASSUME NEW q \in Partitions, NEW j \in Nat, base[q] < j, j <= position[q]
                 PROVE  Handled(base, q, j)'
      BY <2>1 DEF Delivered
    <3>1. j <= Len(log[q])
      BY <1>l
    <3>2. Handled(base, q, j) => Handled(base, q, j)'
      BY <3>1, <1>l, <1>t, <2>2, HandledStays
    <3>3. q = current /\ j = position[q] => Handled(base, q, j)'
      BY <2>1 DEF Handled, Event
    <3> QED
      BY <3>2, <3>3, <1>b DEF Fence, Delivered
  <2> QED
    BY <2>1, <2>3, <2>4, <1>b DEF RInv, Fence, InHand, Flushing
<1>6. ASSUME Commit PROVE RInv'
  <2>1. /\ stage = "flushing" /\ held = <<>> /\ stage' = "getone"
        /\ UNCHANGED <<log, wrote, dropped, position, produced, current, pub>>
    BY <1>6 DEF Commit, Flushed, history
  <2>2. Grows
    BY <2>1, <1>l DEF Grows
  <2>3. Publishing(base)' /\ ReturnedIsDelivered'
    BY <2>1, <2>2, <1>b, PollsKeep
  <2>4. Delivered(base)'
    <3> SUFFICES ASSUME NEW q \in Partitions, NEW j \in Nat, base[q] < j, j <= position[q]
                 PROVE  Handled(base, q, j)'
      BY <2>1 DEF Delivered
    <3>1. j <= Len(log[q])
      BY <1>l
    <3>2. Handled(base, q, j) => Handled(base, q, j)'
      BY <3>1, <1>l, <1>t, <2>2, HandledStays
    <3>3. ASSUME q = current, j = position[q] PROVE Handled(base, q, j)
      <4>1. Event \in wrote /\ \A x \in Range(Cascade[Event]) : Counted(base, x)
        BY <2>1, <1>t, <1>b DEF Loop, Fence, Flushing
      <4> QED
        BY <3>3, <4>1 DEF Handled, Event
    <3> QED
      BY <3>2, <3>3, <1>b DEF Fence, Delivered
  <2> QED
    BY <2>1, <2>3, <2>4, <1>b DEF RInv, Fence, InHand, Flushing
<1>7. ASSUME CommitFails PROVE RInv'
  <2>1. /\ stage = "flushing" /\ stage' = "dead"
        /\ UNCHANGED <<log, wrote, dropped, position, produced, done, current, held, pub>>
    BY <1>7 DEF CommitFails, durable, ledger, history
  <2>2. Grows
    BY <2>1, <1>l DEF Grows
  <2>3. Publishing(base)' /\ ReturnedIsDelivered'
    BY <2>1, <2>2, <1>b, PollsKeep
  <2>4. Delivered(base)'
    BY <2>1, <2>2, <1>b, <1>t, FenceKept
  <2> QED
    BY <2>1, <2>3, <2>4, <1>b, <1>t DEF RInv, Fence, InHand, Flushing
<1> QED
  BY <1>1, <1>2, <1>3, <1>4, <1>5, <1>6, <1>7 DEF Poll

\* A restart starts over: nothing of this life has passed, and no publish is left.
LEMMA FencedRestarts == ASSUME RInv, KInv', Restart PROVE RInv'
<1>1. /\ position' = committed /\ stage' = "getone"
      /\ pub' = [r \in Roots |->
                   IF pub[r].at \in {"landed", "draining"} THEN [pub[r] EXCEPT !.at = "gone"]
                   ELSE pub[r]]
      /\ UNCHANGED <<log, wrote, dropped>>
  BY DEF Restart, RestartOffsets, durable, history
<1>2. pub \in [Roots -> [at : PublishStates, i : Nat]]
  BY DEF RInv, KInv, TypeOK
<1>3. /\ \A r \in Roots : pub'[r].at \notin {"landed", "draining"}
      /\ \A r \in Roots : pub'[r].at = "returned" => pub[r].at = "returned"
  BY <1>1, <1>2
<1>4. ReturnedIsDelivered'
  <2> SUFFICES ASSUME NEW s \in Roots, pub'[s].at = "returned"
               PROVE  CascadeOf(s)' \subseteq wrote' \cup dropped'
    BY DEF ReturnedIsDelivered
  <2>1. pub[s].at = "returned"
    BY <1>3
  <2> QED
    BY <2>1, <1>1, ReturnedStays DEF RInv
<1>5. /\ position' \in [Partitions -> Nat]
      /\ \A q \in Partitions : position'[q] \in Nat /\ position'[q] <= Len(log'[q])
  BY DEF KInv, TypeOK
<1>6. PICK base : base = position'
  OBVIOUS
<1>7. Delivered(base)'
  <2> SUFFICES ASSUME NEW q \in Partitions, NEW j \in Nat, base[q] < j, j <= position'[q]
               PROVE  FALSE
    BY DEF Delivered
  <2> QED
    BY <1>5, <1>6
<1>8. Fence(base)'
  BY <1>1, <1>3, <1>5, <1>6, <1>7 DEF Fence, Flushing, Publishing
<1> QED
  BY <1>1, <1>4, <1>8 DEF RInv, InHand

LEMMA FencedSteps == ASSUME RInv, [Next]_vars PROVE RInv'
<1>1. KInv'
  BY InvStep DEF RInv
<1>2. CASE Publish
  BY <1>1, <1>2, FencedPublishes DEF Publish
<1>3. CASE Poll
  BY <1>1, <1>3, FencedPolls
<1>4. CASE Restart
  BY <1>1, <1>4, FencedRestarts
<1>5. CASE UNCHANGED vars
  <2>1. UNCHANGED <<log, wrote, dropped, position, produced, done, stage, current, held, pub>>
    BY <1>5 DEF vars, durable, ledger, history
  <2>2. PICK base : Fence(base)
    BY DEF RInv
  <2>3. Fence(base)'
    BY <2>1, <2>2 DEF Fence, Delivered, Flushing, Publishing, Handled, Counted, Event
  <2>4. InHand' /\ ReturnedIsDelivered'
    BY <2>1 DEF RInv, InHand, ReturnedIsDelivered, CascadeOf
  <2> QED
    BY <1>1, <2>3, <2>4 DEF RInv
<1> QED
  BY <1>2, <1>3, <1>4, <1>5 DEF Next

LEMMA FencedInit == Init => RInv
<1> SUFFICES ASSUME Init PROVE RInv
  OBVIOUS
<1>1. KInv
  BY InvInit
<1>2. PICK base : base = [q \in Partitions |-> 0]
  OBVIOUS
<1>3. /\ \A q \in Partitions : position[q] = 0 /\ base[q] = 0 /\ log[q] = <<>>
      /\ \A r \in Roots : pub[r].at = "ready"
      /\ stage = "getone"
  BY <1>2 DEF Init
<1>4. Delivered(base)
  <2> SUFFICES ASSUME NEW q \in Partitions, NEW j \in Nat, base[q] < j, j <= position[q]
               PROVE  FALSE
    BY DEF Delivered
  <2> QED
    BY <1>3
<1>5. Fence(base)
  <2>1. base \in [Partitions -> Nat] /\ \A q \in Partitions : base[q] <= Len(log[q])
    BY <1>2, <1>3
  <2> QED
    BY <2>1, <1>3, <1>4 DEF Fence, Flushing, Publishing
<1>6. InHand /\ ReturnedIsDelivered
  BY <1>3 DEF InHand, ReturnedIsDelivered
<1> QED
  BY <1>1, <1>5, <1>6 DEF RInv

\* A publish returns only when its whole cascade has been delivered or lost to a
\* fault, beside any other publishes and any backlog of an earlier life.
THEOREM DrainsReachTheEnd == Spec => []ReturnedIsDelivered
<1>1. RInv => ReturnedIsDelivered
  BY DEF RInv
<1> QED
  BY FencedInit, FencedSteps, <1>1, PTL DEF Spec

=============================================================================
