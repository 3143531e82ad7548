-------------------------- MODULE StrategyHostProofs --------------------------
(***************************************************************************)
(* What StrategyHost guarantees holds in every behaviour, for every script *)
(* over every set of symbols, and any number of ticks, kills, teardowns,   *)
(* repeated ticks, errors and failed restores.                             *)
(***************************************************************************)
EXTENDS StrategyHostProperties, SequenceTheorems, TLAPS

-------------------------------------------------------------------------------
(* The inductive invariant                                                 *)

IsQueue(l) == l \in Seq({l[i] : i \in DOMAIN l})

\* The positions of a queue's signals.
Asked(l) == {i \in DOMAIN l : l[i].kind \in Kinds}

HostTypes ==
    /\ current \in Symbols /\ stage \in Stages /\ phase \in {"boot", "running"}
    /\ DOMAIN topic = Symbols /\ IsQueue(held)
    /\ \A s \in Symbols : IsQueue(topic[s])
    /\ committed \in [Symbols -> Nat] /\ record \in Nat
    /\ DOMAIN mem = Symbols /\ DOMAIN snapshot = Symbols
    /\ \A s \in Symbols : mem[s].step \in Nat /\ snapshot[s].step \in Nat
    /\ rows \in [DOMAIN rows -> [symbol : Symbols, state : States, marker : Nat]]

\* What is being dispatched is on the broker until it is committed; signals wait
\* only behind the tick that made them.
Dispatching ==
    /\ stage # "idle" => committed[current] < Len(topic[current])
    /\ stage = "saving" \/ held # <<>> =>
          phase = "running" /\ stage \in {"saving", "flushing"} /\ Signal.kind = "tick"
    /\ stage \in {"sending", "sent"} => Signal.kind = "place"
    /\ stage = "cancelling" => Signal.kind \in {"cancel", "cancel_all"}
    /\ todo # {} => stage = "cancelling" /\ todo \subseteq DOMAIN rows

\* The store's seq record is the high water of everything that was ever published:
\* seqs grow along a topic, the held ones above all of them, and a running emitter
\* gives the one above the record.
Numbered ==
    /\ phase = "running" => nextSeq = record + 1
    /\ \A s \in Symbols : \A i \in Asked(topic[s]) : topic[s][i].seq \in 1..record
    /\ \A s \in Symbols : \A i, j \in Asked(topic[s]) : i < j => topic[s][i].seq < topic[s][j].seq
    /\ \A s, t \in Symbols : \A i \in Asked(topic[s]), j \in Asked(topic[t]) :
          topic[s][i].seq = topic[t][j].seq => s = t
    /\ \A i \in DOMAIN held : held[i].kind \in Kinds /\ held[i].seq \in 1..record
    /\ \A i, j \in DOMAIN held : i < j => held[i].seq < held[j].seq
    /\ \A s \in Symbols : \A i \in Asked(topic[s]), j \in DOMAIN held :
          topic[s][i].seq < held[j].seq
    /\ \A o \in DOMAIN rows : o \in 1..record /\ rows[o].marker <= record

\* What the strategy has done is in its snapshot before any of it is on the broker.
Remembered ==
    ~forgot =>
    /\ phase = "running" /\ stage # "saving" => mem = snapshot
    /\ phase = "running" => \A s \in Symbols : snapshot[s].step <= mem[s].step
    /\ \A s \in Symbols : \A i \in Asked(topic[s]) : topic[s][i].step \in 0..snapshot[s].step
    /\ \A i \in DOMAIN held :
          /\ held[i].step = mem[current].step
          /\ stage = "saving" => snapshot[current].step < held[i].step
    /\ \A s \in Symbols : \A i, j \in Asked(topic[s]) :
          topic[s][i].step = topic[s][j].step /\ topic[s][i].part = topic[s][j].part => i = j
    /\ \A i, j \in DOMAIN held : held[i].part = held[j].part => i = j
    /\ \A i \in Asked(topic[current]), j \in DOMAIN held :
          topic[current][i].step = held[j].step => topic[current][i].part # held[j].part

\* A cancel-all reaches down its topic only, and until its marks are written it
\* knows every order it still has to mark.
Cancelled ==
    /\ stage = "cancelling" /\ Signal.kind = "cancel_all" =>
          /\ \A o \in batch : o < Signal.seq
          /\ \A o \in OpenOrders(current) :
                o < Signal.seq => rows[o].marker >= Signal.seq \/ o \in todo
    /\ CancelAllLeavesNone
    /\ IsQueue(sends)
    /\ \A k \in DOMAIN sends :
          /\ sends[k].symbol \in Symbols
          /\ \E i \in Asked(topic[sends[k].symbol]) :
                LET by == topic[sends[k].symbol][i]
                IN  /\ by.seq = sends[k].by
                    /\ by.kind = "cancel_all" => \A o \in sends[k].orders : o < by.seq

HostInv == HostTypes /\ Dispatching /\ Numbered /\ Remembered /\ Cancelled

-------------------------------------------------------------------------------
(* Lemmas                                                                  *)

LEMMA QueueFacts ==
    ASSUME NEW l, IsQueue(l)
    PROVE  Len(l) \in Nat /\ DOMAIN l = 1..Len(l)
  BY DEF IsQueue

LEMMA EmptyQueue == IsQueue(<<>>) /\ DOMAIN <<>> = {}
  BY DEF IsQueue

LEMMA AppendFacts ==
    ASSUME NEW l, IsQueue(l), NEW r
    PROVE  /\ IsQueue(Append(l, r)) /\ Len(Append(l, r)) = Len(l) + 1
           /\ DOMAIN Append(l, r) = 1..(Len(l) + 1)
           /\ \A i \in 1..Len(l) : Append(l, r)[i] = l[i]
           /\ Append(l, r)[Len(l) + 1] = r
  <1> DEFINE S == {l[i] : i \in DOMAIN l}
             m == Append(l, r)
  <1>1. /\ m \in Seq(S \cup {r}) /\ Len(m) = Len(l) + 1
        /\ \A i \in 1..Len(l) : m[i] = l[i]
        /\ m[Len(m)] = r
    BY AppendProperties DEF IsQueue
  <1>2. DOMAIN m = 1..(Len(l) + 1)
    BY <1>1
  <1>3. m \in Seq(Range(m))
    BY <1>1, SeqOfRange
  <1>4. IsQueue(m)
    BY <1>3 DEF IsQueue, Range
  <1>5. QED BY <1>1, <1>2, <1>4

LEMMA TailFacts ==
    ASSUME NEW l, IsQueue(l), l # <<>>
    PROVE  /\ IsQueue(Tail(l)) /\ Len(l) \in Nat \ {0} /\ DOMAIN Tail(l) = 1..(Len(l) - 1)
           /\ Head(l) = l[1] /\ \A i \in 1..(Len(l) - 1) : Tail(l)[i] = l[i + 1]
  <1> DEFINE S == {l[i] : i \in DOMAIN l}
             m == Tail(l)
  <1>1. /\ m \in Seq(S) /\ Len(m) = Len(l) - 1 /\ Head(l) = l[1]
        /\ \A i \in 1..Len(m) : m[i] = l[i + 1]
    BY HeadTailProperties DEF IsQueue
  <1>2. Len(l) \in Nat \ {0}
    BY EmptySeq DEF IsQueue
  <1>3. m \in Seq(Range(m))
    BY <1>1, SeqOfRange
  <1>4. IsQueue(m)
    BY <1>3 DEF IsQueue, Range
  <1>5. QED BY <1>1, <1>2, <1>4

\* A record that joins a topic leaves every other where it is.
LEMMA TopicGrows ==
    ASSUME HostTypes, NEW s \in Symbols, NEW r, topic' = [topic EXCEPT ![s] = Append(@, r)]
    PROVE  /\ DOMAIN topic' = Symbols /\ \A t \in Symbols : IsQueue(topic'[t])
           /\ \A t \in Symbols \ {s} : topic'[t] = topic[t]
           /\ Len(topic'[s]) = Len(topic[s]) + 1 /\ DOMAIN topic'[s] = 1..(Len(topic[s]) + 1)
           /\ DOMAIN topic[s] = 1..Len(topic[s]) /\ Len(topic[s]) \in Nat
           /\ \A i \in 1..Len(topic[s]) : topic'[s][i] = topic[s][i]
           /\ topic'[s][Len(topic[s]) + 1] = r
  <1>1. topic'[s] = Append(topic[s], r)
    BY DEF HostTypes
  <1>2. \A t \in Symbols \ {s} : topic'[t] = topic[t]
    BY DEF HostTypes
  <1>3. IsQueue(topic[s])
    BY DEF HostTypes
  <1>4. \A t \in Symbols : IsQueue(topic'[t])
    BY <1>1, <1>2, <1>3, AppendFacts DEF HostTypes
  <1>5. QED BY <1>1, <1>2, <1>3, <1>4, AppendFacts, QueueFacts DEF HostTypes

\* So it does not change what is being dispatched.
LEMMA DispatchStands ==
    ASSUME HostTypes, NEW s \in Symbols, NEW r, topic' = [topic EXCEPT ![s] = Append(@, r)],
           committed' = committed, current' = current, committed[current] < Len(topic[current])
    PROVE  Signal' = Signal /\ committed'[current'] < Len(topic'[current'])
  <1>1. /\ committed[current] \in Nat /\ committed[current] + 1 \in 1..Len(topic[current])
        /\ Len(topic[current]) \in Nat
    BY QueueFacts DEF HostTypes
  <1>2. CASE current = s
    BY <1>1, <1>2, TopicGrows DEF Signal, Record
  <1>3. CASE current # s
    BY <1>1, <1>3, TopicGrows DEF Signal, Record, HostTypes
  <1>4. QED BY <1>2, <1>3

\* The highest seq any row or mark knows is the record's.
LEMMA HighWaterIsRecord ==
    ASSUME HostTypes, Numbered
    PROVE  HighWater = record
  <1> DEFINE S == {record} \cup DOMAIN rows \cup {rows[o].marker : o \in DOMAIN rows}
  <1>1. record \in S /\ \A x \in S : x \in Nat /\ record >= x
    BY DEF HostTypes, Numbered
  <1>2. ASSUME NEW x \in S, \A y \in S : x >= y PROVE x = record
    <2>1. x >= record /\ record >= x /\ x \in Nat /\ record \in Nat
      BY <1>1, <1>2
    <2>2. QED BY <2>1
  <1>3. QED BY <1>1, <1>2 DEF HighWater, Max

\* The signal a dispatch has taken, or takes, is one that was asked for.
LEMMA TakenIsAsked ==
    ASSUME HostTypes, NEW s \in Symbols, committed[s] < Len(topic[s]), Record(s).kind \in Kinds
    PROVE  committed[s] + 1 \in Asked(topic[s]) /\ topic[s][committed[s] + 1] = Record(s)
  BY QueueFacts DEF HostTypes, Asked, Record

\* A signal of its own is a row's, and only one row is written at a time.
LEMMA RowAdded ==
    ASSUME HostTypes, NEW o, NEW s \in Symbols, NEW st \in States, o \notin DOMAIN rows,
           rows' = With(rows, o, NewRow(s, st))
    PROVE  /\ DOMAIN rows' = DOMAIN rows \cup {o}
           /\ rows' \in [DOMAIN rows' -> [symbol : Symbols, state : States, marker : Nat]]
           /\ rows'[o].marker = 0 /\ \A p \in DOMAIN rows : rows'[p] = rows[p]
  <1>1. NewRow(s, st) \in [symbol : Symbols, state : States, marker : Nat]
        /\ NewRow(s, st).marker = 0
    BY DEF NewRow
  <1>2. QED BY <1>1 DEF HostTypes, With

LEMMA RowMarked ==
    ASSUME HostTypes, NEW o \in DOMAIN rows, NEW m \in Nat, rows' = [rows EXCEPT ![o].marker = m]
    PROVE  /\ DOMAIN rows' = DOMAIN rows
           /\ rows' \in [DOMAIN rows' -> [symbol : Symbols, state : States, marker : Nat]]
           /\ \A p \in DOMAIN rows \ {o} : rows'[p] = rows[p]
           /\ rows'[o].marker = m /\ rows'[o].state = rows[o].state
           /\ rows'[o].symbol = rows[o].symbol
  <1>1. rows[o] \in [symbol : Symbols, state : States, marker : Nat]
    BY DEF HostTypes
  <1>2. rows'[o] = [rows[o] EXCEPT !.marker = m] /\ DOMAIN rows' = DOMAIN rows
        /\ \A p \in DOMAIN rows \ {o} : rows'[p] = rows[p]
    BY DEF HostTypes
  <1>3. rows'[o] \in [symbol : Symbols, state : States, marker : Nat]
        /\ rows'[o].marker = m /\ rows'[o].state = rows[o].state
        /\ rows'[o].symbol = rows[o].symbol
    BY <1>1, <1>2
  <1>4. QED BY <1>2, <1>3 DEF HostTypes

LEMMA RowMoved ==
    ASSUME HostTypes, NEW o, NEW st \in States, rows' = [rows EXCEPT ![o].state = st]
    PROVE  /\ DOMAIN rows' = DOMAIN rows
           /\ rows' \in [DOMAIN rows' -> [symbol : Symbols, state : States, marker : Nat]]
           /\ \A p \in DOMAIN rows \ {o} : rows'[p] = rows[p]
           /\ \A p \in DOMAIN rows : /\ rows'[p].marker = rows[p].marker
                                     /\ rows'[p].symbol = rows[p].symbol
           /\ o \in DOMAIN rows => rows'[o].state = st
  <1>1. CASE o \in DOMAIN rows
    <2>1. rows[o] \in [symbol : Symbols, state : States, marker : Nat]
      BY <1>1 DEF HostTypes
    <2>2. rows'[o] = [rows[o] EXCEPT !.state = st] /\ DOMAIN rows' = DOMAIN rows
          /\ \A p \in DOMAIN rows \ {o} : rows'[p] = rows[p]
      BY <1>1 DEF HostTypes
    <2>3. rows'[o] \in [symbol : Symbols, state : States, marker : Nat]
          /\ rows'[o].state = st /\ rows'[o].marker = rows[o].marker
          /\ rows'[o].symbol = rows[o].symbol
      BY <2>1, <2>2
    <2>4. QED BY <2>2, <2>3 DEF HostTypes
  <1>2. CASE o \notin DOMAIN rows
    BY <1>2 DEF HostTypes
  <1>3. QED BY <1>1, <1>2

-------------------------------------------------------------------------------
(* Each step keeps the invariant                                           *)

USE DEF broker, strategy, cancelling, counters

LEMMA InitHost == Init => HostInv
  <1> SUFFICES ASSUME Init PROVE HostInv
    OBVIOUS
  <1>1. HostTypes
    BY EmptyQueue DEF Init, HostTypes, Blank, Stages
  <1>2. Dispatching /\ Numbered
    BY EmptyQueue DEF Init, Dispatching, Numbered, Asked
  <1>3. Remembered /\ Cancelled
    BY EmptyQueue DEF Init, Remembered, Cancelled, CancelAllLeavesNone, Asked
  <1>4. QED BY <1>1, <1>2, <1>3 DEF HostInv

\* A tick that reaches the broker asks for nothing.
LEMMA TickArrives ==
    ASSUME HostInv, NEW s \in Symbols, FeedPublishes(s) \/ FeedRepeats(s)
    PROVE  HostInv'
  <1>1. PICK r : r.kind = "tick" /\ topic' = [topic EXCEPT ![s] = Append(@, r)]
    BY DEF FeedPublishes, FeedRepeats, Tick
  <1>2. UNCHANGED <<committed, record, snapshot, rows, phase, nextSeq, mem, stage, current, held,
                    todo, batch, sends, forgot>>
    BY DEF FeedPublishes, FeedRepeats
  <1>3. HostTypes
    BY DEF HostInv
  <1>4. \A t \in Symbols : /\ Asked(topic'[t]) = Asked(topic[t])
                           /\ \A i \in Asked(topic[t]) : topic'[t][i] = topic[t][i]
    <2> TAKE t \in Symbols
    <2>1. CASE t = s
      BY <1>1, <1>3, <2>1, TopicGrows DEF Asked, Kinds
    <2>2. CASE t # s
      BY <1>1, <1>3, <2>2, TopicGrows
    <2>3. QED BY <2>1, <2>2
  <1>5. HostTypes'
    BY <1>1, <1>2, <1>3, TopicGrows DEF HostTypes
  <1>6. stage # "idle" => Signal' = Signal /\ committed'[current'] < Len(topic'[current'])
    BY <1>1, <1>2, <1>3, DispatchStands DEF HostInv, Dispatching
  <1>7. Dispatching'
    BY <1>2, <1>6 DEF HostInv, Dispatching
  <1>8. Numbered'
    BY <1>2, <1>4 DEF HostInv, Numbered
  <1>9. Remembered'
    BY <1>2, <1>3, <1>4 DEF HostInv, Remembered, HostTypes
  <1>10. Cancelled'
    BY <1>2, <1>4, <1>6 DEF HostInv, Cancelled, CancelAllLeavesNone, OpenOrders, Open
  <1>11. QED BY <1>5, <1>7, <1>8, <1>9, <1>10 DEF HostInv

\* A dispatch that asks for nothing, writes nothing and sends nothing.
LEMMA QuietKeeps ==
    ASSUME HostInv,
           UNCHANGED <<topic, committed, record, snapshot, rows, phase, nextSeq, mem, held, sends,
                       forgot>>,
           \/ /\ stage = "idle" /\ stage' = "flushing" /\ UNCHANGED <<todo, batch>>
              /\ current' \in Symbols /\ committed[current'] < Len(topic[current'])
              /\ Record(current').kind # "cancel_all"
           \/ stage = "sending" /\ stage' = "sent" /\ UNCHANGED <<current, todo, batch>>
           \/ UNCHANGED <<stage, current, todo, batch>>
    PROVE  HostInv'
  <1>1. Signal' = Record(current') /\ (current' = current => Signal' = Signal)
    BY DEF Signal, Record
  <1>2. stage = "idle" => held = <<>>
    BY DEF HostInv, Dispatching
  <1>3. HostTypes'
    BY DEF HostInv, HostTypes, Stages
  <1>4. Dispatching'
    BY <1>1, <1>2 DEF HostInv, Dispatching
  <1>5. Numbered'
    BY DEF HostInv, Numbered
  <1>6. Remembered'
    BY <1>2, EmptyQueue DEF HostInv, Remembered, Dispatching
  <1>7. Cancelled'
    BY <1>1 DEF HostInv, Cancelled, CancelAllLeavesNone, OpenOrders, Open
  <1>8. QED BY <1>3, <1>4, <1>5, <1>6, <1>7 DEF HostInv

LEMMA QuietSteps ==
    ASSUME HostInv,
           \/ \E s \in Symbols : TickDropped(s) \/ PlaceKnown(s) \/ CancelMissed(s)
           \/ PlaceSent \/ (\E o : VenueEnds(o)) \/ UNCHANGED vars
    PROVE  HostInv'
  <1>1. CASE \E s \in Symbols : TickDropped(s) \/ PlaceKnown(s) \/ CancelMissed(s)
    <2>1. PICK s \in Symbols : TickDropped(s) \/ PlaceKnown(s) \/ CancelMissed(s)
      BY <1>1
    <2>2. Takes(s, {"tick", "place", "cancel"}) /\ stage' = "flushing"
          /\ UNCHANGED <<broker, record, snapshot, rows, phase, strategy, held, cancelling, sends, forgot>>
      BY <2>1 DEF TickDropped, PlaceKnown, CancelMissed, Takes
    <2>3. QED BY <2>2, QuietKeeps DEF Takes
  <1>2. CASE PlaceSent
    BY <1>2, QuietKeeps DEF PlaceSent
  <1>3. CASE \E o : VenueEnds(o)
    BY <1>3, QuietKeeps DEF VenueEnds
  <1>4. CASE UNCHANGED vars
    BY <1>4, QuietKeeps DEF vars
  <1>5. QED BY <1>1, <1>2, <1>3, <1>4

\* The signals of a tick take the seqs above the record, which is raised first.
LEMMA Emitted ==
    ASSUME HostInv, NEW s \in Symbols, TickHeard(s)
    PROVE  \E n \in Nat :
              /\ record' = record + n /\ nextSeq' = record' + 1
              /\ IsQueue(held') /\ DOMAIN held' = 1..n
              /\ \A i \in 1..n : /\ held'[i].kind \in Kinds /\ held'[i].seq = record + i
                                 /\ held'[i].step = mem[s].step + 1 /\ held'[i].part = i
              /\ DOMAIN mem' = Symbols /\ mem'[s].step = mem[s].step + 1
              /\ \A t \in Symbols \ {s} : mem'[t] = mem[t]
  <1>1. PICK n \in 0..Len(Emission(s)) : Emits(s, n)
    BY DEF TickHeard
  <1>2. mem[s].step \in Nat /\ mem[s].step < Len(Script[s]) /\ DOMAIN mem = Symbols
        /\ nextSeq = record + 1 /\ record \in Nat
    BY DEF HostInv, HostTypes, Numbered, TickHeard
  <1>3. Script[s] \in Seq(Seq(Kinds)) /\ mem[s].step + 1 \in 1..Len(Script[s])
    BY <1>2, StrategyHostAssumption
  <1>4. Emission(s) \in Seq(Kinds)
    BY <1>3, ElementOfSeq DEF Emission
  <1>5. n \in Nat /\ n <= Len(Emission(s)) /\ \A i \in 1..n : Emission(s)[i] \in Kinds
    BY <1>1, <1>4
  <1>6. held' = Signals(s, n) /\ nextSeq' = nextSeq + n /\ record' = RecordedSeqs(s, n)
        /\ mem' = [mem EXCEPT ![s] = [step |-> @.step + 1, placed |-> LastPlace(s, n)]]
    BY <1>1 DEF Emits
  <1>7. DOMAIN held' = 1..n
        /\ \A i \in 1..n : /\ held'[i].kind = Emission(s)[i] /\ held'[i].seq = nextSeq + i - 1
                           /\ held'[i].step = mem[s].step + 1 /\ held'[i].part = i
    BY <1>6 DEF Signals
  <1>8. IsQueue(held')
    <2> DEFINE e(i) == held'[i]
    <2>1. held' = [i \in 1..n |-> held'[i]]
      BY <1>6 DEF Signals
    <2>2. [i \in 1..n |-> held'[i]] \in [1..n -> {held'[i] : i \in DOMAIN held'}]
      BY <1>7
    <2>3. held' \in Seq({held'[i] : i \in DOMAIN held'})
      BY <1>5, <2>1, <2>2, SeqDef
    <2>4. QED BY <2>3 DEF IsQueue
  <1>9. record' = record + n
    BY <1>2, <1>5, <1>6 DEF RecordedSeqs, RaiseSeq
  <1>10. \A i \in 1..n : held'[i].seq = record + i
    BY <1>2, <1>5, <1>7
  <1>11. nextSeq' = record' + 1
    BY <1>2, <1>5, <1>6, <1>9
  <1>12. DOMAIN mem' = Symbols /\ mem'[s].step = mem[s].step + 1
         /\ \A t \in Symbols \ {s} : mem'[t] = mem[t]
    BY <1>2, <1>6
  <1>13. \A i \in 1..n : /\ held'[i].kind \in Kinds /\ held'[i].seq = record + i
                         /\ held'[i].step = mem[s].step + 1 /\ held'[i].part = i
    BY <1>5, <1>7, <1>10
  <1>14. DOMAIN held' = 1..n
    BY <1>7
  <1> HIDE DEF Signals
  <1>15. QED BY <1>5, <1>8, <1>9, <1>11, <1>12, <1>13, <1>14, Zenon

LEMMA TickHeardKeeps == ASSUME HostInv, NEW s \in Symbols, TickHeard(s) PROVE HostInv'
  <1>1. PICK n \in Nat :
              /\ record' = record + n /\ nextSeq' = record' + 1
              /\ IsQueue(held') /\ DOMAIN held' = 1..n
              /\ \A i \in 1..n : /\ held'[i].kind \in Kinds /\ held'[i].seq = record + i
                                 /\ held'[i].step = mem[s].step + 1 /\ held'[i].part = i
              /\ DOMAIN mem' = Symbols /\ mem'[s].step = mem[s].step + 1
              /\ \A t \in Symbols \ {s} : mem'[t] = mem[t]
    BY Emitted
  <1>2. /\ UNCHANGED <<topic, committed, snapshot, rows, phase, todo, batch, sends, forgot>>
        /\ stage = "idle" /\ stage' = "saving" /\ current' = s /\ phase = "running"
        /\ committed[s] < Len(topic[s]) /\ Record(s).kind = "tick"
    BY DEF TickHeard, Takes
  <1>3. record \in Nat /\ held = <<>>
    BY <1>2 DEF HostInv, HostTypes, Dispatching
  <1>4. HostTypes'
    <2>1. \A t \in Symbols : mem[t].step \in Nat
      BY DEF HostInv, HostTypes
    <2>2. record' \in Nat /\ mem'[s].step \in Nat
      BY <1>1, <1>3, <2>1
    <2>3. \A t \in Symbols : mem'[t].step \in Nat
      BY <1>1, <2>1, <2>2
    <2>4. QED BY <1>1, <1>2, <2>2, <2>3 DEF HostInv, HostTypes, Stages
  <1>5. Dispatching'
    BY <1>2 DEF HostInv, Dispatching, Signal, Record
  <1>6. Numbered'
    <2>1. \A t \in Symbols : \A i \in Asked(topic[t]) :
             topic[t][i].seq \in 1..record /\ topic[t][i].seq \in 1..record'
      BY <1>1, <1>3 DEF HostInv, Numbered
    <2>2. \A i \in 1..n : held'[i].seq \in 1..record' /\ record < held'[i].seq
      BY <1>1, <1>3
    <2>3. \A o \in DOMAIN rows : o \in 1..record' /\ rows[o].marker <= record'
      BY <1>1, <1>3 DEF HostInv, HostTypes, Numbered
    <2>4. \A i, j \in DOMAIN held' : i < j => held'[i].seq < held'[j].seq
      BY <1>1, <1>3
    <2>5. \A t \in Symbols : \A i \in Asked(topic[t]), j \in DOMAIN held' :
             topic[t][i].seq < held'[j].seq
      BY <1>1, <1>3, <2>1, <2>2
    <2>6. QED BY <1>1, <1>2, <2>1, <2>2, <2>3, <2>4, <2>5 DEF HostInv, Numbered
  <1>7. Remembered'
    <2> SUFFICES ASSUME ~forgot PROVE Remembered'
      BY <1>2 DEF Remembered
    <2>1. mem = snapshot /\ mem[s].step \in Nat
      BY <1>2 DEF HostInv, HostTypes, Remembered
    <2>2. \A t \in Symbols : snapshot[t].step <= mem'[t].step
      BY <1>1, <2>1 DEF HostInv, HostTypes
    <2>3. \A j \in DOMAIN held' : /\ held'[j].step = mem'[s].step
                                  /\ snapshot[s].step < held'[j].step
      BY <1>1, <2>1
    <2>4. \A i \in Asked(topic[s]), j \in DOMAIN held' : topic[s][i].step # held'[j].step
      <3>1. \A i \in Asked(topic[s]) : topic[s][i].step \in 0..snapshot[s].step
        BY DEF HostInv, Remembered
      <3>2. QED BY <1>1, <2>1, <3>1
    <2>5. QED BY <1>1, <1>2, <2>2, <2>3, <2>4 DEF HostInv, Remembered
  <1>8. Cancelled'
    BY <1>2 DEF HostInv, Cancelled, CancelAllLeavesNone
  <1>9. QED BY <1>4, <1>5, <1>6, <1>7, <1>8 DEF HostInv

LEMMA TickIgnoredKeeps == ASSUME HostInv, NEW s \in Symbols, TickIgnored(s) PROVE HostInv'
  <1>1. /\ UNCHANGED <<topic, committed, record, snapshot, rows, phase, nextSeq, mem, held, todo,
                       batch, sends, forgot>>
        /\ stage = "idle" /\ stage' = "saving" /\ current' = s /\ phase = "running"
        /\ committed[s] < Len(topic[s]) /\ Record(s).kind = "tick"
    BY DEF TickIgnored, Takes
  <1>2. held = <<>>
    BY <1>1 DEF HostInv, Dispatching
  <1>3. HostTypes' /\ Dispatching' /\ Numbered'
    BY <1>1 DEF HostInv, HostTypes, Dispatching, Numbered, Stages, Signal, Record
  <1>4. Remembered' /\ Cancelled'
    BY <1>1, <1>2, EmptyQueue
       DEF HostInv, HostTypes, Remembered, Cancelled, CancelAllLeavesNone
  <1>5. QED BY <1>3, <1>4 DEF HostInv

LEMMA PersistKeeps == ASSUME HostInv, Persist PROVE HostInv'
  <1>1. /\ UNCHANGED <<topic, committed, record, rows, phase, nextSeq, mem, current, held, todo,
                       batch, sends, forgot>>
        /\ stage = "saving" /\ stage' = "flushing" /\ snapshot' = mem
    BY DEF Persist
  <1>2. Signal' = Signal
    BY <1>1 DEF Signal, Record
  <1>3. HostTypes' /\ Dispatching' /\ Numbered'
    BY <1>1, <1>2 DEF HostInv, HostTypes, Dispatching, Numbered, Stages
  <1>4. Remembered'
    <2> SUFFICES ASSUME ~forgot PROVE Remembered'
      BY <1>1 DEF Remembered
    <2>1. phase = "running" /\ current \in Symbols
      BY <1>1 DEF HostInv, HostTypes, Dispatching
    <2>2. \A t \in Symbols : snapshot[t].step <= mem[t].step
                             /\ snapshot[t].step \in Nat /\ mem[t].step \in Nat
      BY <2>1 DEF HostInv, HostTypes, Remembered
    <2>3. \A t \in Symbols : \A i \in Asked(topic[t]) : topic[t][i].step \in 0..snapshot[t].step
      BY DEF HostInv, Remembered
    <2>4. \A t \in Symbols : \A i \in Asked(topic[t]) : topic[t][i].step \in 0..mem[t].step
      BY <2>2, <2>3
    <2>5. QED BY <1>1, <2>2, <2>4 DEF HostInv, Remembered
  <1>5. Cancelled'
    BY <1>1, <1>2 DEF HostInv, Dispatching, Cancelled, CancelAllLeavesNone
  <1>6. QED BY <1>3, <1>4, <1>5 DEF HostInv

\* The manager's writes: the rows and marks of signals that are on the broker.
LEMMA RowsKeepNumbers ==
    ASSUME HostInv, UNCHANGED <<topic, record, phase, nextSeq, held>>,
           \A o \in DOMAIN rows' : o \in 1..record /\ rows'[o].marker <= record
    PROVE  Numbered'
  BY DEF HostInv, Numbered

LEMMA PlaceRowKeeps ==
    ASSUME HostInv, NEW s \in Symbols, PlaceDenied(s) \/ PlaceWritten(s)
    PROVE  HostInv'
  <1>1. /\ UNCHANGED <<topic, committed, record, snapshot, phase, nextSeq, mem, held, todo, batch,
                       sends, forgot>>
        /\ stage = "idle" /\ current' = s /\ committed[s] < Len(topic[s])
        /\ Record(s).kind = "place" /\ stage' \in {"flushing", "sending"}
    BY DEF PlaceDenied, PlaceWritten, Takes
  <1>2. PICK st \in States : rows' = With(rows, Record(s).seq, NewRow(s, st))
    BY DEF PlaceDenied, PlaceWritten, DeniedRow, PendingRow, States
  <1>3. Record(s).seq \notin DOMAIN rows
    BY DEF PlaceDenied, PlaceWritten, Known
  <1>4. Record(s).seq \in 1..record /\ record \in Nat
    BY <1>1, TakenIsAsked DEF HostInv, HostTypes, Numbered, Kinds
  <1>5. /\ DOMAIN rows' = DOMAIN rows \cup {Record(s).seq}
        /\ rows' \in [DOMAIN rows' -> [symbol : Symbols, state : States, marker : Nat]]
        /\ rows'[Record(s).seq].marker = 0
        /\ \A p \in DOMAIN rows : rows'[p] = rows[p]
    BY <1>2, <1>3, RowAdded DEF HostInv
  <1>6. held = <<>> /\ Signal' = Record(s)
    BY <1>1 DEF HostInv, Dispatching, Signal, Record
  <1>7. HostTypes' /\ Dispatching'
    BY <1>1, <1>5, <1>6 DEF HostInv, HostTypes, Dispatching, Stages
  <1>8. Numbered'
    <2>1. \A o \in DOMAIN rows' : o \in 1..record /\ rows'[o].marker <= record
      BY <1>4, <1>5 DEF HostInv, Numbered
    <2>2. QED BY <1>1, <2>1, RowsKeepNumbers
  <1>9. Remembered'
    BY <1>1, <1>6, EmptyQueue DEF HostInv, Remembered
  <1>10. Cancelled'
    BY <1>1, <1>6 DEF HostInv, Cancelled, CancelAllLeavesNone
  <1>11. QED BY <1>7, <1>8, <1>9, <1>10 DEF HostInv

\* A row that is only moved keeps its mark, and one that was not open stays so.
LEMMA RowMoveKeeps ==
    ASSUME HostInv, NEW o, NEW st \in States, rows' = [rows EXCEPT ![o].state = st],
           UNCHANGED <<topic, committed, record, snapshot, phase, nextSeq, mem, current, held,
                       todo, batch, sends, forgot>>,
           stage' = stage \/ (stage = "sent" /\ stage' = "flushing"),
           stage' # stage \/ Open(o)
    PROVE  HostInv'
  <1>1. /\ DOMAIN rows' = DOMAIN rows
        /\ rows' \in [DOMAIN rows' -> [symbol : Symbols, state : States, marker : Nat]]
        /\ \A p \in DOMAIN rows \ {o} : rows'[p] = rows[p]
        /\ \A p \in DOMAIN rows : /\ rows'[p].marker = rows[p].marker
                                  /\ rows'[p].symbol = rows[p].symbol
    BY RowMoved DEF HostInv
  <1>2. Signal' = Signal
    BY DEF Signal, Record
  <1>3. HostTypes' /\ Dispatching'
    BY <1>1, <1>2 DEF HostInv, HostTypes, Dispatching, Stages
  <1>4. Numbered'
    BY <1>1, RowsKeepNumbers DEF HostInv, Numbered
  <1>5. Remembered'
    BY DEF HostInv, Remembered
  <1>6. stage' = stage => OpenOrders(current)' \subseteq OpenOrders(current)
    BY <1>1 DEF OpenOrders, Open
  <1>7. Cancelled'
    BY <1>1, <1>2, <1>6 DEF HostInv, Dispatching, Cancelled, CancelAllLeavesNone
  <1>8. QED BY <1>3, <1>4, <1>5, <1>7 DEF HostInv

LEMMA RowMoves == ASSUME HostInv, PlaceCheckpointed \/ \E o : SagaLearns(o) PROVE HostInv'
  <1>1. CASE PlaceCheckpointed
    BY <1>1, RowMoveKeeps DEF PlaceCheckpointed, States
  <1>2. CASE \E o : SagaLearns(o)
    <2>1. PICK o : SagaLearns(o)
      BY <1>2
    <2>2. PICK st \in States : rows' = [rows EXCEPT ![o].state = st]
      BY <2>1 DEF SagaLearns, States
    <2>3. QED BY <2>1, <2>2, RowMoveKeeps DEF SagaLearns
  <1>3. QED BY <1>1, <1>2

\* A cancel and a cancel-all.
LEMMA CancelTakenKeeps ==
    ASSUME HostInv, NEW s \in Symbols, CancelTaken(s) \/ CancelAllTaken(s)
    PROVE  HostInv'
  <1>1. /\ UNCHANGED <<topic, committed, snapshot, rows, phase, nextSeq, mem, held, sends, forgot>>
        /\ stage = "idle" /\ current' = s /\ committed[s] < Len(topic[s])
        /\ Record(s).kind \in {"cancel", "cancel_all"}
        /\ Record(s).kind = "cancel" => CancelTaken(s)
        /\ Record(s).kind = "cancel_all" => CancelAllTaken(s)
    BY DEF CancelTaken, CancelAllTaken, Takes
  <1>2. Record(s).seq \in 1..record /\ record \in Nat
    BY <1>1, TakenIsAsked DEF HostInv, HostTypes, Numbered, Kinds
  <1>3. record' = record
    BY <1>2 DEF CancelTaken, CancelAllTaken, RaiseSeq
  <1>4. held = <<>> /\ Signal' = Record(s)
    BY <1>1 DEF HostInv, Dispatching, Signal, Record
  <1>5. stage' \in {"cancelling", "flushing"} /\ (todo' # {} => stage' = "cancelling")
    BY DEF CancelTaken, CancelAllTaken
  <1>6. HostTypes' /\ Dispatching' /\ Numbered'
    BY <1>1, <1>3, <1>4, <1>5 DEF CancelTaken, CancelAllTaken, Cancellable, OpenOrders, Open, HostInv, HostTypes, Dispatching, Numbered, Stages
  <1>7. Remembered'
    BY <1>1, <1>4, <1>5, EmptyQueue DEF HostInv, Remembered
  <1>8. Cancelled'
    <2>1. CASE Record(s).kind = "cancel"
      BY <1>1, <1>4, <2>1 DEF HostInv, Cancelled, CancelAllLeavesNone
    <2>2. CASE Record(s).kind = "cancel_all"
      <3>1. /\ todo' = {o \in OpenOrders(s) : Reaches(o, Record(s).seq)} /\ batch' = todo'
            /\ todo' = {} => stage' = "flushing"
            /\ todo' # {} => stage' = "cancelling"
        BY <1>1, <2>2 DEF CancelAllTaken
      <3>2. \A o \in batch' : o < Signal'.seq
        BY <1>4, <3>1 DEF Reaches
      <3>3. OpenOrders(s)' = OpenOrders(s)
            /\ \A o \in OpenOrders(s) : rows[o].marker \in Nat /\ rows'[o] = rows[o]
        BY <1>1 DEF HostInv, HostTypes, OpenOrders, Open
      <3>4. \A o \in OpenOrders(s) :
               o < Signal'.seq => rows'[o].marker >= Signal'.seq \/ o \in todo'
        BY <1>2, <1>4, <3>1, <3>3 DEF Reaches
      <3>5. QED BY <1>1, <3>1, <3>2, <3>3, <3>4 DEF HostInv, Cancelled, CancelAllLeavesNone
    <2>3. QED BY <1>1, <2>1, <2>2
  <1>9. QED BY <1>6, <1>7, <1>8 DEF HostInv

LEMMA MarkWrittenKeeps == ASSUME HostInv, MarkWritten PROVE HostInv'
  <1>1. PICK o \in todo : rows' = [rows EXCEPT ![o].marker = Signal.seq] /\ todo' = todo \ {o}
    BY DEF MarkWritten
  <1>2. /\ UNCHANGED <<topic, committed, record, snapshot, phase, nextSeq, mem, stage, current,
                       held, batch, sends, forgot>>
        /\ stage = "cancelling"
    BY DEF MarkWritten
  <1>3. Signal' = Signal /\ Signal.kind \in {"cancel", "cancel_all"}
        /\ Signal.seq \in 1..record /\ record \in Nat
    BY <1>2, TakenIsAsked DEF HostInv, HostTypes, Dispatching, Numbered, Signal, Record, Kinds
  <1>4. /\ DOMAIN rows' = DOMAIN rows
        /\ rows' \in [DOMAIN rows' -> [symbol : Symbols, state : States, marker : Nat]]
        /\ \A p \in DOMAIN rows \ {o} : rows'[p] = rows[p]
        /\ rows'[o].marker = Signal.seq /\ rows'[o].state = rows[o].state
        /\ rows'[o].symbol = rows[o].symbol
    <2>1. o \in DOMAIN rows /\ Signal.seq \in Nat /\ HostTypes
      BY <1>1, <1>3 DEF HostInv, Dispatching
    <2>2. QED BY <1>1, <2>1, RowMarked
  <1>5. HostTypes' /\ Dispatching'
    BY <1>1, <1>2, <1>3, <1>4 DEF HostInv, HostTypes, Dispatching
  <1>6. Numbered'
    <2>1. \A p \in DOMAIN rows' : p \in 1..record /\ rows'[p].marker <= record
      BY <1>3, <1>4 DEF HostInv, Numbered
    <2>2. QED BY <1>2, <2>1, RowsKeepNumbers
  <1>7. Remembered'
    BY <1>2 DEF HostInv, Remembered
  <1>8. OpenOrders(current)' = OpenOrders(current)
    BY <1>2, <1>4 DEF OpenOrders, Open
  <1>9. Cancelled'
    BY <1>1, <1>2, <1>3, <1>4, <1>8 DEF HostInv, Cancelled, CancelAllLeavesNone, OpenOrders
  <1>10. QED BY <1>5, <1>6, <1>7, <1>9 DEF HostInv

LEMMA CancelSentKeeps == ASSUME HostInv, CancelSent PROVE HostInv'
  <1>1. /\ UNCHANGED <<topic, committed, record, snapshot, rows, phase, nextSeq, mem, current,
                       held, todo, forgot>>
        /\ stage = "cancelling" /\ todo = {} /\ stage' = "flushing"
        /\ sends' = Append(sends, [by |-> Signal.seq, symbol |-> current, orders |-> batch])
    BY DEF CancelSent
  <1>2. Signal' = Signal /\ Signal.kind \in {"cancel", "cancel_all"} /\ current \in Symbols
        /\ committed[current] + 1 \in Asked(topic[current])
        /\ topic[current][committed[current] + 1] = Signal
    BY <1>1, TakenIsAsked DEF HostInv, HostTypes, Dispatching, Signal, Record, Kinds
  <1>3. HostTypes' /\ Dispatching' /\ Numbered'
    BY <1>1, <1>2 DEF HostInv, HostTypes, Dispatching, Numbered, Stages
  <1>4. Remembered'
    BY <1>1 DEF HostInv, Remembered
  <1>5. Cancelled'
    <2> DEFINE new == [by |-> Signal.seq, symbol |-> current, orders |-> batch]
    <2>1. /\ IsQueue(sends') /\ DOMAIN sends' = 1..(Len(sends) + 1)
          /\ \A k \in 1..Len(sends) : sends'[k] = sends[k]
          /\ sends'[Len(sends) + 1] = new /\ DOMAIN sends = 1..Len(sends) /\ Len(sends) \in Nat
      BY <1>1, AppendFacts, QueueFacts DEF HostInv, Cancelled
    <2>2. \A k \in DOMAIN sends' : (k \in DOMAIN sends /\ sends'[k] = sends[k]) \/ sends'[k] = new
      BY <2>1
    <2>3. new.symbol = current /\ new.by = Signal.seq /\ new.orders = batch
      OBVIOUS
    <2>4. Signal.kind = "cancel_all" => \A o \in batch : o < Signal.seq
      BY <1>1 DEF HostInv, Cancelled
    <2>5. CancelAllLeavesNone'
      BY <1>1, <1>2 DEF HostInv, Cancelled, CancelAllLeavesNone, OpenOrders, Open
    <2>6. \A k \in DOMAIN sends' :
            /\ sends'[k].symbol \in Symbols
            /\ \E i \in Asked(topic[sends'[k].symbol]) :
                  /\ topic[sends'[k].symbol][i].seq = sends'[k].by
                  /\ topic[sends'[k].symbol][i].kind = "cancel_all" =>
                        \A o \in sends'[k].orders : o < topic[sends'[k].symbol][i].seq
      <3> SUFFICES ASSUME NEW k \in DOMAIN sends'
                   PROVE  /\ sends'[k].symbol \in Symbols
                          /\ \E i \in Asked(topic[sends'[k].symbol]) :
                                /\ topic[sends'[k].symbol][i].seq = sends'[k].by
                                /\ topic[sends'[k].symbol][i].kind = "cancel_all" =>
                                      \A o \in sends'[k].orders :
                                          o < topic[sends'[k].symbol][i].seq
        OBVIOUS
      <3>1. CASE k \in DOMAIN sends /\ sends'[k] = sends[k]
        BY <3>1 DEF HostInv, Cancelled
      <3>2. CASE sends'[k] = new
        <4> HIDE DEF new
        <4> QED BY <1>2, <2>3, <2>4, <3>2
      <3> QED BY <2>2, <3>1, <3>2
    <2>7. stage' # "cancelling" /\ topic' = topic
      BY <1>1
    <2> HIDE DEF new
    <2> QED BY <2>1, <2>5, <2>6, <2>7 DEF Cancelled
  <1>6. QED BY <1>3, <1>4, <1>5 DEF HostInv

\* What was held joins its topic in the order it was asked for.
LEMMA FlushKeeps == ASSUME HostInv, FlushHeld PROVE HostInv'
  <1> DEFINE n == Len(topic[current])
             r == Head(held)
  <1>1. /\ UNCHANGED <<committed, record, snapshot, rows, phase, nextSeq, mem, stage, current, todo,
                       batch, sends, forgot>>
        /\ topic' = [topic EXCEPT ![current] = Append(@, r)] /\ held' = Tail(held)
        /\ stage = "flushing" /\ held # <<>>
    BY DEF FlushHeld
  <1>2. HostTypes /\ current \in Symbols /\ IsQueue(held) /\ record \in Nat
    BY DEF HostInv, HostTypes
  <1>3. /\ IsQueue(held') /\ Len(held) \in Nat \ {0} /\ DOMAIN held = 1..Len(held)
        /\ DOMAIN held' = 1..(Len(held) - 1) /\ r = held[1]
        /\ \A i \in DOMAIN held' : held'[i] = held[i + 1]
    BY <1>1, <1>2, TailFacts, QueueFacts
  <1>4. \A i \in DOMAIN held' : i + 1 \in DOMAIN held /\ 1 \in DOMAIN held /\ i + 1 # 1
    BY <1>3
  <1>5. 1 \in DOMAIN held /\ r.kind \in Kinds /\ r.seq \in 1..record
    BY <1>3 DEF HostInv, Numbered
  <1>6. /\ DOMAIN topic' = Symbols /\ \A t \in Symbols : IsQueue(topic'[t])
        /\ \A t \in Symbols \ {current} : topic'[t] = topic[t]
        /\ DOMAIN topic'[current] = 1..(n + 1) /\ DOMAIN topic[current] = 1..n /\ n \in Nat
        /\ \A i \in 1..n : topic'[current][i] = topic[current][i]
        /\ topic'[current][n + 1] = r
    BY <1>1, <1>2, TopicGrows
  <1>7. /\ Asked(topic'[current]) = Asked(topic[current]) \cup {n + 1}
        /\ n + 1 \notin Asked(topic[current])
        /\ \A i \in Asked(topic[current]) : i \in 1..n /\ topic'[current][i] = topic[current][i]
    BY <1>5, <1>6 DEF Asked
  <1>8. Signal' = Signal /\ committed'[current'] < Len(topic'[current']) /\ Signal.kind = "tick"
        /\ phase = "running"
    BY <1>1, <1>2, DispatchStands DEF HostInv, Dispatching
  <1>9. HostTypes'
    BY <1>1, <1>3, <1>6 DEF HostInv, HostTypes
  <1>10. Dispatching'
    BY <1>1, <1>8 DEF HostInv, Dispatching
  <1>11. Numbered'
    <2>1. \A s \in Symbols : \A i \in Asked(topic[s]) :
             topic[s][i].seq \in 1..record /\ topic[s][i].seq < r.seq
      BY <1>3, <1>5 DEF HostInv, Numbered
    <2>2. \A j \in DOMAIN held' : /\ held'[j].kind \in Kinds /\ held'[j].seq \in 1..record
                                  /\ r.seq < held'[j].seq
      BY <1>3, <1>4 DEF HostInv, Numbered
    <2>3. \A s \in Symbols : \A i \in Asked(topic'[s]) :
             \/ i \in Asked(topic[s]) /\ topic'[s][i] = topic[s][i]
             \/ s = current /\ i = n + 1 /\ topic'[s][i] = r
      BY <1>6, <1>7
    <2>4. \A s \in Symbols : \A i \in Asked(topic'[s]) : topic'[s][i].seq \in 1..record
      BY <1>5, <2>1, <2>3
    <2>5. \A s \in Symbols : \A i, j \in Asked(topic'[s]) :
             i < j => topic'[s][i].seq < topic'[s][j].seq
      <3> SUFFICES ASSUME NEW s \in Symbols, NEW i \in Asked(topic'[s]), NEW j \in Asked(topic'[s]),
                          i < j
                   PROVE  topic'[s][i].seq < topic'[s][j].seq
        OBVIOUS
      <3>1. i \in Asked(topic[s]) /\ topic'[s][i] = topic[s][i]
        BY <1>6, <1>7, <2>3
      <3>2. QED BY <2>1, <2>3, <3>1 DEF HostInv, Numbered
    <2>6. \A s, t \in Symbols : \A i \in Asked(topic'[s]), j \in Asked(topic'[t]) :
             topic'[s][i].seq = topic'[t][j].seq => s = t
      BY <1>5, <2>1, <2>3 DEF HostInv, Numbered
    <2>7. \A i, j \in DOMAIN held' : i < j => held'[i].seq < held'[j].seq
      <3> SUFFICES ASSUME NEW i \in DOMAIN held', NEW j \in DOMAIN held', i < j
                   PROVE  held'[i].seq < held'[j].seq
        OBVIOUS
      <3>1. i + 1 \in DOMAIN held /\ j + 1 \in DOMAIN held /\ i + 1 < j + 1
        BY <1>3
      <3>2. QED BY <1>3, <3>1 DEF HostInv, Numbered
    <2>8. \A s \in Symbols : \A i \in Asked(topic'[s]), j \in DOMAIN held' :
             topic'[s][i].seq < held'[j].seq
      BY <1>3, <1>4, <2>2, <2>3 DEF HostInv, Numbered
    <2>9. QED BY <1>1, <2>2, <2>4, <2>5, <2>6, <2>7, <2>8 DEF HostInv, Numbered
  <1>12. Remembered'
    <2> SUFFICES ASSUME ~forgot PROVE Remembered'
      BY <1>1 DEF Remembered
    <2>1. mem = snapshot /\ snapshot[current].step \in Nat
      BY <1>1, <1>2, <1>8 DEF HostInv, HostTypes, Remembered
    <2>2. r.step = snapshot[current].step
      BY <1>3, <1>5, <2>1 DEF HostInv, Remembered
    <2>3. \A s \in Symbols : \A i \in Asked(topic'[s]) : topic'[s][i].step \in 0..snapshot[s].step
      BY <1>6, <1>7, <2>1, <2>2 DEF HostInv, Remembered
    <2>4. \A i \in DOMAIN held' : held'[i].step = mem[current].step /\ r.part # held'[i].part
      BY <1>3, <1>4, <1>5 DEF HostInv, Remembered
    <2>5. \A i, j \in DOMAIN held' : held'[i].part = held'[j].part => i = j
      <3> SUFFICES ASSUME NEW i \in DOMAIN held', NEW j \in DOMAIN held',
                          held'[i].part = held'[j].part
                   PROVE  i = j
        OBVIOUS
      <3>1. i + 1 \in DOMAIN held /\ j + 1 \in DOMAIN held /\ held[i + 1].part = held[j + 1].part
        BY <1>3
      <3>2. i + 1 = j + 1
        BY <3>1 DEF HostInv, Remembered
      <3>3. QED BY <1>3, <3>2
    <2>6. \A i \in Asked(topic[current]) : topic[current][i].step = r.step =>
             topic[current][i].part # r.part
      BY <1>3, <1>5 DEF HostInv, Remembered
    <2>7. \A s \in Symbols : \A i, j \in Asked(topic'[s]) :
             topic'[s][i].step = topic'[s][j].step /\ topic'[s][i].part = topic'[s][j].part => i = j
      <3>1. \A i, j \in Asked(topic[current]) :
               /\ topic[current][i].step = topic[current][j].step
               /\ topic[current][i].part = topic[current][j].part
               => i = j
        BY <1>2 DEF HostInv, Remembered
      <3>2. \A i, j \in Asked(topic'[current]) :
               /\ topic'[current][i].step = topic'[current][j].step
               /\ topic'[current][i].part = topic'[current][j].part
               => i = j
        BY <1>6, <1>7, <2>6, <3>1
      <3>3. QED BY <1>6, <3>2 DEF HostInv, Remembered
    <2>8. \A i \in Asked(topic'[current]), j \in DOMAIN held' :
             topic'[current][i].step = held'[j].step => topic'[current][i].part # held'[j].part
      <3>1. \A i \in Asked(topic[current]), j \in DOMAIN held' :
               topic[current][i].step = held'[j].step => topic[current][i].part # held'[j].part
        BY <1>3, <1>4 DEF HostInv, Remembered
      <3>2. QED BY <1>6, <1>7, <2>4, <3>1
    <2>9. \A s \in Symbols : snapshot[s].step <= mem[s].step
      BY <1>8 DEF HostInv, Remembered
    <2>10. UNCHANGED <<phase, stage, mem, snapshot, current>> /\ stage = "flushing"
      BY <1>1
    <2>11. QED BY <2>1, <2>3, <2>4, <2>5, <2>7, <2>8, <2>9, <2>10 DEF Remembered
  <1>13. Cancelled'
    <2>1. \A s \in Symbols : \A i \in Asked(topic[s]) :
             i \in Asked(topic'[s]) /\ topic'[s][i] = topic[s][i]
      BY <1>6, <1>7
    <2>2. CancelAllLeavesNone'
      BY <1>1, <1>8 DEF CancelAllLeavesNone
    <2>3. (\A k \in DOMAIN sends :
              /\ sends[k].symbol \in Symbols
              /\ \E i \in Asked(topic[sends[k].symbol]) :
                    LET by == topic[sends[k].symbol][i]
                    IN  /\ by.seq = sends[k].by
                        /\ by.kind = "cancel_all" => \A o \in sends[k].orders : o < by.seq)'
      <3>1. sends' = sends
        BY <1>1
      <3>2. QED BY <2>1, <3>1 DEF HostInv, Cancelled
    <2>4. IsQueue(sends)'
      BY <1>1 DEF HostInv, Cancelled
    <2>5. stage' = "flushing"
      BY <1>1
    <2>6. QED BY <2>2, <2>3, <2>4, <2>5 DEF Cancelled
  <1>14. QED BY <1>9, <1>10, <1>11, <1>12, <1>13 DEF HostInv

LEMMA CommitKeeps == ASSUME HostInv, Commit PROVE HostInv'
  <1>1. /\ UNCHANGED <<topic, record, snapshot, rows, phase, nextSeq, mem, current, held, todo,
                       batch, sends, forgot>>
        /\ committed' = [committed EXCEPT ![current] = @ + 1] /\ stage' = "idle"
        /\ stage = "flushing" /\ held = <<>>
    BY DEF Commit
  <1>2. HostTypes'
    BY <1>1 DEF HostInv, HostTypes, Stages
  <1>3. Dispatching' /\ Numbered'
    BY <1>1 DEF HostInv, Dispatching, Numbered
  <1>4. Remembered' /\ Cancelled'
    BY <1>1 DEF HostInv, Remembered, Cancelled, CancelAllLeavesNone
  <1>5. QED BY <1>2, <1>3, <1>4 DEF HostInv

\* A life begins at the record's high water, with what was saved.
LEMMA StartKeeps == ASSUME HostInv, Start PROVE HostInv'
  <1>1. /\ UNCHANGED <<topic, committed, record, snapshot, rows, stage, current, held, todo, batch,
                       sends>>
        /\ phase = "boot" /\ phase' = "running" /\ nextSeq' = HighWater + 1
        /\ \/ mem' = snapshot /\ forgot' = forgot
           \/ mem' = Blank /\ forgot' = TRUE
    BY DEF Start
  <1>2. nextSeq' = record + 1
    BY <1>1, HighWaterIsRecord DEF HostInv
  <1>3. held = <<>> /\ stage # "saving" /\ Signal' = Signal
    BY <1>1 DEF HostInv, Dispatching, Signal, Record
  <1>4. DOMAIN mem' = Symbols /\ \A s \in Symbols : mem'[s].step \in Nat
    BY <1>1 DEF HostInv, HostTypes, Blank
  <1>5. HostTypes'
    BY <1>1, <1>4 DEF HostInv, HostTypes
  <1>6. Dispatching' /\ Numbered'
    BY <1>1, <1>2, <1>3 DEF HostInv, Dispatching, Numbered
  <1>7. Remembered'
    <2> SUFFICES ASSUME ~forgot' PROVE Remembered'
      BY DEF Remembered
    <2>1. mem' = snapshot /\ ~forgot
      BY <1>1
    <2>2. \A s \in Symbols : snapshot[s].step <= mem'[s].step
      BY <2>1 DEF HostInv, HostTypes
    <2>3. DOMAIN held' = {}
      BY <1>1, <1>3, EmptyQueue
    <2>4. QED BY <1>1, <1>3, <2>1, <2>2, <2>3 DEF HostInv, Remembered
  <1>8. Cancelled'
    BY <1>1, <1>3 DEF HostInv, Cancelled, CancelAllLeavesNone, OpenOrders, Open
  <1>9. QED BY <1>5, <1>6, <1>7, <1>8 DEF HostInv

\* A life ends: what was held is lost, and what is remembered may be saved.
LEMMA NextLifeKeeps == ASSUME HostInv, Killed \/ TornDown PROVE HostInv'
  <1>1. /\ UNCHANGED <<topic, record, rows, current, sends, forgot>>
        /\ phase' = "boot" /\ stage' = "idle" /\ held' = <<>> /\ todo' = {} /\ mem' = Blank
        /\ committed' = committed \/ committed' = [s \in Symbols |-> 0]
        /\ snapshot' = snapshot \/ (phase = "running" /\ snapshot' = mem)
    BY DEF Killed, TornDown, NextLife, SavedAtStop
  <1>2. IsQueue(held') /\ DOMAIN held' = {}
    BY <1>1, EmptyQueue
  <1>3. committed' \in [Symbols -> Nat]
    BY <1>1 DEF HostInv, HostTypes
  <1>4. DOMAIN mem' = Symbols /\ \A s \in Symbols : mem'[s].step \in Nat
    BY <1>1 DEF Blank
  <1>5. HostTypes'
    BY <1>1, <1>2, <1>3, <1>4 DEF HostInv, HostTypes, Stages
  <1>6. Dispatching' /\ Numbered'
    BY <1>1, <1>2 DEF HostInv, Dispatching, Numbered
  <1>7. Remembered'
    <2> SUFFICES ASSUME ~forgot PROVE Remembered'
      BY <1>1 DEF Remembered
    <2>1. \A s \in Symbols : /\ snapshot[s].step <= snapshot'[s].step
                             /\ snapshot[s].step \in Nat /\ snapshot'[s].step \in Nat
      BY <1>1 DEF HostInv, HostTypes, Remembered
    <2>2. \A s \in Symbols : \A i \in Asked(topic[s]) : topic[s][i].step \in 0..snapshot[s].step
      BY DEF HostInv, Remembered
    <2>3. \A s \in Symbols : \A i \in Asked(topic[s]) : topic[s][i].step \in 0..snapshot'[s].step
      BY <2>1, <2>2
    <2>4. QED BY <1>1, <1>2, <2>3 DEF HostInv, Remembered
  <1>8. Cancelled'
    BY <1>1 DEF HostInv, Cancelled, CancelAllLeavesNone
  <1>9. QED BY <1>5, <1>6, <1>7, <1>8 DEF HostInv

LEMMA HostInvHolds == Spec => []HostInv
  <1>1. ASSUME HostInv, [Next]_vars PROVE HostInv'
    <2>1. CASE Feed
      BY <1>1, <2>1, TickArrives DEF Feed
    <2>2. CASE TickDispatch
      BY <1>1, <2>2, QuietSteps, TickHeardKeeps, TickIgnoredKeeps, PersistKeeps DEF TickDispatch
    <2>3. CASE PlaceDispatch
      BY <1>1, <2>3, QuietSteps, PlaceRowKeeps, RowMoves DEF PlaceDispatch
    <2>4. CASE CancelDispatch
      BY <1>1, <2>4, QuietSteps, CancelTakenKeeps, MarkWrittenKeeps, CancelSentKeeps
         DEF CancelDispatch
    <2>5. CASE FlushHeld \/ Commit \/ Start \/ Killed \/ TornDown
      BY <1>1, <2>5, FlushKeeps, CommitKeeps, StartKeeps, NextLifeKeeps
    <2>6. CASE Market \/ Sagas \/ UNCHANGED vars
      BY <1>1, <2>6, QuietSteps, RowMoves DEF Market, Sagas
    <2>7. QED BY <1>1, <2>1, <2>2, <2>3, <2>4, <2>5, <2>6 DEF Next, Dispatch
  <1>2. QED BY <1>1, InitHost, PTL DEF Spec

-------------------------------------------------------------------------------
(* What a strategy can rely on                                             *)

\* What was published on a symbol, in the topic first.
LEMMA PublishedIs ==
    ASSUME HostInv, NEW s \in Symbols, NEW i \in Places(s)
    PROVE  /\ i \in Nat /\ Len(topic[s]) \in Nat
           /\ \/ i \in Asked(topic[s]) /\ Published(s)[i] = topic[s][i]
              \/ /\ s = current /\ i - Len(topic[s]) \in DOMAIN held
                 /\ Published(s)[i] = held[i - Len(topic[s])]
  <1>0. PICK behind : behind = IF s = current THEN held ELSE <<>>
    OBVIOUS
  <1> DEFINE S == {topic[s][k] : k \in DOMAIN topic[s]} \cup {behind[k] : k \in DOMAIN behind}
  <1>1. IsQueue(topic[s]) /\ IsQueue(behind)
    BY <1>0, EmptyQueue DEF HostInv, HostTypes
  <1>2. topic[s] \in Seq(S) /\ behind \in Seq(S)
    BY <1>1, SeqMonotonic DEF IsQueue
  <1>3. Published(s) = topic[s] \o behind
    BY <1>0 DEF Published
  <1>4. /\ Published(s) \in Seq(S) /\ Len(Published(s)) = Len(topic[s]) + Len(behind)
        /\ DOMAIN Published(s) = 1..Len(Published(s))
        /\ \A k \in 1 .. Len(topic[s]) + Len(behind) : Published(s)[k] =
              IF k <= Len(topic[s]) THEN topic[s][k] ELSE behind[k - Len(topic[s])]
    <2>1. /\ topic[s] \o behind \in Seq(S)
          /\ Len(topic[s] \o behind) = Len(topic[s]) + Len(behind)
          /\ \A k \in 1 .. Len(topic[s]) + Len(behind) : (topic[s] \o behind)[k] =
                IF k <= Len(topic[s]) THEN topic[s][k] ELSE behind[k - Len(topic[s])]
      BY <1>2, ConcatProperties
    <2>2. Published(s) \in Seq(S) /\ Len(Published(s)) = Len(topic[s]) + Len(behind)
      BY <1>3, <2>1
    <2>3. \A k \in 1 .. Len(topic[s]) + Len(behind) : Published(s)[k] =
             IF k <= Len(topic[s]) THEN topic[s][k] ELSE behind[k - Len(topic[s])]
      BY <1>3, <2>1, Zenon
    <2>4. DOMAIN Published(s) = 1..Len(Published(s))
      BY <2>2, LenProperties
    <2>5. QED BY <2>2, <2>3, <2>4
  <1>5. i \in 1..(Len(topic[s]) + Len(behind)) /\ Published(s)[i].kind \in Kinds
    BY <1>4 DEF Places
  <1>6. /\ Len(topic[s]) \in Nat /\ DOMAIN topic[s] = 1..Len(topic[s])
        /\ Len(behind) \in Nat /\ DOMAIN behind = 1..Len(behind)
    BY <1>1, QueueFacts
  <1>7. CASE i <= Len(topic[s])
    BY <1>4, <1>5, <1>6, <1>7 DEF Asked
  <1>8. CASE i > Len(topic[s])
    <2>1. i - Len(topic[s]) \in DOMAIN behind /\ Published(s)[i] = behind[i - Len(topic[s])]
      BY <1>4, <1>5, <1>6, <1>8
    <2>2. QED BY <1>0, <1>5, <1>6, <2>1, EmptyQueue
  <1>9. QED BY <1>5, <1>6, <1>7, <1>8

\* A seq names one signal for ever: no kill, teardown, error or failed restore ever
\* lets the emitter give one again.
THEOREM SeqsAreUnique == Spec => []SeqNeverReused
  <1>1. ASSUME HostInv PROVE SeqNeverReused
    <2> SUFFICES ASSUME NEW s \in Symbols, NEW t \in Symbols, NEW i \in Places(s), NEW j \in Places(t),
                        Published(s)[i].seq = Published(t)[j].seq
                 PROVE  s = t /\ i = j
      BY DEF SeqNeverReused
    <2> DEFINE inTopic(u, k) == k \in Asked(topic[u]) /\ Published(u)[k] = topic[u][k]
               isHeld(u, k) == /\ u = current /\ k - Len(topic[u]) \in DOMAIN held
                               /\ Published(u)[k] = held[k - Len(topic[u])]
    <2>1. inTopic(s, i) \/ isHeld(s, i)
      BY <1>1, PublishedIs
    <2>2. inTopic(t, j) \/ isHeld(t, j)
      BY <1>1, PublishedIs
    <2>3. i \in Nat /\ j \in Nat /\ Len(topic[s]) \in Nat /\ Len(topic[t]) \in Nat
      BY <1>1, PublishedIs
    <2>4. /\ \A u \in Symbols : \A k \in Asked(topic[u]) : topic[u][k].seq \in Nat
          /\ \A k \in DOMAIN held : held[k].seq \in Nat
      BY <1>1 DEF HostInv, HostTypes, Numbered
    <2>5. CASE inTopic(s, i) /\ inTopic(t, j)
      <3>1. s = t
        BY <1>1, <2>5 DEF HostInv, Numbered
      <3>2. ~(i < j) /\ ~(j < i)
        BY <1>1, <2>4, <2>5, <3>1 DEF HostInv, Numbered
      <3>3. QED BY <2>3, <3>1, <3>2
    <2>6. CASE inTopic(s, i) /\ isHeld(t, j)
      BY <1>1, <2>4, <2>6 DEF HostInv, Numbered
    <2>7. CASE isHeld(s, i) /\ inTopic(t, j)
      BY <1>1, <2>4, <2>7 DEF HostInv, Numbered
    <2>8. CASE isHeld(s, i) /\ isHeld(t, j)
      <3>1. s = t
        BY <2>8
      <3>2. ~(i - Len(topic[s]) < j - Len(topic[s])) /\ ~(j - Len(topic[s]) < i - Len(topic[s]))
        BY <1>1, <2>4, <2>8 DEF HostInv, Numbered
      <3>3. QED BY <2>3, <3>1, <3>2
    <2>9. QED BY <2>1, <2>2, <2>5, <2>6, <2>7, <2>8
  <1>2. QED BY <1>1, HostInvHolds, PTL

\* A strategy whose snapshots restore never publishes a step of its script again,
\* wherever a life is cut: between the callback, the save, each flush and the commit.
THEOREM StepsAreTakenOnce == Spec => []StepTakenOnce
  <1>1. ASSUME HostInv PROVE StepTakenOnce
    <2> SUFFICES ASSUME ~forgot, NEW s \in Symbols, NEW i \in Places(s), NEW j \in Places(s),
                        Published(s)[i].step = Published(s)[j].step,
                        Published(s)[i].part = Published(s)[j].part
                 PROVE  i = j
      BY DEF StepTakenOnce
    <2> DEFINE inTopic(k) == k \in Asked(topic[s]) /\ Published(s)[k] = topic[s][k]
               isHeld(k) == /\ s = current /\ k - Len(topic[s]) \in DOMAIN held
                            /\ Published(s)[k] = held[k - Len(topic[s])]
    <2>1. inTopic(i) \/ isHeld(i)
      BY <1>1, PublishedIs
    <2>2. inTopic(j) \/ isHeld(j)
      BY <1>1, PublishedIs
    <2>3. i \in Nat /\ j \in Nat /\ Len(topic[s]) \in Nat
      BY <1>1, PublishedIs
    <2>4. CASE inTopic(i) /\ inTopic(j)
      BY <1>1, <2>4 DEF HostInv, Remembered
    <2>5. CASE inTopic(i) /\ isHeld(j)
      BY <1>1, <2>5 DEF HostInv, Remembered
    <2>6. CASE isHeld(i) /\ inTopic(j)
      BY <1>1, <2>6 DEF HostInv, Remembered
    <2>7. CASE isHeld(i) /\ isHeld(j)
      <3>1. i - Len(topic[s]) = j - Len(topic[s])
        BY <1>1, <2>7 DEF HostInv, Remembered
      <3>2. QED BY <2>3, <3>1
    <2>8. QED BY <2>1, <2>2, <2>4, <2>5, <2>6, <2>7
  <1>2. QED BY <1>1, HostInvHolds, PTL

\* However late and however often a cancel-all is delivered, it is sent only for
\* orders that stand before it in its topic.
THEOREM CancelAllsReachBack == Spec => []CancelAllReachesEarlier
  <1>1. ASSUME HostInv PROVE CancelAllReachesEarlier
    <2> SUFFICES ASSUME NEW k \in DOMAIN sends,
                        NEW i \in DOMAIN topic[sends[k].symbol],
                        NEW j \in DOMAIN topic[sends[k].symbol],
                        topic[sends[k].symbol][i].kind = "cancel_all",
                        topic[sends[k].symbol][i].seq = sends[k].by,
                        topic[sends[k].symbol][j].kind = "place",
                        topic[sends[k].symbol][j].seq \in sends[k].orders
                 PROVE  j < i
      BY DEF CancelAllReachesEarlier
    <2> DEFINE l == topic[sends[k].symbol]
    <2>1. sends[k].symbol \in Symbols
      BY <1>1 DEF HostInv, Cancelled
    <2>2. PICK h \in Asked(l) : l[h].seq = sends[k].by
                                /\ (l[h].kind = "cancel_all" => \A o \in sends[k].orders : o < l[h].seq)
      BY <1>1 DEF HostInv, Cancelled
    <2>3. DOMAIN l = 1..Len(l) /\ Len(l) \in Nat
      BY <1>1, <2>1, QueueFacts DEF HostInv, HostTypes
    <2>4. i \in Asked(l) /\ j \in Asked(l)
      BY DEF Asked, Kinds
    <2>5. \A a \in Asked(l) : a \in Nat /\ l[a].seq \in Nat
      BY <1>1, <2>1, <2>3 DEF HostInv, HostTypes, Numbered, Asked
    <2>6. \A a, b \in Asked(l) : a < b => l[a].seq < l[b].seq
      BY <1>1, <2>1 DEF HostInv, Numbered
    <2>7. h = i
      <3>1. ~(h < i) /\ ~(i < h)
        BY <2>2, <2>4, <2>5, <2>6
      <3>2. QED BY <2>4, <2>5, <3>1
    <2>8. l[j].seq < l[i].seq
      BY <2>2, <2>7
    <2>9. j # i /\ ~(i < j)
      BY <2>4, <2>5, <2>6, <2>8
    <2>10. QED BY <2>4, <2>5, <2>9
  <1>2. QED BY <1>1, HostInvHolds, PTL

\* A cancel-all that has been handled leaves no earlier open order of its symbol
\* without its mark.
THEOREM CancelAllsFinish == Spec => []CancelAllLeavesNone
  <1>1. HostInv => CancelAllLeavesNone
    BY DEF HostInv, Cancelled
  <1>2. QED BY <1>1, HostInvHolds, PTL
===============================================================================
