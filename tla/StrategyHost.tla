----------------------------- MODULE StrategyHost -----------------------------
(***************************************************************************)
(* One strategy on the Kafka bus: the host that feeds it ticks and saves   *)
(* what it remembers, the emitter that numbers and records its signals,    *)
(* and the signal side of the execution manager, places, cancels and       *)
(* cancel-alls, over kills, teardowns and restarts.                        *)
(*                                                                         *)
(* Strategies share no symbol, and seqs, snapshots and rows are keyed by   *)
(* strategy, so one stands for all.  What it does on its ticks is a        *)
(* script: its next step at each tick, each step some signals.  An order   *)
(* is known by the seq of the signal that asked for it.                    *)
(*                                                                         *)
(* An operator that stands before the one it is named after (SavedAlways   *)
(* before Gate) is a plausible bug in it, for the sensitivity runs of      *)
(* PROJECT.json; no specification uses it.                                 *)
(***************************************************************************)
EXTENDS Integers, Sequences, Functions, FiniteSetsExt

CONSTANTS
    Symbols,
    Script,       \* what the strategy emits at its first tick, its second, ...
    MaxTicks,     \* bound: ticks of each symbol
    MaxMishaps    \* bound: kills, teardowns, ticks published twice, errors of the
                  \* strategy and failed restores, all together

Kinds == {"place", "cancel", "cancel_all"}

ASSUME StrategyHostAssumption ==
    /\ Script \in [Symbols -> Seq(Seq(Kinds))]
    /\ MaxTicks \in Nat
    /\ MaxMishaps \in Nat

Stages == {"idle", "saving", "sending", "sent", "cancelling", "flushing"}
States == {"denied", "pending", "submitted", "ended"}

VARIABLES
    topic,     \* broker: the records of each symbol, ticks and signals
    committed, \* broker: the group's offsets
    record,    \* store: the strategy's seq record
    snapshot,  \* store: what the strategy last saved
    rows,      \* store: the rows of its orders, which memory repeats
    venue,     \* the orders that reached the venue
    phase,     \* before the startup barrier cleared, or after
    nextSeq,   \* SignalEmitter._next_seq
    mem,       \* what the strategy remembers
    gate,      \* the tick gate's high water of each symbol
    stage,     \* where the dispatch of a record is
    current,   \* the symbol of that record
    held,      \* the signals its callback published
    todo,      \* the cancel marks still to be written
    batch,     \* the orders of the cancel still to be sent
    sends,     \* history: the cancels sent, each with its signal
    forgot,    \* history: a snapshot would not restore
    lives,     \* how many lives have ended
    ticks, mishaps \* bound counters

broker == <<topic, committed>>
strategy == <<nextSeq, mem, gate>>
cancelling == <<todo, batch>>
counters == <<lives, ticks, mishaps>>
vars == <<broker, record, snapshot, rows, venue, phase, strategy, stage, current,
          held, cancelling, sends, forgot, counters>>

Blank == [s \in Symbols |-> [step |-> 0, placed |-> 0]]

Init ==
    /\ topic = [s \in Symbols |-> <<>>]
    /\ committed = [s \in Symbols |-> 0]
    /\ record = 0
    /\ snapshot = Blank
    /\ rows = <<>>
    /\ venue = <<>>
    /\ phase = "boot"
    /\ nextSeq = 1
    /\ mem = Blank
    /\ gate = [s \in Symbols |-> 0]
    /\ stage = "idle"
    /\ current \in Symbols
    /\ held = <<>>
    /\ todo = {}
    /\ batch = {}
    /\ sends = <<>>
    /\ forgot = FALSE
    /\ lives = 0
    /\ ticks = [s \in Symbols |-> 0]
    /\ mishaps = 0

Mishap == mishaps < MaxMishaps /\ mishaps' = mishaps + 1

With(f, x, v) == [y \in DOMAIN f \cup {x} |-> IF y = x THEN v ELSE f[y]]

\* The record of s that is dispatched next, or is being dispatched.
Record(s) == topic[s][committed[s] + 1]

Takes(s, kinds) ==
    /\ stage = "idle"
    /\ committed[s] < Len(topic[s])
    /\ Record(s).kind \in kinds
    /\ current' = s

Signal == Record(current)

-------------------------------------------------------------------------------
\* The feed, from its own task.  A reconnect may publish a tick again.

Tick(n) == [kind |-> "tick", seq |-> n, target |-> 0, step |-> 0, part |-> 0,
            tick |-> n, life |-> lives]

FeedPublishes(s) ==
    /\ phase = "running"
    /\ ticks[s] < MaxTicks
    /\ topic' = [topic EXCEPT ![s] = Append(@, Tick(ticks[s] + 1))]
    /\ ticks' = [ticks EXCEPT ![s] = @ + 1]
    /\ UNCHANGED <<committed, record, snapshot, rows, venue, phase, strategy, stage,
                   current, held, cancelling, sends, forgot, lives, mishaps>>

FeedRepeats(s) ==
    /\ phase = "running"
    /\ ticks[s] > 0
    /\ topic' = [topic EXCEPT ![s] = Append(@, Tick(ticks[s]))]
    /\ Mishap
    /\ UNCHANGED <<committed, record, snapshot, rows, venue, phase, strategy, stage,
                   current, held, cancelling, sends, forgot, lives, ticks>>

-------------------------------------------------------------------------------
\* The host: the tick gate, the callback, the save.

Gate(s, n) == n > gate[s]

\* Nobody has subscribed yet, the tick repeats one this life has heard, or it is
\* older than the staleness limit.
TickDropped(s) ==
    /\ Takes(s, {"tick"})
    /\ stage' = "flushing"
    /\ UNCHANGED <<broker, record, snapshot, rows, venue, phase, strategy, held,
                   cancelling, sends, forgot, counters>>

Emission(s) == Script[s][mem[s].step + 1]

\* The seq of the last place among the first n signals of the emission, or the
\* one before it.
LastPlace(s, n) ==
    LET places == {i \in 1..n : Emission(s)[i] = "place"}
    IN  IF places = {} THEN mem[s].placed ELSE nextSeq + Max(places) - 1

Signals(s, n) ==
    [i \in 1..n |->
        [kind |-> Emission(s)[i], seq |-> nextSeq + i - 1,
         target |-> IF Emission(s)[i] = "cancel" THEN LastPlace(s, i - 1) ELSE 0,
         step |-> mem[s].step + 1, part |-> i,
         tick |-> Record(s).tick, life |-> lives]]

RaiseSeqOverwrites(seq) == seq

RaiseSeq(seq) == IF seq > record THEN seq ELSE record

\* Every signal's seq is in the store before it is published.
RecordedSeqs(s, n) == IF n = 0 THEN record ELSE RaiseSeq(nextSeq + n - 1)

\* on_tick emits the signals of its step, or the first n of them and raises an
\* error of its own, which the host contains.  What is published in a callback is
\* held until its dispatch returns.  A seq write the store refuses is a fault: it
\* ends the life as a kill or a teardown from here does.
Emits(s, n) ==
    /\ mem' = [mem EXCEPT ![s] = [step |-> @.step + 1, placed |-> LastPlace(s, n)]]
    /\ held' = Signals(s, n)
    /\ record' = RecordedSeqs(s, n)
    /\ nextSeq' = nextSeq + n
    /\ IF n = Len(Emission(s)) THEN UNCHANGED mishaps ELSE Mishap

TickHeard(s) ==
    /\ Takes(s, {"tick"})
    /\ phase = "running"
    /\ Gate(s, Record(s).seq)
    /\ mem[s].step < Len(Script[s])
    /\ gate' = [gate EXCEPT ![s] = Record(s).seq]
    /\ \E n \in 0..Len(Emission(s)) : Emits(s, n)
    /\ stage' = "saving"
    /\ UNCHANGED <<broker, snapshot, rows, venue, phase, cancelling, sends, forgot,
                   lives, ticks>>

TickIgnored(s) ==
    /\ Takes(s, {"tick"})
    /\ phase = "running"
    /\ Gate(s, Record(s).seq)
    /\ mem[s].step = Len(Script[s])
    /\ gate' = [gate EXCEPT ![s] = Record(s).seq]
    /\ stage' = "saving"
    /\ UNCHANGED <<broker, record, snapshot, rows, venue, phase, nextSeq, mem, held,
                   cancelling, sends, forgot, counters>>

Persist ==
    /\ stage = "saving"
    /\ snapshot' = mem
    /\ stage' = "flushing"
    /\ UNCHANGED <<broker, record, rows, venue, phase, strategy, current, held,
                   cancelling, sends, forgot, counters>>

-------------------------------------------------------------------------------
\* The manager: a place.

Open(o) == o \in DOMAIN rows /\ rows[o].state \in {"pending", "submitted"}

OpenOrders(s) == {o \in DOMAIN rows : Open(o) /\ rows[o].symbol = s}

NewRow(s, state) == [symbol |-> s, state |-> state, marker |-> 0]

\* A signal seen before has a row, whatever became of it.
Known(o) == o \in DOMAIN rows

PlaceKnown(s) ==
    /\ Takes(s, {"place"})
    /\ Known(Record(s).seq)
    /\ stage' = "flushing"
    /\ UNCHANGED <<broker, record, snapshot, rows, venue, phase, strategy, held,
                   cancelling, sends, forgot, counters>>

DeniedRow(s, o) == With(rows, o, NewRow(s, "denied"))

\* Every order is denied before the barrier clears, and the guard may deny any.
PlaceDenied(s) ==
    /\ Takes(s, {"place"})
    /\ ~Known(Record(s).seq)
    /\ rows' = DeniedRow(s, Record(s).seq)
    /\ stage' = "flushing"
    /\ UNCHANGED <<broker, record, snapshot, venue, phase, strategy, held,
                   cancelling, sends, forgot, counters>>

PendingRow(s, o) == With(rows, o, NewRow(s, "pending"))

\* The intent is durable before anything is sent.
PlaceWritten(s) ==
    /\ Takes(s, {"place"})
    /\ ~Known(Record(s).seq)
    /\ phase = "running"
    /\ rows' = PendingRow(s, Record(s).seq)
    /\ stage' = "sending"
    /\ UNCHANGED <<broker, record, snapshot, venue, phase, strategy, held,
                   cancelling, sends, forgot, counters>>

\* The request reaches the venue, or is lost.
PlaceSent ==
    /\ stage = "sending"
    /\ \/ venue' = With(venue, Signal.seq, "resting")
       \/ UNCHANGED venue
    /\ stage' = "sent"
    /\ UNCHANGED <<broker, record, snapshot, rows, phase, strategy, current, held,
                   cancelling, sends, forgot, counters>>

PlaceCheckpointed ==
    /\ stage = "sent"
    /\ rows' = [rows EXCEPT ![Signal.seq].state = "submitted"]
    /\ stage' = "flushing"
    /\ UNCHANGED <<broker, record, snapshot, venue, phase, strategy, current, held,
                   cancelling, sends, forgot, counters>>

-------------------------------------------------------------------------------
\* The manager: a cancel and a cancel-all.  Both mark rows durably, then send.

Cancellable(o) == Open(o) /\ rows[o].marker = 0

ReachesAnyOrder(o, seq) == rows[o].marker < seq

ReachesUnmarked(o, seq) == o < seq /\ rows[o].marker = 0

\* A cancel-all reaches the orders sent before it, unless it, or a later one, has
\* marked them.
Reaches(o, seq) == o < seq /\ rows[o].marker < seq

CancelMissed(s) ==
    /\ Takes(s, {"cancel"})
    /\ ~Cancellable(Record(s).target)
    /\ stage' = "flushing"
    /\ UNCHANGED <<broker, record, snapshot, rows, venue, phase, strategy, held,
                   cancelling, sends, forgot, counters>>

CancelTaken(s) ==
    /\ Takes(s, {"cancel"})
    /\ Cancellable(Record(s).target)
    /\ todo' = {Record(s).target}
    /\ batch' = {Record(s).target}
    /\ stage' = "cancelling"
    /\ UNCHANGED <<broker, record, snapshot, rows, venue, phase, strategy, held,
                   sends, forgot, counters>>

CancelAllTaken(s) ==
    /\ Takes(s, {"cancel_all"})
    /\ record' = RaiseSeq(Record(s).seq)
    /\ todo' = {o \in OpenOrders(s) : Reaches(o, Record(s).seq)}
    /\ batch' = todo'
    /\ stage' = IF todo' = {} THEN "flushing" ELSE "cancelling"
    /\ UNCHANGED <<broker, snapshot, rows, venue, phase, strategy, held, sends,
                   forgot, counters>>

MarkWritten ==
    /\ stage = "cancelling"
    /\ \E o \in todo :
         /\ rows' = [rows EXCEPT ![o].marker = Signal.seq]
         /\ todo' = todo \ {o}
    /\ UNCHANGED <<broker, record, snapshot, venue, phase, strategy, stage, current,
                   held, batch, sends, forgot, counters>>

\* One send for all of them; the venue may end what it finds resting, or not.
CancelSent ==
    /\ stage = "cancelling"
    /\ todo = {}
    /\ sends' = Append(sends, [by |-> Signal.seq, symbol |-> current, orders |-> batch])
    /\ batch' = {}
    /\ stage' = "flushing"
    /\ UNCHANGED <<broker, record, snapshot, rows, venue, phase, strategy, current, held,
                   todo, forgot, counters>>

-------------------------------------------------------------------------------
\* The end of a dispatch.

FlushHeld ==
    /\ stage = "flushing"
    /\ held # <<>>
    /\ topic' = [topic EXCEPT ![current] = Append(@, Head(held))]
    /\ held' = Tail(held)
    /\ UNCHANGED <<committed, record, snapshot, rows, venue, phase, strategy, stage,
                   current, cancelling, sends, forgot, counters>>

Commit ==
    /\ stage = "flushing"
    /\ held = <<>>
    /\ committed' = [committed EXCEPT ![current] = @ + 1]
    /\ stage' = "idle"
    /\ UNCHANGED <<topic, record, snapshot, rows, venue, phase, strategy, current,
                   held, cancelling, sends, forgot, counters>>

-------------------------------------------------------------------------------
\* What the rest of the system does to an order: the venue ends one that rests, by
\* a fill, a cancel or a refusal, and the saga learns what the venue did, from its
\* reports or the reconciler's reads.  No task runs between the marks of one cancel,
\* and the races with a placement that is being sent are SagaEngine's.

BeingPlaced(o) == stage \in {"sending", "sent"} /\ Signal.seq = o

VenueEnds(o) ==
    /\ venue[o] = "resting"
    /\ venue' = [venue EXCEPT ![o] = "over"]
    /\ UNCHANGED <<broker, record, snapshot, rows, phase, strategy, stage, current,
                   held, cancelling, sends, forgot, counters>>

SagaLearns(o) ==
    /\ Open(o)
    /\ ~BeingPlaced(o)
    /\ todo = {}
    /\ LET there == IF o \in DOMAIN venue THEN venue[o] ELSE "nowhere"
       IN  \/ /\ there # "resting"
              /\ rows' = [rows EXCEPT ![o].state = "ended"]
           \/ /\ there = "resting"
              /\ rows[o].state = "pending"
              /\ rows' = [rows EXCEPT ![o].state = "submitted"]
    /\ UNCHANGED <<broker, record, snapshot, venue, phase, strategy, stage, current,
                   held, cancelling, sends, forgot, counters>>

-------------------------------------------------------------------------------
\* Boot and end of a life.

\* The highest seq the records, the rows and their cancel marks know.
HighWater ==
    Max({record} \cup DOMAIN rows \cup {rows[o].marker : o \in DOMAIN rows})

\* The barrier clears once every intent is matched with the venue; then, with no
\* await between, the strategy is restored and numbered.  A snapshot its code no
\* longer reads starts it fresh.
Start ==
    /\ phase = "boot"
    /\ \A o \in DOMAIN rows : rows[o].state # "pending"
    /\ phase' = "running"
    /\ \/ mem' = snapshot /\ UNCHANGED <<forgot, mishaps>>
       \/ /\ Mishap
          /\ mem' = Blank
          /\ forgot' = TRUE
    /\ nextSeq' = HighWater + 1
    /\ gate' = [s \in Symbols |-> 0]
    /\ UNCHANGED <<broker, record, snapshot, rows, venue, stage, current, held,
                   cancelling, sends, lives, ticks>>

NextLife ==
    /\ lives' = lives + 1
    /\ Mishap
    /\ \/ UNCHANGED committed
       \/ committed' = [s \in Symbols |-> 0]
    /\ phase' = "boot"
    /\ nextSeq' = 1
    /\ mem' = Blank
    /\ gate' = [s \in Symbols |-> 0]
    /\ stage' = "idle"
    /\ held' = <<>>
    /\ todo' = {}
    /\ batch' = {}
    /\ UNCHANGED <<topic, record, rows, venue, current, sends, forgot, ticks>>

Killed == NextLife /\ UNCHANGED snapshot

SavedAlways == mem

\* stop() saves nothing before start() has restored something.
SavedAtStop == IF phase = "running" THEN mem ELSE snapshot

TornDown == NextLife /\ snapshot' = SavedAtStop

-------------------------------------------------------------------------------
Feed == \E s \in Symbols : FeedPublishes(s) \/ FeedRepeats(s)

TickDispatch ==
    \/ \E s \in Symbols :
         \/ TickDropped(s)
         \/ TickHeard(s)
         \/ TickIgnored(s)
    \/ Persist

PlaceDispatch ==
    \/ \E s \in Symbols : PlaceKnown(s) \/ PlaceDenied(s) \/ PlaceWritten(s)
    \/ PlaceSent
    \/ PlaceCheckpointed

CancelDispatch ==
    \/ \E s \in Symbols : CancelMissed(s) \/ CancelTaken(s) \/ CancelAllTaken(s)
    \/ MarkWritten
    \/ CancelSent

Dispatch == TickDispatch \/ PlaceDispatch \/ CancelDispatch \/ FlushHeld \/ Commit

Market == \E o \in DOMAIN venue : VenueEnds(o)

Sagas == \E o \in DOMAIN rows : SagaLearns(o)

Next == Feed \/ Dispatch \/ Market \/ Sagas \/ Start \/ Killed \/ TornDown

Spec == Init /\ [][Next]_vars

===============================================================================
