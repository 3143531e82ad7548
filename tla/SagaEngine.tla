------------------------------ MODULE SagaEngine ------------------------------
(***************************************************************************)
(* The order path of a live engine: the strategies' signals, the in-memory *)
(* event bus, the ExecutionManager with its checkpoints, the venue adapter *)
(* with its requests in flight, the Reconciler's startup pass and its two  *)
(* cadences, crashes, faults and restarts.                                 *)
(*                                                                         *)
(* Everything between two awaits is one step: asyncio runs it without      *)
(* interleaving.  A crash inside such a step is a crash before it, or a    *)
(* crash after it with the request lost on the wire.                       *)
(*                                                                         *)
(* As in OrderSaga, an operator that stands before the one it is named     *)
(* after (KnownWhileOpen before Known) is a plausible bug in it, for the   *)
(* sensitivity runs of PROJECT.json; no specification uses it.             *)
(***************************************************************************)
EXTENDS OrderSaga, Sequences, FiniteSets

CONSTANTS
    Cloids,      \* the orders the strategy may ask for, one place signal each
    Cancellable, \* those it may ask to cancel
    Lots,        \* the size of every order: a venue trade moves one lot
    MissLimit,   \* inflight_max_attempts
    MaxCrashes,  \* bound: process kills in a behaviour
    MaxDups,     \* bound: redeliveries of a dispatched signal or report
    MaxBacklog,  \* bound: a read starts behind at most so many messages
    Forgets      \* the venue may drop the record of an order that has ended

ASSUME SagaEngineAssumption ==
    /\ "none" \notin Cloids
    /\ Cancellable \subseteq Cloids
    /\ Lots \in Nat \ {0}
    /\ MissLimit \in Nat \ {0}
    /\ MaxCrashes \in Nat
    /\ MaxDups \in Nat
    /\ MaxBacklog \in Nat
    /\ Forgets \in BOOLEAN

\* What the bus carries.  "judge" is no message: it marks, among what a pass
\* still has to publish, the place where it asks the ghost gate.
Message ==
    [ kind : {"place", "cancel", "status", "fill", "event", "judge"},
      c    : Cloids,
      st   : OrderStates \cup {"none"},
      t    : 0..Lots,
      oid  : BOOLEAN ]

Bare(kind, c)        == [kind |-> kind, c |-> c, st |-> "none", t |-> 0, oid |-> FALSE]
PlaceSignal(c)       == Bare("place", c)
CancelSignal(c)      == Bare("cancel", c)
JudgeGhost(c)        == Bare("judge", c)
Status(c, st, oid)   == [Bare("status", c) EXCEPT !.st = st, !.oid = oid]
FillReport(c, t)     == [Bare("fill", c) EXCEPT !.t = t]
OrderEvent(c, st, t) == [Bare("event", c) EXCEPT !.st = st, !.t = t]

Cadences == {"startup", "inflight", "open"}

\* What fetch_order answers: the record's state, or "none", whether there was
\* a key to read the fill history by, and how many of the trades it listed:
\* the oldest come first, so n of them are the trades 1..n.
Views == [ st      : {"none", "LIVE", "FILLED", "CANCELLED", "REJECTED"},
           history : BOOLEAN,
           fills   : 0..Lots ]
NoView == [st |-> "none", history |-> FALSE, fills |-> 0]

VenueOrder == [ st    : {"absent", "open", "filled", "cancelled", "rejected"},
                fills : 0..Lots,
                rec   : BOOLEAN ]

Replies == {"none", "resting", "filled", "rejected", "refused", "cancelled", "gone"}

VARIABLES
    store,     \* durable: the order rows
    cache,     \* memory: the sagas the handlers move
    venue,     \* the venue's own truth about each cloid
    wire,      \* requests sent and not yet processed by the venue
    handler,   \* what the bus's drain is suspended on
    reply,     \* the venue's answer on its way back to that handler
    queue,     \* the bus: published, not yet dispatched
    outbox,    \* what the task that started the drain still has to publish
    drainer,   \* that task
    phase,     \* down, starting (the barrier has not cleared) or up
    misses,    \* the in-flight budget's consecutive misses
    armed,     \* the ghost grace clock is running
    reads,     \* the read each cadence is suspended on
    proved,    \* the orders this startup pass has proved
    asked,     \* history: the signals the strategy has emitted
    delivered, \* history: the signals and reports dispatched, if any may come again
    sends,     \* history: how often each cloid was sent to the venue
    told,      \* history: the OrderEvents announced
    hasty,     \* history: the orders failed on a read their placement was racing
    fault,     \* history: what last stopped the engine
    crashes,   \* bound counter
    dups       \* bound counter

bus == <<queue, outbox, drainer>>
reconciler == <<misses, armed, reads, proved>>
history == <<asked, sends, told, hasty, fault>>
bounds == <<crashes, dups>>
vars == <<store, cache, venue, wire, handler, reply, bus, phase, reconciler,
          history, delivered, bounds>>

Idle == [at |-> "idle", c |-> "none"]
NoRead == [c |-> "none", view |-> NoView, racing |-> FALSE]

-------------------------------------------------------------------------------
\* The bus: one drain at a time, run by the task that published into an idle
\* bus, dispatching synchronously except where a handler awaits the venue.

Draining == handler # Idle \/ queue # <<>> \/ outbox # <<>>

\* Another task runs only while the drain is suspended in a venue call, or
\* when there is no drain.
TaskMayRun == /\ phase # "down"
              /\ Draining => handler # Idle

\* Behind a running drain publish enqueues and returns.  Otherwise the task
\* drains each message it publishes before it publishes the next one.
PublishAll(task, msgs) ==
    IF Draining \/ msgs = <<>>
    THEN queue' = queue \o msgs /\ UNCHANGED <<outbox, drainer>>
    ELSE queue' = <<Head(msgs)>> /\ outbox' = Tail(msgs) /\ drainer' = task

Dispatching(kind) ==
    /\ phase # "down"
    /\ handler = Idle
    /\ queue # <<>>
    /\ Head(queue).kind = kind
    /\ delivered' = IF MaxDups > 0 /\ kind # "event"
                    THEN delivered \cup {Head(queue)} ELSE delivered

-------------------------------------------------------------------------------
Init ==
    /\ store = [c \in Cloids |-> NoSaga]
    /\ cache = [c \in Cloids |-> NoSaga]
    /\ venue = [c \in Cloids |-> [st |-> "absent", fills |-> 0, rec |-> FALSE]]
    /\ wire = {}
    /\ handler = Idle
    /\ reply = "none"
    /\ queue = <<>>
    /\ outbox = <<>>
    /\ drainer = "feed"
    /\ phase = "starting"
    /\ misses = [c \in Cloids |-> 0]
    /\ armed = [c \in Cloids |-> FALSE]
    /\ reads = [d \in Cadences |-> NoRead]
    /\ proved = {}
    /\ asked = {}
    /\ delivered = {}
    /\ sends = [c \in Cloids |-> 0]
    /\ told = {}
    /\ hasty = {}
    /\ fault = <<"none", "none">>
    /\ crashes = 0
    /\ dups = 0

-------------------------------------------------------------------------------
\* The strategy.  It places each order once, and asks once for its cancel: on
\* a tick or a wake, or in reaction to an OrderEvent.

Emit(m) ==
    /\ phase = "up"
    /\ TaskMayRun
    /\ m \notin asked
    /\ asked' = asked \cup {m}
    /\ PublishAll("feed", <<m>>)
    /\ UNCHANGED <<store, cache, venue, wire, handler, reply, phase, reconciler,
                   sends, told, hasty, fault, delivered, bounds>>

EmitPlace(c) == Emit(PlaceSignal(c))

EmitCancel(c) == c \in Cancellable /\ PlaceSignal(c) \in asked /\ Emit(CancelSignal(c))

\* A callback's publish lands behind whatever the drain still holds.
HandleEvent ==
    /\ Dispatching("event")
    /\ LET cancel == CancelSignal(Head(queue).c)
       IN  \/ queue' = Tail(queue) /\ UNCHANGED asked
          \/ /\ phase = "up"
             /\ Head(queue).c \in Cancellable /\ cancel \notin asked
             /\ queue' = Append(Tail(queue), cancel)
             /\ asked' = asked \cup {cancel}
    /\ UNCHANGED <<store, cache, venue, wire, handler, reply, outbox, drainer,
                   phase, reconciler, sends, told, hasty, fault, bounds>>

\* The bus promises at-least-once delivery: a signal or a report may be
\* dispatched again, in the process that dispatched it or in a later one.
Redeliver(m) ==
    /\ TaskMayRun
    /\ dups < MaxDups
    /\ m \in delivered
    /\ PublishAll("feed", <<m>>)
    /\ dups' = dups + 1
    /\ UNCHANGED <<store, cache, venue, wire, handler, reply, phase, reconciler,
                   history, delivered, crashes>>

-------------------------------------------------------------------------------
\* The ExecutionManager.

Checkpointed(c, order) == [store EXCEPT ![c] = order]

\* A move of a saga: durable first, then announced on the bus.
Commit(c, order, st, t) ==
    /\ cache' = [cache EXCEPT ![c] = order]
    /\ store' = Checkpointed(c, order)
    /\ queue' = Append(Tail(queue), OrderEvent(c, st, t))
    /\ told' = told \cup {OrderEvent(c, st, t)}

KnownWhileOpen(c) == IsOpen(cache[c])

\* A signal seen before is told by the cloid it derives, whatever its saga's state.
Known(c) == cache[c] # NoSaga

PlaceKnown(c) ==
    /\ Known(c)
    /\ queue' = Tail(queue)
    /\ UNCHANGED <<store, cache, wire, handler, sends, told>>

\* The guard, or a barrier that has not cleared, refuses: never sent.
PlaceDenied(c) ==
    /\ ~Known(c)
    /\ Commit(c, ApplyStatus(NewOrder, "DENIED", FALSE), "DENIED", 0)
    /\ UNCHANGED <<wire, handler, sends>>

Placed(c) == <<OrderEvent(c, "PENDING", 0), OrderEvent(c, "SUBMITTED", 0)>>

WriteAhead(c) == Checkpointed(c, NewOrder)

\* PENDING is durable before the send; SUBMITTED is announced from memory and
\* becomes durable only when the send returns.
PlaceSent(c) ==
    /\ ~Known(c)
    /\ phase = "up"
    /\ store' = WriteAhead(c)
    /\ cache' = [cache EXCEPT ![c] = ApplyStatus(NewOrder, "SUBMITTED", FALSE)]
    /\ queue' = Tail(queue) \o Placed(c)
    /\ told' = told \cup {OrderEvent(c, "PENDING", 0), OrderEvent(c, "SUBMITTED", 0)}
    /\ wire' = wire \cup {<<"place", c>>}
    /\ sends' = [sends EXCEPT ![c] = @ + 1]
    /\ handler' = [at |-> "place", c |-> c]

\* The adapter has no price to bound a market order by: it reports FAILED and
\* returns without a send.
PlaceUnpriced(c) ==
    /\ ~Known(c)
    /\ phase = "up"
    /\ LET order == ApplyStatus(NewOrder, "SUBMITTED", FALSE)
       IN  store' = Checkpointed(c, order) /\ cache' = [cache EXCEPT ![c] = order]
    /\ queue' = Tail(queue) \o Placed(c) \o <<Status(c, "FAILED", FALSE)>>
    /\ told' = told \cup {OrderEvent(c, "PENDING", 0), OrderEvent(c, "SUBMITTED", 0)}
    /\ UNCHANGED <<wire, handler, sends>>

HandlePlace ==
    /\ Dispatching("place")
    /\ LET c == Head(queue).c
       IN  PlaceKnown(c) \/ PlaceDenied(c) \/ PlaceSent(c) \/ PlaceUnpriced(c)
    /\ UNCHANGED <<venue, reply, outbox, drainer, phase, reconciler,
                   asked, hasty, fault, bounds>>

\* The marker is durable before the cancel goes out.
HandleCancel ==
    /\ Dispatching("cancel")
    /\ LET c == Head(queue).c
       IN  IF Known(c) /\ MayRequestCancel(cache[c])
           THEN /\ cache' = [cache EXCEPT ![c] = RequestCancel(@)]
                /\ store' = Checkpointed(c, RequestCancel(cache[c]))
                /\ wire' = wire \cup {<<"cancel", c>>}
                /\ handler' = [at |-> "cancel", c |-> c]
           ELSE UNCHANGED <<store, cache, wire, handler>>
    /\ queue' = Tail(queue)
    /\ UNCHANGED <<venue, reply, outbox, drainer, phase, reconciler, history, bounds>>

\* An illegal move raises InvariantViolation: the engine stops, memory is lost.
Stop ==
    /\ phase' = "down"
    /\ cache' = [c \in Cloids |-> NoSaga]
    /\ handler' = Idle
    /\ reply' = "none"
    /\ queue' = <<>>
    /\ outbox' = <<>>
    /\ drainer' = "feed"
    /\ misses' = [c \in Cloids |-> 0]
    /\ armed' = [c \in Cloids |-> FALSE]
    /\ reads' = [d \in Cadences |-> NoRead]
    /\ proved' = {}

Fault(order, target) ==
    /\ Stop
    /\ fault' = <<order.st, target>>
    /\ UNCHANGED <<store, venue, wire, asked, sends, told, hasty, bounds>>

StatusMoves == {"SUBMITTED", "LIVE", "CANCELLED", "REJECTED", "FAILED"}

HandleStatus ==
    /\ Dispatching("status")
    /\ LET m == Head(queue)
           order == cache[m.c]
           ignored == \/ ~IsOpen(order)
                      \/ m.st \notin StatusMoves
                      \/ SeenStatus(order, m.st)
       IN  \/ /\ ignored
              /\ queue' = Tail(queue)
              /\ UNCHANGED <<store, cache, venue, wire, handler, reply, outbox,
                             drainer, phase, reconciler, history, bounds>>
           \/ /\ ~ignored /\ MayEnter(order, m.st)
              /\ Commit(m.c, ApplyStatus(order, m.st, m.oid), m.st, 0)
              /\ UNCHANGED <<venue, wire, handler, reply, outbox, drainer, phase,
                             reconciler, asked, sends, hasty, fault, bounds>>
           \/ /\ ~ignored /\ ~MayEnter(order, m.st)
              /\ Fault(order, m.st)

HandleFill ==
    /\ Dispatching("fill")
    /\ LET m == Head(queue)
           order == cache[m.c]
           target == FillTarget(order, Lots)
           ignored == ~Known(m.c) \/ SeenFill(order, m.t)
       IN  \/ /\ ignored
              /\ queue' = Tail(queue)
              /\ UNCHANGED <<store, cache, venue, wire, handler, reply, outbox,
                             drainer, phase, reconciler, history, bounds>>
           \/ /\ ~ignored /\ MayEnter(order, target)
              /\ Commit(m.c, ApplyFill(order, m.t, Lots), target, m.t)
              /\ UNCHANGED <<venue, wire, handler, reply, outbox, drainer, phase,
                             reconciler, asked, sends, hasty, fault, bounds>>
           \/ /\ ~ignored /\ ~MayEnter(order, target)
              /\ Fault(order, target)

-------------------------------------------------------------------------------
\* The venue adapter: a place or cancel handler resumes on its answer.

AfterSendForgotten(c, next) == store

\* Once place returns, the order is checkpointed in the state memory holds.
AfterSend(c, next) ==
    IF handler.at # "cancel" /\ next = Idle THEN Checkpointed(c, cache[c]) ELSE store

\* The handler's own publishes queue behind the drain it runs in.
Resume(c, msgs, next) ==
    /\ handler' = next
    /\ reply' = "none"
    /\ queue' = queue \o msgs
    /\ store' = AfterSend(c, next)
    /\ UNCHANGED <<cache, venue, wire, outbox, drainer, phase, reconciler,
                   history, delivered, bounds>>

\* resting and filled are both acks that carry the oid; a refused action and
\* an unanswered send report nothing that moves a saga.
PlaceAnswered(c) ==
    /\ handler = [at |-> "place", c |-> c]
    /\ \/ reply = "resting"  /\ Resume(c, <<Status(c, "LIVE", TRUE)>>, Idle)
       \/ reply = "filled"   /\ Resume(c, <<Status(c, "LIVE", TRUE)>>, [at |-> "fills", c |-> c])
       \/ reply = "rejected" /\ Resume(c, <<Status(c, "REJECTED", FALSE)>>, Idle)
       \/ reply = "refused"  /\ Resume(c, <<>>, Idle)

FillReports(c, n) == [t \in 1..n |-> FillReport(c, t)]

\* The fills read after a filled answer, retries folded in: it may still be
\* short, or have failed.
PlaceFillsRead(c) ==
    /\ handler = [at |-> "fills", c |-> c]
    /\ \E n \in 0..venue[c].fills : Resume(c, FillReports(c, n), Idle)

CancelAnswered(c) ==
    /\ handler = [at |-> "cancel", c |-> c]
    /\ \/ reply = "cancelled" /\ Resume(c, <<Status(c, "CANCELLED", FALSE)>>, Idle)
       \/ reply = "gone"      /\ Resume(c, <<>>, Idle)

\* The send timed out, or its answer was lost or unreadable: nothing is known.
Unanswered(c) ==
    /\ handler.at \in {"place", "cancel"} /\ handler.c = c
    /\ Resume(c, <<>>, Idle)

-------------------------------------------------------------------------------
\* The venue.

Answer(op, c, answer) ==
    IF handler = [at |-> op, c |-> c] THEN reply' = answer ELSE UNCHANGED reply

\* What the venue and the wire do during a stretch without awaits shows only at
\* its end, so it is taken there.
VenueMayAct == phase = "down" \/ TaskMayRun

VenueUnchanged ==
    UNCHANGED <<store, cache, handler, bus, phase, reconciler, history, delivered, bounds>>

\* It rests the order, whole or part filled, fills it, rejects it, or refuses
\* the whole action.
VenueTakesPlace(c) ==
    /\ VenueMayAct
    /\ <<"place", c>> \in wire
    /\ wire' = wire \ {<<"place", c>>}
    /\ \/ \E n \in 0..(Lots - 1) :
             /\ venue' = [venue EXCEPT ![c] = [st |-> "open", fills |-> n, rec |-> TRUE]]
             /\ Answer("place", c, "resting")
       \/ /\ venue' = [venue EXCEPT ![c] = [st |-> "filled", fills |-> Lots, rec |-> TRUE]]
          /\ Answer("place", c, "filled")
       \/ /\ venue' = [venue EXCEPT ![c] = [st |-> "rejected", fills |-> 0, rec |-> TRUE]]
          /\ Answer("place", c, "rejected")
       \/ /\ Answer("place", c, "refused")
          /\ UNCHANGED venue
    /\ VenueUnchanged

VenueTakesCancel(c) ==
    /\ VenueMayAct
    /\ <<"cancel", c>> \in wire
    /\ wire' = wire \ {<<"cancel", c>>}
    /\ IF venue[c].st = "open"
       THEN /\ venue' = [venue EXCEPT ![c].st = "cancelled"]
            /\ Answer("cancel", c, "cancelled")
       ELSE /\ Answer("cancel", c, "gone")
            /\ UNCHANGED venue
    /\ VenueUnchanged

\* A request is lost on the wire.
WireLoses(op, c) ==
    /\ VenueMayAct
    /\ <<op, c>> \in wire
    /\ wire' = wire \ {<<op, c>>}
    /\ UNCHANGED <<venue, reply>>
    /\ VenueUnchanged

VenueFills(c) ==
    /\ VenueMayAct
    /\ venue[c].st = "open"
    /\ venue' = [venue EXCEPT ![c].fills = @ + 1,
                              ![c].st = IF venue[c].fills + 1 = Lots THEN "filled" ELSE "open"]
    /\ UNCHANGED <<wire, reply>>
    /\ VenueUnchanged

\* The venue cancels on its own: a margin call, a schedule, its own interface.
VenueCancels(c) ==
    /\ VenueMayAct
    /\ venue[c].st = "open"
    /\ venue' = [venue EXCEPT ![c].st = "cancelled"]
    /\ UNCHANGED <<wire, reply>>
    /\ VenueUnchanged

\* Old records are dropped by count; the fills stay, keyed by the oid.
VenueForgets(c) ==
    /\ VenueMayAct
    /\ Forgets
    /\ venue[c].st \in {"filled", "cancelled", "rejected"}
    /\ venue[c].rec
    /\ venue' = [venue EXCEPT ![c].rec = FALSE]
    /\ UNCHANGED <<wire, reply>>
    /\ VenueUnchanged

-------------------------------------------------------------------------------
\* The Reconciler.

\* fetch_order: by oid once the saga holds it, else by cloid.
Record(v) ==
    [ st      |-> CASE v.st = "open"      -> "LIVE"
                    [] v.st = "filled"    -> "FILLED"
                    [] v.st = "cancelled" -> "CANCELLED"
                    [] v.st = "rejected"  -> "REJECTED",
      history |-> TRUE,
      fills   |-> v.fills ]

ViewOfRecordOnly(v, oid) == IF v.rec THEN Record(v) ELSE NoView

ViewOf(v, oid) ==
    IF v.rec
    THEN Record(v)
    ELSE IF oid THEN [NoView EXCEPT !.history = TRUE, !.fills = v.fills] ELSE NoView

CadenceReadsOnlyLive(d, c) ==
    CASE d = "startup"  -> phase = "starting" /\ IsOpen(cache[c]) /\ c \notin proved
      [] d = "inflight" -> phase = "up" /\ cache[c].st = "SUBMITTED"
      [] d = "open"     -> phase = "up" /\ cache[c].st = "LIVE"

CadenceReads(d, c) ==
    CASE d = "startup"  -> phase = "starting" /\ IsOpen(cache[c]) /\ c \notin proved
      [] d = "inflight" -> phase = "up" /\ cache[c].st = "SUBMITTED"
      [] d = "open"     -> phase = "up" /\ cache[c].st \in WorkingStates

\* Neither the in-flight budget nor a restart waits for a placement that is
\* still on the wire: a read that starts then may miss an order about to land.
Racing(c) == <<"place", c>> \in wire

ReadStart(d, c) ==
    /\ TaskMayRun
    /\ reads[d] = NoRead
    /\ drainer = d => ~Draining
    /\ Len(queue) <= MaxBacklog
    /\ CadenceReads(d, c)
    /\ reads' = [reads EXCEPT ![d] = [c      |-> c,
                                    view   |-> ViewOf(venue[c], cache[c].oid),
                                    racing |-> Racing(c)]]
    /\ UNCHANGED <<store, cache, venue, wire, handler, reply, bus, phase,
                   misses, armed, proved, history, delivered, bounds>>

\* _resolve_ghost: what a vanished order ended as.
GhostVerdict(order) ==
    IF order.cancel \/ order.st = "PARTIALLY_FILLED" THEN "CANCELLED" ELSE "REJECTED"

\* _judge_ghost and its gate: recent events protect and reset the grace clock,
\* the first absence starts it, a later one may find it run out.
GhostJudged(c, msgs) ==
    IF cache[c].st \in WorkingStates
    THEN \/ msgs = <<>> /\ armed' = [armed EXCEPT ![c] = FALSE]
         \/ msgs = <<>> /\ armed' = [armed EXCEPT ![c] = TRUE]
         \/ /\ armed[c]
            /\ msgs = <<Status(c, GhostVerdict(cache[c]), FALSE)>>
            /\ armed' = [armed EXCEPT ![c] = FALSE]
    ELSE msgs = <<>> /\ armed' = [armed EXCEPT ![c] = FALSE]

Verdicts(c) ==
    {<<>>, <<Status(c, "CANCELLED", FALSE)>>, <<Status(c, "REJECTED", FALSE)>>}

HealingWithoutFills(c, view) ==
    IF cache[c].st = "PENDING" THEN <<Status(c, "SUBMITTED", FALSE)>> ELSE <<>>

\* What a pass replays before the status: the bridge out of PENDING, the fills.
Healing(c, view) ==
    (IF cache[c].st = "PENDING" THEN <<Status(c, "SUBMITTED", FALSE)>> ELSE <<>>)
    \o FillReports(c, view.fills)

NeverLanded(c, view) == view.st = "none" /\ view.fills = 0 /\ cache[c].st \notin WorkingStates

\* The orders failed on a read that began while their placement was on its way.
Hastened(d) == IF reads[d].racing THEN hasty \cup {reads[d].c} ELSE hasty

\* _adopt.  The gate is asked after the healed fills: at once when they only
\* joined a running drain, else once this task's own drain has applied them.
Adopt(d, c, view) ==
    LET healing == Healing(c, view)
        status  == IF view.st = "LIVE" /\ view.fills # 0
                   THEN <<>> ELSE <<Status(c, view.st, TRUE)>>
    IN  IF NeverLanded(c, view)
        THEN /\ PublishAll(d, <<Status(c, "FAILED", FALSE)>>)
             /\ hasty' = Hastened(d)
             /\ UNCHANGED armed
        ELSE IF view.st # "none"
        THEN /\ PublishAll(d, healing \o status)
             /\ armed' = [armed EXCEPT ![c] = FALSE]
             /\ UNCHANGED hasty
        ELSE IF Draining \/ healing = <<>>
        THEN \E msgs \in Verdicts(c) :
                /\ GhostJudged(c, msgs)
                /\ PublishAll(d, healing \o msgs)
                /\ UNCHANGED hasty
        ELSE /\ PublishAll(d, Append(healing, JudgeGhost(c)))
             /\ UNCHANGED <<armed, hasty>>

\* The record is read first and the fill history after it, so the answer may
\* hold trades younger than the record.
Answered(d) ==
    LET view == reads[d].view
    IN  IF view.history
        THEN {[view EXCEPT !.fills = n] : n \in view.fills..venue[reads[d].c].fills}
        ELSE {view}

BudgetSpent(run) == run >= MissLimit

\* An answered read: _resolve_inflight spends the budget on an absence, every
\* other read is adopted.
ReadAnswered(d) ==
    /\ TaskMayRun
    /\ reads[d] # NoRead
    /\ \E view \in Answered(d) :
       LET c == reads[d].c
           absent == d = "inflight" /\ view.st = "none" /\ view.fills = 0
           spent == BudgetSpent(misses[c] + 1)
       IN  /\ \/ /\ absent /\ ~spent
                 /\ misses' = [misses EXCEPT ![c] = @ + 1]
                 /\ UNCHANGED <<bus, armed, hasty>>
              \/ /\ absent /\ spent
                 /\ misses' = [misses EXCEPT ![c] = 0]
                 /\ PublishAll(d, <<Status(c, "FAILED", FALSE)>>)
                 /\ hasty' = Hastened(d)
                 /\ UNCHANGED armed
              \/ /\ ~absent
                 /\ misses' = IF d = "inflight" THEN [misses EXCEPT ![c] = 0] ELSE misses
                 /\ Adopt(d, c, view)
           /\ proved' = IF d = "startup" THEN proved \cup {c} ELSE proved
    /\ reads' = [reads EXCEPT ![d] = NoRead]
    /\ UNCHANGED <<store, cache, venue, wire, handler, reply, phase,
                   asked, sends, told, fault, delivered, bounds>>

ProvedAfterFailureToo(d) == IF d = "startup" THEN proved \cup {reads[d].c} ELSE proved

\* A failed read heals nothing and proves nothing: a startup pass with one
\* starts over.
ProvedAfterFailure(d) == IF d = "startup" THEN {} ELSE proved

ReadFailed(d) ==
    /\ TaskMayRun
    /\ reads[d] # NoRead
    /\ reads' = [reads EXCEPT ![d] = NoRead]
    /\ proved' = ProvedAfterFailure(d)
    /\ UNCHANGED <<store, cache, venue, wire, handler, reply, bus, phase,
                   misses, armed, history, delivered, bounds>>

\* The task that started the drain goes on with its next publish.
PublishNext ==
    /\ phase # "down"
    /\ handler = Idle /\ queue = <<>> /\ outbox # <<>>
    /\ outbox' = Tail(outbox)
    /\ LET m == Head(outbox)
       IN  IF m.kind = "judge"
           THEN \E msgs \in Verdicts(m.c) :
                   /\ GhostJudged(m.c, msgs)
                   /\ queue' = msgs
           ELSE queue' = <<m>> /\ UNCHANGED armed
    /\ UNCHANGED <<store, cache, venue, wire, handler, reply, drainer, phase,
                   misses, reads, proved, history, delivered, bounds>>

\* Every open order was proved in one pass: strategies start, orders place.
BarrierClears ==
    /\ phase = "starting"
    /\ TaskMayRun
    /\ drainer = "startup" => ~Draining
    /\ reads["startup"] = NoRead
    /\ \A c \in Cloids : IsOpen(cache[c]) => c \in proved
    /\ phase' = "up"
    /\ proved' = {}
    /\ UNCHANGED <<store, cache, venue, wire, handler, reply, bus, misses, armed,
                   reads, history, delivered, bounds>>

-------------------------------------------------------------------------------
\* The process.

Crash ==
    /\ phase # "down"
    /\ crashes < MaxCrashes
    /\ crashes' = crashes + 1
    /\ Stop
    /\ UNCHANGED <<store, venue, wire, history, delivered, dups>>

\* A restart rebuilds the cache from the store.
Restart ==
    /\ phase = "down"
    /\ phase' = "starting"
    /\ cache' = store
    /\ UNCHANGED <<store, venue, wire, handler, reply, bus, reconciler,
                   history, delivered, bounds>>

-------------------------------------------------------------------------------
Strategy == \E c \in Cloids : EmitPlace(c) \/ EmitCancel(c)

Dispatch == HandleEvent \/ HandlePlace \/ HandleCancel \/ HandleStatus \/ HandleFill \/ PublishNext

Adapter == \E c \in Cloids :
    PlaceAnswered(c) \/ PlaceFillsRead(c) \/ CancelAnswered(c) \/ Unanswered(c)

Venue == \E c \in Cloids :
    \/ VenueTakesPlace(c) \/ VenueTakesCancel(c)
    \/ \E op \in {"place", "cancel"} : WireLoses(op, c)
    \/ VenueFills(c) \/ VenueCancels(c) \/ VenueForgets(c)

Reconcile == \E d \in Cadences :
    (\E c \in Cloids : ReadStart(d, c)) \/ ReadAnswered(d) \/ ReadFailed(d)

Next ==
    \/ Strategy
    \/ Dispatch
    \/ Adapter
    \/ Venue
    \/ Reconcile
    \/ BarrierClears
    \/ Crash
    \/ Restart
    \/ \E m \in delivered : Redeliver(m)

Spec == Init /\ [][Next]_vars

\* What the code's scheduling gives: the drain runs, every request is answered
\* or times out, the barrier is re-driven and the supervisor restarts a stopped
\* engine.  No request stays on the wire for good; a cadence comes back again and
\* again, and so does a readable answer.
WireSettles(c) ==
    \/ VenueTakesPlace(c)
    \/ VenueTakesCancel(c)
    \/ \E op \in {"place", "cancel"} : WireLoses(op, c)

Fairness ==
    /\ WF_vars(Dispatch)
    /\ WF_vars(Adapter)
    /\ WF_vars(Restart)
    /\ SF_vars(BarrierClears)
    /\ \A c \in Cloids : SF_vars(WireSettles(c))
    /\ \A d \in Cadences : /\ SF_vars(ReadAnswered(d))
                           /\ \A c \in Cloids : SF_vars(ReadStart(d, c))

FairSpec == Spec /\ Fairness

===============================================================================
