-------------------------- MODULE SagaEngineProofs --------------------------
(***************************************************************************)
(* Proofs about SagaEngine for every set of cloids, order size, budget and *)
(* bound: what SagaProperties states, in three parts.  Rows, messages and  *)
(* trades (IInv); the engine's verdicts against the venue (VInv); and the  *)
(* startup barrier (BInv).  Each part rests on the ones before it.         *)
(***************************************************************************)
EXTENDS SagaProperties, FiniteSetTheorems, SequenceTheorems, TLAPS

-------------------------------------------------------------------------------
\* The inductive invariant.

\* What really travels: a fill report tells of a trade that happened.
Mail == {m \in Message : m.kind = "fill" => m.t \in 1..venue[m.c].fills}

Traffic ==
    /\ queue \in Seq(Mail)
    /\ outbox \in Seq(Mail)
    /\ delivered \subseteq Mail
    /\ \A d \in Cadences : reads[d] # NoRead => reads[d].view.fills <= venue[reads[d].c].fills

\* The venue's truth about a cloid, before it has landed and while it trades.
VenueSound ==
    \A c \in Cloids :
        /\ venue[c].st = "absent" => venue[c].fills = 0 /\ ~venue[c].rec
        /\ venue[c].st = "open" => venue[c].fills < Lots
        /\ <<"place", c>> \in wire => venue[c].st = "absent"

\* One send for each row, and nothing at the venue that was not sent.
Sent ==
    \A c \in Cloids :
        /\ sends[c] <= 1
        /\ sends[c] = 1 => store[c].st \notin {"none", "DENIED"}
        /\ (<<"place", c>> \in wire \/ venue[c].st # "absent") => sends[c] = 1
        /\ <<"cancel", c>> \in wire => store[c].cancel

\* A stopped process has no handler suspended.
Stopped == phase = "down" => handler = Idle

IInv == TypeOK /\ Traffic /\ VenueSound /\ Sent /\ Stopped
          /\ MemoryIsDurable /\ AnnouncedIsDurable /\ BookedOnce

-------------------------------------------------------------------------------
\* What messages, rows and queues are made of.

LEMMA MessagesTyped ==
    ASSUME NEW c \in Cloids
    PROVE  /\ \A kind \in {"place", "cancel", "status", "event", "judge"} :
                 Bare(kind, c) \in Message
           /\ \A st \in OrderStates, oid \in BOOLEAN :
                 Status(c, st, oid) \in Message /\ Status(c, st, oid).kind = "status"
           /\ \A t \in 0..Lots : FillReport(c, t) \in Message
           /\ \A t : FillReport(c, t).t = t /\ FillReport(c, t).c = c
           /\ \A st \in OrderStates, t \in 0..Lots :
                 OrderEvent(c, st, t) \in Message /\ OrderEvent(c, st, t).kind = "event"
<1>1. \A kind \in {"place", "cancel", "status", "event", "judge", "fill"} :
          Bare(kind, c) \in Message /\ Bare(kind, c).kind = kind /\ Bare(kind, c).c = c
  BY SagaEngineAssumption DEF Message, Bare, OrderStates
<1>2. ASSUME NEW st \in OrderStates, NEW oid \in BOOLEAN
      PROVE  Status(c, st, oid) \in Message /\ Status(c, st, oid).kind = "status"
  BY <1>1, Zenon DEF Message, Status, Bare
<1>3. ASSUME NEW t \in 0..Lots PROVE FillReport(c, t) \in Message
  BY <1>1, Zenon DEF Message, FillReport, Bare
<1>4. ASSUME NEW t PROVE FillReport(c, t).t = t /\ FillReport(c, t).c = c
  BY Zenon DEF FillReport, Bare
<1>5. ASSUME NEW st \in OrderStates, NEW t \in 0..Lots
      PROVE  OrderEvent(c, st, t) \in Message /\ OrderEvent(c, st, t).kind = "event"
  BY <1>1, Zenon DEF Message, OrderEvent, Bare
<1> QED BY <1>1, <1>2, <1>3, <1>4, <1>5

\* Of these, all but the fills are mail whatever the venue holds.
LEMMA MailTyped ==
    ASSUME NEW c \in Cloids
    PROVE  /\ PlaceSignal(c) \in Mail /\ CancelSignal(c) \in Mail /\ JudgeGhost(c) \in Mail
           /\ \A st \in OrderStates : Status(c, st, TRUE) \in Mail /\ Status(c, st, FALSE) \in Mail
           /\ \A st \in OrderStates, t \in 0..Lots : OrderEvent(c, st, t) \in Mail
<1>1. \A kind \in {"place", "cancel", "judge"} :
          Bare(kind, c) \in Message /\ Bare(kind, c).kind = kind
  BY MessagesTyped, Zenon DEF Bare
<1>2. TRUE \in BOOLEAN /\ FALSE \in BOOLEAN
  OBVIOUS
<1>3. \A st \in OrderStates : Status(c, st, TRUE) \in Mail /\ Status(c, st, FALSE) \in Mail
  BY <1>2, MessagesTyped DEF Mail
<1>4. \A st \in OrderStates, t \in 0..Lots : OrderEvent(c, st, t) \in Mail
  BY MessagesTyped DEF Mail
<1> QED BY <1>1, <1>3, <1>4 DEF Mail, PlaceSignal, CancelSignal, JudgeGhost

LEMMA SagasTyped ==
    ASSUME NEW order \in Saga(Lots)
    PROVE  /\ NoSaga \in Saga(Lots) /\ NewOrder \in Saga(Lots)
           /\ RequestCancel(order) \in Saga(Lots)
           /\ \A st \in OrderStates, oid \in BOOLEAN : ApplyStatus(order, st, oid) \in Saga(Lots)
           /\ FillTarget(order, Lots) \in OrderStates
           /\ \A t \in 1..Lots : ApplyFill(order, t, Lots) \in Saga(Lots)
<1>1. NoSaga \in Saga(Lots)
  BY DEF Saga, NoSaga, OrderStates
<1>2. NewOrder \in Saga(Lots)
  BY <1>1 DEF Saga, NewOrder, OrderStates
<1>3. RequestCancel(order) \in Saga(Lots)
  BY Zenon DEF Saga, RequestCancel
<1>4. ASSUME NEW st \in OrderStates, NEW oid \in BOOLEAN
      PROVE  ApplyStatus(order, st, oid) \in Saga(Lots)
  BY DEF Saga, ApplyStatus
<1>5. FillTarget(order, Lots) \in OrderStates
  BY DEF FillTarget, OrderStates
<1>6. ASSUME NEW t \in 1..Lots PROVE ApplyFill(order, t, Lots) \in Saga(Lots)
  <2>1. order.fills \cup {t} \in SUBSET (1..Lots) /\ order.cum + 1 \in Nat
    BY DEF Saga
  <2> QED BY <1>5, <2>1, Zenon DEF Saga, ApplyFill
<1> QED BY <1>1, <1>2, <1>3, <1>4, <1>5, <1>6

LEMMA Queues ==
    ASSUME NEW S, NEW q \in Seq(S)
    PROVE  /\ q # <<>> => Head(q) \in S /\ Tail(q) \in Seq(S)
           /\ \A m \in S : Append(q, m) \in Seq(S) /\ <<m>> \in Seq(S)
           /\ \A r \in Seq(S) : q \o r \in Seq(S) /\ r \o q \in Seq(S)
           /\ <<>> \in Seq(S)
OBVIOUS

LEMMA FillReportsTyped ==
    ASSUME NEW c \in Cloids, venue \in [Cloids -> VenueOrder], NEW n \in 0..venue[c].fills
    PROVE  FillReports(c, n) \in Seq(Mail)
<1>1. venue[c].fills \in 0..Lots
  BY DEF VenueOrder
<1>2. ASSUME NEW t \in 1..n PROVE FillReport(c, t) \in Mail
  BY <1>1, MessagesTyped, SagaEngineAssumption DEF Mail
<1> QED BY <1>1, <1>2, SagaEngineAssumption DEF FillReports

LEMMA StatesNamed ==
    /\ "PENDING" \in OrderStates /\ "SUBMITTED" \in OrderStates /\ "LIVE" \in OrderStates
    /\ "FILLED" \in OrderStates /\ "CANCELLED" \in OrderStates /\ "REJECTED" \in OrderStates
    /\ "FAILED" \in OrderStates /\ "DENIED" \in OrderStates
BY DEF OrderStates

LEMMA MailIsMessages == Seq(Mail) \subseteq Seq(Message)
BY DEF Mail

\* The mail in flight stays mail as the venue trades on.
LEMMA MailGrows ==
    ASSUME venue \in [Cloids -> VenueOrder], venue' \in [Cloids -> VenueOrder],
           \A c \in Cloids : venue[c].fills <= venue'[c].fills
    PROVE  Mail \subseteq Mail' /\ Seq(Mail) \subseteq Seq(Mail')
<1>1. ASSUME NEW m \in Mail PROVE m \in Mail'
  <2>1. m \in Message /\ m.c \in Cloids /\ m.t \in 0..Lots
    BY DEF Mail, Message
  <2>2. venue[m.c].fills \in Int /\ venue'[m.c].fills \in Int
    BY <2>1, SagaEngineAssumption DEF VenueOrder
  <2> QED BY <2>1, <2>2 DEF Mail
<1> QED BY <1>1

LEMMA PublishTyped ==
    ASSUME queue \in Seq(Mail), outbox \in Seq(Mail), drainer \in Cadences \cup {"feed"},
           NEW task \in Cadences \cup {"feed"}, NEW msgs \in Seq(Mail), PublishAll(task, msgs)
    PROVE  queue' \in Seq(Mail) /\ outbox' \in Seq(Mail) /\ drainer' \in Cadences \cup {"feed"}
<1>1. CASE Draining \/ msgs = <<>>
  BY <1>1, Queues DEF PublishAll
<1>2. CASE ~(Draining \/ msgs = <<>>)
  BY <1>2, Queues DEF PublishAll
<1> QED BY <1>1, <1>2

-------------------------------------------------------------------------------
\* Every step keeps the types, and only mail in the queues.

Typed == TypeOK /\ Traffic

\* The types hold at the start: nothing is stored, sent or queued.
LEMMA InitTyped == Init => Typed
<1> SUFFICES ASSUME Init PROVE Typed
  OBVIOUS
<1>1. NoSaga \in Saga(Lots)
  BY DEF Saga, NoSaga, OrderStates
<1>2. venue \in [Cloids -> VenueOrder]
  BY SagaEngineAssumption DEF Init, VenueOrder
<1>3. TypeOK
  BY <1>1, <1>2, SagaEngineAssumption DEF Init, TypeOK, Cadences, Replies
<1>4. Traffic
  BY DEF Init, Traffic
<1> QED BY <1>3, <1>4 DEF Typed

LEMMA EmitTyped ==
    ASSUME IInv, NEW c \in Cloids, EmitPlace(c) \/ EmitCancel(c)
    PROVE  Typed'
<1>1. PICK m \in {PlaceSignal(c), CancelSignal(c)} : Emit(m)
  BY DEF EmitPlace, EmitCancel
<1>2. m \in Mail /\ m \in Message
  BY MailTyped DEF Mail
<1>3. queue' \in Seq(Mail) /\ outbox' \in Seq(Mail) /\ drainer' \in Cadences \cup {"feed"}
  BY <1>1, <1>2, PublishTyped, Queues DEF Emit, IInv, TypeOK, Traffic
<1>4. UNCHANGED <<store, cache, venue, wire, handler, reply, phase, misses, armed, reads, proved,
                  sends, told, hasty, fault, delivered, crashes, dups>>
  BY <1>1 DEF Emit, reconciler, bounds
<1>5. asked' \subseteq Message
  BY <1>1, <1>2 DEF Emit, IInv, TypeOK
<1>6. TypeOK'
  BY <1>3, <1>4, <1>5, MailIsMessages DEF IInv, TypeOK
<1>7. Traffic'
  BY <1>3, <1>4 DEF IInv, Traffic, Mail
<1> QED BY <1>6, <1>7 DEF Typed

LEMMA RedeliverTyped ==
    ASSUME IInv, NEW m \in delivered, Redeliver(m)
    PROVE  Typed'
<1>1. m \in Mail
  BY DEF IInv, Traffic
<1>2. queue' \in Seq(Mail) /\ outbox' \in Seq(Mail) /\ drainer' \in Cadences \cup {"feed"}
  BY <1>1, PublishTyped, Queues DEF Redeliver, IInv, TypeOK, Traffic
<1>3. UNCHANGED <<store, cache, venue, wire, handler, reply, phase, misses, armed, reads, proved,
                  asked, sends, told, hasty, fault, delivered, crashes>> /\ dups' \in Nat
  BY DEF Redeliver, reconciler, history, IInv, TypeOK
<1>4. TypeOK'
  BY <1>2, <1>3, MailIsMessages DEF IInv, TypeOK
<1>5. Traffic'
  BY <1>2, <1>3 DEF IInv, Traffic, Mail
<1> QED BY <1>4, <1>5 DEF Typed

\* What is dispatched is mail, and so is what stays behind it.
LEMMA Dispatched ==
    ASSUME IInv, NEW kind, Dispatching(kind)
    PROVE  /\ phase # "down" /\ handler = Idle
           /\ Head(queue) \in Mail /\ Head(queue) \in Message /\ Head(queue).kind = kind
           /\ Tail(queue) \in Seq(Mail)
           /\ delivered' \subseteq Mail /\ delivered' \subseteq Message
           /\ Head(queue).c \in Cloids
<1>1. Head(queue) \in Mail /\ Tail(queue) \in Seq(Mail)
  BY Queues DEF Dispatching, IInv, Traffic
<1>2. delivered' \subseteq Mail
  BY <1>1 DEF Dispatching, IInv, Traffic
<1>3. Mail \subseteq Message /\ \A m \in Message : m.c \in Cloids
  BY DEF Mail, Message
<1> QED BY <1>1, <1>2, <1>3 DEF Dispatching

LEMMA HandleEventTyped ==
    ASSUME IInv, HandleEvent
    PROVE  Typed'
<1> DEFINE cancel == CancelSignal(Head(queue).c)
<1>1. /\ delivered' \subseteq Mail /\ delivered' \subseteq Message
      /\ Tail(queue) \in Seq(Mail) /\ cancel \in Mail /\ cancel \in Message
  BY Dispatched, MailTyped DEF HandleEvent, Mail
<1>2. queue' \in Seq(Mail) /\ asked' \subseteq Message
  <2>1. queue' = Tail(queue) \/ queue' = Append(Tail(queue), cancel)
    BY DEF HandleEvent
  <2>2. queue' \in Seq(Mail)
    BY <1>1, <2>1, Queues
  <2>3. asked' \subseteq Message
    BY <1>1 DEF HandleEvent, IInv, TypeOK
  <2> QED BY <2>2, <2>3
<1>3. UNCHANGED <<store, cache, venue, wire, handler, reply, outbox, drainer, phase,
                  misses, armed, reads, proved, sends, told, hasty, fault, crashes, dups>>
  BY DEF HandleEvent, reconciler, bounds
<1>4. TypeOK'
  BY <1>1, <1>2, <1>3, MailIsMessages DEF IInv, TypeOK
<1>5. Traffic'
  BY <1>1, <1>2, <1>3 DEF IInv, Traffic, Mail
<1> QED BY <1>4, <1>5 DEF Typed

LEMMA CommitTyped ==
    ASSUME IInv, NEW kind, Dispatching(kind),
           NEW c \in Cloids, NEW order \in Saga(Lots), NEW st \in OrderStates, NEW t \in 0..Lots,
           Commit(c, order, st, t)
    PROVE  /\ store' \in [Cloids -> Saga(Lots)]
           /\ cache' \in [Cloids -> Saga(Lots)]
           /\ queue' \in Seq(Mail)
           /\ told' \subseteq Message
<1>1. OrderEvent(c, st, t) \in Mail /\ OrderEvent(c, st, t) \in Message
  BY MailTyped DEF Mail
<1>2. Tail(queue) \in Seq(Mail)
  BY Dispatched
<1> QED BY <1>1, <1>2, Queues DEF Commit, Checkpointed, IInv, TypeOK

LEMMA HandlePlaceTyped ==
    ASSUME IInv, HandlePlace
    PROVE  Typed'
<1> DEFINE c == Head(queue).c
<1>1. /\ c \in Cloids /\ Tail(queue) \in Seq(Mail)
      /\ delivered' \subseteq Mail /\ delivered' \subseteq Message
  BY Dispatched DEF HandlePlace
<1>2. UNCHANGED <<venue, reply, outbox, drainer, phase, misses, armed, reads, proved,
                  asked, hasty, fault, crashes, dups>>
  BY DEF HandlePlace, reconciler, bounds
<1>3. Placed(c) \in Seq(Mail) /\ Placed(c) \in Seq(Message)
  <2>1. OrderEvent(c, "PENDING", 0) \in Mail /\ OrderEvent(c, "SUBMITTED", 0) \in Mail
    <3>1. 0 \in 0..Lots
      BY SagaEngineAssumption
    <3> QED BY <3>1, <1>1, MailTyped, StatesNamed, Zenon
  <2>2. Placed(c) \in Seq(Mail)
    BY <2>1 DEF Placed
  <2> QED BY <2>2, MailIsMessages
<1>4. /\ NewOrder \in Saga(Lots)
      /\ ApplyStatus(NewOrder, "DENIED", FALSE) \in Saga(Lots)
      /\ ApplyStatus(NewOrder, "SUBMITTED", FALSE) \in Saga(Lots)
  BY SagasTyped, <1>1 DEF OrderStates, IInv, TypeOK
<1>5. /\ queue' \in Seq(Mail)
      /\ store' \in [Cloids -> Saga(Lots)] /\ cache' \in [Cloids -> Saga(Lots)]
      /\ told' \subseteq Message
      /\ wire' \subseteq {"place", "cancel"} \X Cloids
      /\ handler' \in [at : {"place", "fills", "cancel"}, c : Cloids] \cup {Idle}
      /\ sends' \in [Cloids -> Nat]
  <2>1. CASE PlaceKnown(c)
    BY <2>1, <1>1 DEF PlaceKnown, IInv, TypeOK
  <2>2. CASE PlaceDenied(c)
    <3>1. Commit(c, ApplyStatus(NewOrder, "DENIED", FALSE), "DENIED", 0)
      BY <2>2 DEF PlaceDenied
    <3>2. /\ store' \in [Cloids -> Saga(Lots)] /\ cache' \in [Cloids -> Saga(Lots)]
          /\ queue' \in Seq(Mail) /\ told' \subseteq Message
      <4>1. 0 \in 0..Lots
        BY SagaEngineAssumption
      <4> QED BY <4>1, <3>1, <1>1, <1>4, CommitTyped, StatesNamed, Zenon DEF HandlePlace
    <3> QED BY <3>2, <2>2 DEF PlaceDenied, IInv, TypeOK
  <2>3. CASE PlaceSent(c)
    <3>1. queue' \in Seq(Mail)
      BY <2>3, <1>1, <1>3, Queues DEF PlaceSent
    <3>2. told' \subseteq Message
      BY <2>3, <1>1, MessagesTyped, StatesNamed, SagaEngineAssumption DEF PlaceSent, IInv, TypeOK
    <3>3. store' \in [Cloids -> Saga(Lots)] /\ cache' \in [Cloids -> Saga(Lots)]
      BY <2>3, <1>1, <1>4 DEF PlaceSent, WriteAhead, Checkpointed, IInv, TypeOK
    <3>4. wire' \subseteq {"place", "cancel"} \X Cloids /\ sends' \in [Cloids -> Nat]
      BY <2>3, <1>1 DEF PlaceSent, IInv, TypeOK
    <3>5. handler' \in [at : {"place", "fills", "cancel"}, c : Cloids] \cup {Idle}
      BY <2>3, <1>1 DEF PlaceSent
    <3> QED BY <3>1, <3>2, <3>3, <3>4, <3>5
  <2>4. CASE PlaceUnpriced(c)
    <3>1. <<Status(c, "FAILED", FALSE)>> \in Seq(Mail)
      <4>1. Status(c, "FAILED", FALSE) \in Mail
        BY <1>1, MailTyped, StatesNamed, Zenon
      <4> QED BY <4>1, <1>1, Queues, Zenon
    <3>2. queue' \in Seq(Mail)
      BY <2>4, <1>1, <1>3, <3>1, Queues DEF PlaceUnpriced
    <3>3. told' \subseteq Message
      BY <2>4, <1>1, MessagesTyped, StatesNamed, SagaEngineAssumption DEF PlaceUnpriced, IInv, TypeOK
    <3> QED BY <3>2, <3>3, <2>4, <1>1, <1>4 DEF PlaceUnpriced, Checkpointed, IInv, TypeOK
  <2> QED BY <2>1, <2>2, <2>3, <2>4 DEF HandlePlace
<1>6. TypeOK'
  BY <1>1, <1>2, <1>5, MailIsMessages DEF IInv, TypeOK
<1>7. Traffic'
  BY <1>1, <1>2, <1>5 DEF IInv, Traffic, Mail
<1> QED BY <1>6, <1>7 DEF Typed

LEMMA HandleCancelTyped ==
    ASSUME IInv, HandleCancel
    PROVE  Typed'
<1> DEFINE c == Head(queue).c
<1>1. /\ c \in Cloids /\ Tail(queue) \in Seq(Mail)
      /\ delivered' \subseteq Mail /\ delivered' \subseteq Message
  BY Dispatched DEF HandleCancel
<1>2. UNCHANGED <<venue, reply, outbox, drainer, phase, misses, armed, reads, proved,
                  asked, sends, told, hasty, fault, crashes, dups>> /\ queue' = Tail(queue)
  BY DEF HandleCancel, reconciler, history, bounds
<1>3. /\ store' \in [Cloids -> Saga(Lots)] /\ cache' \in [Cloids -> Saga(Lots)]
      /\ wire' \subseteq {"place", "cancel"} \X Cloids
      /\ handler' \in [at : {"place", "fills", "cancel"}, c : Cloids] \cup {Idle}
  <2>1. RequestCancel(cache[c]) \in Saga(Lots)
    BY <1>1, SagasTyped DEF IInv, TypeOK
  <2>2. CASE Known(c) /\ MayRequestCancel(cache[c])
    <3>1. store' = Checkpointed(c, RequestCancel(cache[c])) /\ cache' = [cache EXCEPT ![c] = RequestCancel(@)]
      BY <2>2 DEF HandleCancel
    <3>2. wire' = wire \cup {<<"cancel", c>>} /\ handler' = [at |-> "cancel", c |-> c]
      BY <2>2 DEF HandleCancel
    <3>3. store' \in [Cloids -> Saga(Lots)] /\ cache' \in [Cloids -> Saga(Lots)]
      BY <2>1, <3>1, <1>1 DEF Checkpointed, IInv, TypeOK
    <3>4. wire' \subseteq {"place", "cancel"} \X Cloids
      BY <3>2, <1>1 DEF IInv, TypeOK
    <3>5. handler' \in [at : {"place", "fills", "cancel"}, c : Cloids]
      BY <3>2, <1>1
    <3> QED BY <3>3, <3>4, <3>5
  <2>3. CASE ~(Known(c) /\ MayRequestCancel(cache[c]))
    BY <2>3, <1>1 DEF HandleCancel, IInv, TypeOK
  <2> QED BY <2>2, <2>3
<1>4. TypeOK'
  BY <1>1, <1>2, <1>3, MailIsMessages DEF IInv, TypeOK
<1>5. Traffic'
  BY <1>1, <1>2, <1>3 DEF IInv, Traffic, Mail
<1> QED BY <1>4, <1>5 DEF Typed

\* A stop empties the memory and the bus, and leaves the rest as it finds it.
LEMMA StopTyped ==
    ASSUME IInv, Stop, UNCHANGED <<store, venue, wire, asked, sends, told, hasty>>,
           delivered' \subseteq Mail,
           fault' \in (OrderStates \cup {"none"}) \X (OrderStates \cup {"none"}),
           crashes' \in Nat, dups' \in Nat
    PROVE  Typed'
<1>1. NoSaga \in Saga(Lots)
  BY DEF Saga, NoSaga, OrderStates
<1>2. /\ queue' = <<>> /\ outbox' = <<>>
      /\ <<>> \in Seq(Mail) /\ <<>> \in Seq(Message)
  BY DEF Stop
<1>3. delivered' \subseteq Message
  BY DEF Mail
<1>4. /\ cache' \in [Cloids -> Saga(Lots)] /\ handler' = Idle
      /\ reply' \in Replies /\ drainer' \in Cadences \cup {"feed"}
      /\ phase' \in {"down", "starting", "up"}
      /\ misses' \in [Cloids -> 0..(MissLimit - 1)]
      /\ armed' \in [Cloids -> BOOLEAN]
      /\ reads' \in [Cadences -> [c : Cloids, view : Views, racing : BOOLEAN] \cup {NoRead}]
      /\ proved' \subseteq Cloids
  BY <1>1, SagaEngineAssumption DEF Stop, Replies, Cadences
<1>5. TypeOK'
  BY <1>2, <1>3, <1>4 DEF IInv, TypeOK
<1>6. \A d \in Cadences : reads'[d] = NoRead
  BY DEF Stop
<1>7. Mail' = Mail
  BY DEF Mail
<1>8. Traffic'
  BY <1>2, <1>6, <1>7 DEF Traffic
<1> QED BY <1>5, <1>8 DEF Typed

LEMMA FaultTyped ==
    ASSUME IInv, NEW kind, Dispatching(kind),
           NEW order \in Saga(Lots), NEW target \in OrderStates, Fault(order, target)
    PROVE  Typed'
<1>1. delivered' \subseteq Mail
  BY Dispatched
<1>2. order.st \in OrderStates \cup {"none"}
  BY DEF Saga
<1> QED BY <1>1, <1>2, StopTyped DEF Fault, bounds, IInv, TypeOK

LEMMA HandleStatusTyped ==
    ASSUME IInv, HandleStatus
    PROVE  Typed'
<1> DEFINE m == Head(queue)
           order == cache[m.c]
           ignored == ~IsOpen(order) \/ m.st \notin StatusMoves \/ SeenStatus(order, m.st)
<1>1. /\ m.c \in Cloids /\ Tail(queue) \in Seq(Mail)
      /\ delivered' \subseteq Mail /\ delivered' \subseteq Message
  BY Dispatched DEF HandleStatus
<1>2. m.oid \in BOOLEAN /\ order \in Saga(Lots)
  BY Dispatched, <1>1 DEF HandleStatus, Message, IInv, TypeOK
<1>3. CASE ignored /\ queue' = Tail(queue)
           /\ UNCHANGED <<store, cache, venue, wire, handler, reply, outbox,
                          drainer, phase, reconciler, history, bounds>>
  <2>1. TypeOK'
    BY <1>1, <1>3, MailIsMessages DEF reconciler, history, bounds, IInv, TypeOK
  <2>2. Traffic'
    BY <1>1, <1>3 DEF reconciler, IInv, Traffic, Mail
  <2> QED BY <2>1, <2>2 DEF Typed
<1>4. CASE ~ignored /\ MayEnter(order, m.st)
           /\ Commit(m.c, ApplyStatus(order, m.st, m.oid), m.st, 0)
           /\ UNCHANGED <<venue, wire, handler, reply, outbox, drainer, phase,
                          reconciler, asked, sends, hasty, fault, bounds>>
  <2>1. m.st \in OrderStates
    BY <1>4 DEF StatusMoves, OrderStates
  <2>2. ApplyStatus(order, m.st, m.oid) \in Saga(Lots) /\ 0 \in 0..Lots
    <3>1. ApplyStatus(order, m.st, m.oid) \in Saga(Lots)
      BY <1>2, <2>1, SagasTyped, Zenon
    <3> QED BY <3>1, SagaEngineAssumption
  <2>3. /\ store' \in [Cloids -> Saga(Lots)] /\ cache' \in [Cloids -> Saga(Lots)]
        /\ queue' \in Seq(Mail) /\ told' \subseteq Message
    BY <1>1, <1>4, <2>1, <2>2, CommitTyped, Zenon DEF HandleStatus
  <2>4. TypeOK'
    BY <1>1, <1>4, <2>3, MailIsMessages DEF reconciler, bounds, IInv, TypeOK
  <2>5. Traffic'
    BY <1>1, <1>4, <2>3 DEF reconciler, IInv, Traffic, Mail
  <2> QED BY <2>4, <2>5 DEF Typed
<1>5. CASE ~ignored /\ Fault(order, m.st)
  <2>1. m.st \in OrderStates
    BY <1>5 DEF StatusMoves, OrderStates
  <2> QED BY <2>1, <1>2, <1>5, FaultTyped, Zenon DEF HandleStatus
<1> QED BY <1>3, <1>4, <1>5, Zenon DEF HandleStatus

LEMMA HandleFillTyped ==
    ASSUME IInv, HandleFill
    PROVE  Typed'
<1> DEFINE m == Head(queue)
           order == cache[m.c]
           target == FillTarget(order, Lots)
           ignored == ~Known(m.c) \/ SeenFill(order, m.t)
<1>1. /\ m.c \in Cloids /\ Tail(queue) \in Seq(Mail)
      /\ delivered' \subseteq Mail /\ delivered' \subseteq Message
  BY Dispatched DEF HandleFill
<1>2. order \in Saga(Lots) /\ m.t \in 1..Lots
  <2>1. m \in Mail /\ m.kind = "fill"
    BY Dispatched DEF HandleFill
  <2>2. m.t \in 1..venue[m.c].fills /\ venue[m.c].fills \in 0..Lots
    BY <1>1, <2>1 DEF Mail, VenueOrder, IInv, TypeOK
  <2> QED BY <1>1, <2>2, SagaEngineAssumption DEF IInv, TypeOK
<1>3. target \in OrderStates /\ ApplyFill(order, m.t, Lots) \in Saga(Lots) /\ m.t \in 0..Lots
  <2>1. target \in OrderStates /\ ApplyFill(order, m.t, Lots) \in Saga(Lots)
    <3> HIDE DEF order
    <3> QED BY <1>2, SagasTyped, Zenon
  <2>2. m.t \in 0..Lots
    <3> HIDE DEF m
    <3> QED BY <1>2, SagaEngineAssumption
  <2> QED BY <2>1, <2>2
<1>4. CASE ignored /\ queue' = Tail(queue)
           /\ UNCHANGED <<store, cache, venue, wire, handler, reply, outbox,
                          drainer, phase, reconciler, history, bounds>>
  <2>1. TypeOK'
    BY <1>1, <1>4, MailIsMessages DEF reconciler, history, bounds, IInv, TypeOK
  <2>2. Traffic'
    BY <1>1, <1>4 DEF reconciler, IInv, Traffic, Mail
  <2> QED BY <2>1, <2>2 DEF Typed
<1>5. CASE ~ignored /\ MayEnter(order, target)
           /\ Commit(m.c, ApplyFill(order, m.t, Lots), target, m.t)
           /\ UNCHANGED <<venue, wire, handler, reply, outbox, drainer, phase,
                          reconciler, asked, sends, hasty, fault, bounds>>
  <2>1. /\ store' \in [Cloids -> Saga(Lots)] /\ cache' \in [Cloids -> Saga(Lots)]
        /\ queue' \in Seq(Mail) /\ told' \subseteq Message
    BY <1>1, <1>3, <1>5, CommitTyped, Zenon DEF HandleFill
  <2>2. TypeOK'
    BY <1>1, <1>5, <2>1, MailIsMessages DEF reconciler, bounds, IInv, TypeOK
  <2>3. Traffic'
    BY <1>1, <1>5, <2>1 DEF reconciler, IInv, Traffic, Mail
  <2> QED BY <2>2, <2>3 DEF Typed
<1>6. CASE ~ignored /\ Fault(order, target)
  BY <1>2, <1>3, <1>6, FaultTyped, Zenon DEF HandleFill
<1> QED BY <1>4, <1>5, <1>6, Zenon DEF HandleFill

LEMMA ResumeTyped ==
    ASSUME IInv, NEW c \in Cloids, NEW msgs \in Seq(Mail),
           NEW next \in {Idle, [at |-> "fills", c |-> c]}, Resume(c, msgs, next)
    PROVE  Typed'
<1>1. queue' \in Seq(Mail)
  BY Queues DEF Resume, IInv, Traffic
<1>2. UNCHANGED <<cache, venue, wire, outbox, drainer, phase, misses, armed, reads, proved,
                  asked, sends, told, hasty, fault, delivered, crashes, dups>>
  BY DEF Resume, reconciler, history, bounds
<1>3. store' \in [Cloids -> Saga(Lots)]
  BY DEF Resume, AfterSend, Checkpointed, IInv, TypeOK
<1>4. /\ handler' \in [at : {"place", "fills", "cancel"}, c : Cloids] \cup {Idle}
      /\ reply' \in Replies
  BY DEF Resume, Replies
<1>5. TypeOK'
  BY <1>1, <1>2, <1>3, <1>4, MailIsMessages DEF IInv, TypeOK
<1>6. Traffic'
  BY <1>1, <1>2 DEF IInv, Traffic, Mail
<1> QED BY <1>5, <1>6 DEF Typed

LEMMA AdapterTyped ==
    ASSUME IInv, NEW c \in Cloids,
           PlaceAnswered(c) \/ PlaceFillsRead(c) \/ CancelAnswered(c) \/ Unanswered(c)
    PROVE  Typed'
<1>1. <<>> \in Seq(Mail)
  OBVIOUS
<1>2. \A st \in {"LIVE", "REJECTED", "CANCELLED"} :
         <<Status(c, st, TRUE)>> \in Seq(Mail) /\ <<Status(c, st, FALSE)>> \in Seq(Mail)
  BY <1>1, MailTyped, StatesNamed, Queues, Zenon
<1>3. ASSUME PlaceAnswered(c) PROVE Typed'
  <2>1. \E next \in {Idle, [at |-> "fills", c |-> c]} :
           \/ Resume(c, <<Status(c, "LIVE", TRUE)>>, next)
           \/ Resume(c, <<Status(c, "REJECTED", FALSE)>>, next)
           \/ Resume(c, <<>>, next)
    BY <1>3, Zenon DEF PlaceAnswered
  <2> QED BY <2>1, <1>1, <1>2, ResumeTyped, Zenon
<1>4. ASSUME PlaceFillsRead(c) PROVE Typed'
  <2>1. PICK n \in 0..venue[c].fills : Resume(c, FillReports(c, n), Idle)
    BY <1>4 DEF PlaceFillsRead
  <2>2. FillReports(c, n) \in Seq(Mail)
    BY FillReportsTyped DEF IInv, TypeOK
  <2> QED BY <2>1, <2>2, ResumeTyped
<1>5. ASSUME CancelAnswered(c) PROVE Typed'
  BY <1>5, <1>1, <1>2, ResumeTyped, Zenon DEF CancelAnswered
<1>6. ASSUME Unanswered(c) PROVE Typed'
  BY <1>6, <1>1, ResumeTyped, Zenon DEF Unanswered
<1> QED BY <1>3, <1>4, <1>5, <1>6

LEMMA VenueMoves ==
    ASSUME venue \in [Cloids -> VenueOrder], VenueSound, wire' \subseteq wire,
           NEW c \in Cloids, NEW order \in VenueOrder, venue' = [venue EXCEPT ![c] = order],
           order.st # "absent", order.st = "open" => order.fills < Lots,
           venue[c].fills <= order.fills, <<"place", c>> \notin wire'
    PROVE  /\ venue' \in [Cloids -> VenueOrder]
           /\ \A d \in Cloids : venue[d].fills <= venue'[d].fills
           /\ VenueSound'
<1>1. venue' \in [Cloids -> VenueOrder]
  OBVIOUS
<1>2. ASSUME NEW d \in Cloids PROVE venue[d].fills <= venue'[d].fills
  BY SagaEngineAssumption DEF VenueOrder
<1>3. VenueSound'
  BY DEF VenueSound
<1> QED BY <1>1, <1>2, <1>3

\* Nothing trades away, and nothing lands twice.
LEMMA VenueGrows ==
    ASSUME IInv, NEW c \in Cloids,
           \/ VenueTakesPlace(c) \/ VenueTakesCancel(c)
           \/ \E op \in {"place", "cancel"} : WireLoses(op, c)
           \/ VenueFills(c) \/ VenueCancels(c) \/ VenueForgets(c)
    PROVE  /\ venue' \in [Cloids -> VenueOrder]
           /\ \A d \in Cloids : venue[d].fills <= venue'[d].fills
           /\ wire' \subseteq wire
           /\ VenueSound'
<1> USE SagaEngineAssumption
<1>1. venue \in [Cloids -> VenueOrder] /\ VenueSound /\ venue[c] \in VenueOrder
  BY DEF IInv, TypeOK
<1>2. CASE VenueTakesPlace(c)
  <2>1. <<"place", c>> \in wire /\ wire' = wire \ {<<"place", c>>}
    BY <1>2 DEF VenueTakesPlace
  <2>2. venue[c].fills = 0
    BY <1>1, <2>1 DEF VenueSound
  <2>3. CASE UNCHANGED venue
    BY <1>1, <2>1, <2>3 DEF VenueSound, VenueOrder
  <2>4. ASSUME NEW order \in [st : {"open"}, fills : 0..(Lots - 1), rec : {TRUE}]
                          \cup {[st |-> "filled", fills |-> Lots, rec |-> TRUE],
                                [st |-> "rejected", fills |-> 0, rec |-> TRUE]},
               venue' = [venue EXCEPT ![c] = order]
        PROVE  /\ venue' \in [Cloids -> VenueOrder]
               /\ \A d \in Cloids : venue[d].fills <= venue'[d].fills
               /\ VenueSound'
    <3>1. /\ order \in VenueOrder /\ order.st # "absent"
          /\ order.st = "open" => order.fills < Lots
          /\ venue[c].fills <= order.fills
      <4>1. CASE order \in [st : {"open"}, fills : 0..(Lots - 1), rec : {TRUE}]
        <5>1. order.st = "open" /\ order.fills \in 0..(Lots - 1)
          BY <4>1
        <5>2. order \in VenueOrder
          <6>1. 0..(Lots - 1) \subseteq 0..Lots
            OBVIOUS
          <6>2. "open" \in {"absent", "open", "filled", "cancelled", "rejected"} /\ TRUE \in BOOLEAN
            OBVIOUS
          <6> QED BY <4>1, <6>1, <6>2 DEF VenueOrder
        <5> QED BY <5>1, <5>2, <2>2
      <4>2. CASE order = [st |-> "filled", fills |-> Lots, rec |-> TRUE]
        BY <4>2, <2>2 DEF VenueOrder
      <4>3. CASE order = [st |-> "rejected", fills |-> 0, rec |-> TRUE]
        BY <4>3, <2>2 DEF VenueOrder
      <4> QED BY <4>1, <4>2, <4>3, <2>4
    <3> QED BY <3>1, <1>1, <2>1, <2>4, VenueMoves
  <2> QED BY <1>2, <2>3, <2>4 DEF VenueTakesPlace
<1>3. CASE VenueTakesCancel(c)
  BY <1>1, <1>3 DEF VenueTakesCancel, VenueSound, VenueOrder
<1>4. CASE \E op \in {"place", "cancel"} : WireLoses(op, c)
  BY <1>1, <1>4 DEF WireLoses, VenueSound, VenueOrder
<1>5. CASE VenueFills(c)
  <2> DEFINE order == [venue[c] EXCEPT !.fills = @ + 1,
                                       !.st = IF venue[c].fills + 1 = Lots THEN "filled" ELSE "open"]
  <2>1. venue' = [venue EXCEPT ![c] = order] /\ wire' = wire /\ venue[c].st = "open"
    BY <1>5, <1>1 DEF VenueFills
  <2>2. venue[c].fills \in 0..Lots /\ venue[c].fills < Lots /\ <<"place", c>> \notin wire
    BY <2>1, <1>1 DEF VenueSound, VenueOrder
  <2>3. order \in VenueOrder
    <3>1. /\ venue[c].fills + 1 \in 0..Lots
          /\ (IF venue[c].fills + 1 = Lots THEN "filled" ELSE "open")
                \in {"absent", "open", "filled", "cancelled", "rejected"}
      BY <2>2
    <3> QED BY <3>1, <1>1, Zenon DEF VenueOrder
  <2>4. /\ order.st = (IF venue[c].fills + 1 = Lots THEN "filled" ELSE "open")
        /\ order.fills = venue[c].fills + 1
    BY <1>1 DEF VenueOrder
  <2>5. /\ order.st # "absent"
        /\ order.st = "open" => order.fills < Lots
        /\ venue[c].fills <= order.fills
    BY <2>2, <2>4
  <2> HIDE DEF order
  <2> QED BY <2>1, <2>2, <2>3, <2>5, <1>1, VenueMoves
<1>6. CASE VenueCancels(c)
  BY <1>1, <1>6 DEF VenueCancels, VenueSound, VenueOrder
<1>7. CASE VenueForgets(c)
  <2> DEFINE order == [venue[c] EXCEPT !.rec = FALSE]
  <2>1. /\ venue' = [venue EXCEPT ![c] = order] /\ wire' = wire
        /\ venue[c].st \in {"filled", "cancelled", "rejected"}
    BY <1>7, <1>1 DEF VenueForgets
  <2>2. <<"place", c>> \notin wire
    BY <2>1, <1>1 DEF VenueSound
  <2>3. order \in VenueOrder
    BY <1>1, Zenon DEF VenueOrder
  <2>4. order.st = venue[c].st /\ order.fills = venue[c].fills
    BY <1>1 DEF VenueOrder
  <2>5. /\ order.st # "absent" /\ order.st # "open"
        /\ venue[c].fills <= order.fills
    BY <2>1, <2>4, <1>1 DEF VenueOrder
  <2> HIDE DEF order
  <2> QED BY <2>1, <2>2, <2>3, <2>5, <1>1, VenueMoves
<1> QED BY <1>2, <1>3, <1>4, <1>5, <1>6, <1>7

LEMMA VenueTyped ==
    ASSUME IInv, NEW c \in Cloids,
           \/ VenueTakesPlace(c) \/ VenueTakesCancel(c)
           \/ \E op \in {"place", "cancel"} : WireLoses(op, c)
           \/ VenueFills(c) \/ VenueCancels(c) \/ VenueForgets(c)
    PROVE  Typed'
<1>1. /\ venue' \in [Cloids -> VenueOrder] /\ wire' \subseteq wire
      /\ \A d \in Cloids : venue[d].fills <= venue'[d].fills
  BY VenueGrows
<1>2. VenueUnchanged
  BY DEF VenueTakesPlace, VenueTakesCancel, WireLoses, VenueFills, VenueCancels, VenueForgets
<1>3. reply' \in Replies
  <2>1. reply \in Replies
    BY DEF IInv, TypeOK
  <2>2. \A op, answer : answer \in Replies /\ Answer(op, c, answer) => reply' \in Replies
    BY <2>1 DEF Answer
  <2>3. \/ \E op : \E answer \in {"resting", "filled", "rejected", "refused", "cancelled", "gone"} :
               Answer(op, c, answer)
        \/ UNCHANGED reply
    BY DEF VenueTakesPlace, VenueTakesCancel, WireLoses, VenueFills, VenueCancels, VenueForgets
  <2> QED BY <2>1, <2>2, <2>3 DEF Replies
<1>4. Mail \subseteq Mail' /\ Seq(Mail) \subseteq Seq(Mail')
  BY <1>1, MailGrows DEF IInv, TypeOK
<1>5. TypeOK'
  BY <1>1, <1>2, <1>3, MailIsMessages
     DEF VenueUnchanged, bus, reconciler, history, bounds, IInv, TypeOK
<1>6. Traffic'
  <2>1. queue' \in Seq(Mail') /\ outbox' \in Seq(Mail') /\ delivered' \subseteq Mail'
    BY <1>2, <1>4 DEF VenueUnchanged, bus, IInv, Traffic
  <2>2. ASSUME NEW d \in Cadences, reads'[d] # NoRead
        PROVE  reads'[d].view.fills <= venue'[reads'[d].c].fills
    <3>1. reads' = reads
      BY <1>2 DEF VenueUnchanged, reconciler
    <3>2. reads[d] \in [c : Cloids, view : Views, racing : BOOLEAN]
      BY <2>2, <3>1 DEF IInv, TypeOK
    <3>3. reads[d].view.fills <= venue[reads[d].c].fills
      BY <2>2, <3>1 DEF IInv, Traffic
    <3>4. /\ reads[d].view.fills \in Int
          /\ venue[reads[d].c].fills \in Int /\ venue'[reads[d].c].fills \in Int
      BY <3>2, <1>1, SagaEngineAssumption DEF Views, VenueOrder, IInv, TypeOK
    <3> QED BY <3>1, <3>2, <3>3, <3>4, <1>1
  <2> QED BY <2>1, <2>2 DEF Traffic
<1> QED BY <1>5, <1>6 DEF Typed

LEMMA ViewsTyped ==
    ASSUME NEW v \in VenueOrder, v.rec => v.st # "absent", NEW oid \in BOOLEAN
    PROVE  ViewOf(v, oid) \in Views /\ ViewOf(v, oid).fills <= v.fills
<1>1. v.fills \in 0..Lots /\ 0 \in 0..Lots /\ 0 <= v.fills /\ v.fills <= v.fills
  BY SagaEngineAssumption DEF VenueOrder
<1>2. CASE v.rec
  <2> DEFINE st == CASE v.st = "open"      -> "LIVE"
                     [] v.st = "filled"    -> "FILLED"
                     [] v.st = "cancelled" -> "CANCELLED"
                     [] v.st = "rejected"  -> "REJECTED"
  <2>1. st \in {"none", "LIVE", "FILLED", "CANCELLED", "REJECTED"}
    BY <1>2 DEF VenueOrder
  <2>2. ViewOf(v, oid) = [st |-> st, history |-> TRUE, fills |-> v.fills]
    BY <1>2, Zenon DEF ViewOf, Record
  <2> HIDE DEF st
  <2> QED BY <1>1, <2>1, <2>2 DEF Views
<1>3. CASE ~v.rec
  <2>1. NoView \in Views /\ NoView.fills <= v.fills
    BY <1>1 DEF NoView, Views
  <2>2. [NoView EXCEPT !.history = TRUE, !.fills = v.fills] \in Views
    BY <1>1, <2>1, Zenon DEF Views
  <2>3. [NoView EXCEPT !.history = TRUE, !.fills = v.fills].fills = v.fills
    BY DEF NoView
  <2> QED BY <1>1, <1>3, <2>1, <2>2, <2>3 DEF ViewOf
<1> QED BY <1>2, <1>3

LEMMA ReadStartTyped ==
    ASSUME IInv, NEW d \in Cadences, NEW c \in Cloids, ReadStart(d, c)
    PROVE  Typed'
<1> DEFINE view == ViewOf(venue[c], cache[c].oid)
<1>1. venue[c] \in VenueOrder /\ cache[c].oid \in BOOLEAN /\ (venue[c].rec => venue[c].st # "absent")
  BY DEF IInv, TypeOK, VenueSound, Saga
<1>2. view \in Views /\ view.fills <= venue[c].fills
  BY <1>1, ViewsTyped
<1> HIDE DEF view
<1>3. /\ reads' = [reads EXCEPT ![d] = [c |-> c, view |-> view, racing |-> Racing(c)]]
      /\ Racing(c) \in BOOLEAN
  BY DEF ReadStart, view, Racing
<1>4. UNCHANGED <<store, cache, venue, wire, handler, reply, queue, outbox, drainer, phase,
                  misses, armed, proved, asked, sends, told, hasty, fault, delivered, crashes, dups>>
  BY DEF ReadStart, bus, history, bounds
<1>5. TypeOK'
  BY <1>2, <1>3, <1>4 DEF IInv, TypeOK
<1>6. Traffic'
  BY <1>2, <1>3, <1>4 DEF IInv, TypeOK, Traffic, Mail
<1> QED BY <1>5, <1>6 DEF Typed

LEMMA ReadFailedTyped ==
    ASSUME IInv, NEW d \in Cadences, ReadFailed(d)
    PROVE  Typed'
<1>1. reads' = [reads EXCEPT ![d] = NoRead] /\ proved' \subseteq Cloids
  BY DEF ReadFailed, ProvedAfterFailure, IInv, TypeOK
<1>2. UNCHANGED <<store, cache, venue, wire, handler, reply, queue, outbox, drainer, phase,
                  misses, armed, asked, sends, told, hasty, fault, delivered, crashes, dups>>
  BY DEF ReadFailed, bus, history, bounds
<1>3. TypeOK'
  BY <1>1, <1>2 DEF IInv, TypeOK
<1>4. Traffic'
  BY <1>1, <1>2 DEF IInv, TypeOK, Traffic, Mail
<1> QED BY <1>3, <1>4 DEF Typed

LEMMA VerdictsTyped ==
    ASSUME NEW c \in Cloids
    PROVE  Verdicts(c) \subseteq Seq(Mail)
<1>1. Status(c, "CANCELLED", FALSE) \in Mail /\ Status(c, "REJECTED", FALSE) \in Mail
  BY MailTyped, StatesNamed, Zenon
<1>2. <<>> \in Seq(Mail)
  OBVIOUS
<1> QED BY <1>1, <1>2, Queues, Zenon DEF Verdicts

LEMMA JudgedTyped ==
    ASSUME TypeOK, NEW c \in Cloids, NEW msgs, GhostJudged(c, msgs)
    PROVE  armed' \in [Cloids -> BOOLEAN]
BY DEF TypeOK, GhostJudged

LEMMA PublishNextTyped ==
    ASSUME IInv, PublishNext
    PROVE  Typed'
<1> DEFINE m == Head(outbox)
<1>1. m \in Mail /\ m.c \in Cloids /\ Tail(outbox) \in Seq(Mail) /\ outbox' = Tail(outbox)
  BY Queues DEF PublishNext, IInv, Traffic, Mail, Message
<1>2. UNCHANGED <<store, cache, venue, wire, handler, reply, drainer, phase,
                  misses, reads, proved, asked, sends, told, hasty, fault, delivered, crashes, dups>>
  BY DEF PublishNext, history, bounds
<1>3. queue' \in Seq(Mail) /\ armed' \in [Cloids -> BOOLEAN]
  <2>1. CASE m.kind = "judge"
    <3>1. PICK msgs \in Verdicts(m.c) : GhostJudged(m.c, msgs) /\ queue' = msgs
      BY <2>1 DEF PublishNext
    <3> QED BY <3>1, <1>1, VerdictsTyped, JudgedTyped DEF IInv
  <2>2. CASE m.kind # "judge"
    <3>1. queue' = <<m>> /\ armed' = armed
      BY <2>2 DEF PublishNext
    <3> QED BY <3>1, <1>1, Queues DEF IInv, TypeOK
  <2> QED BY <2>1, <2>2
<1>4. TypeOK'
  BY <1>1, <1>2, <1>3, MailIsMessages DEF IInv, TypeOK
<1>5. Traffic'
  BY <1>1, <1>2, <1>3 DEF IInv, Traffic, Mail
<1> QED BY <1>4, <1>5 DEF Typed

LEMMA AdoptTyped ==
    ASSUME IInv, NEW d \in Cadences, NEW c \in Cloids, NEW view \in Views,
           view.fills <= venue[c].fills, Adopt(d, c, view)
    PROVE  /\ queue' \in Seq(Mail) /\ outbox' \in Seq(Mail) /\ drainer' \in Cadences \cup {"feed"}
           /\ armed' \in [Cloids -> BOOLEAN]
<1> DEFINE status == IF view.st = "LIVE" /\ view.fills # 0
                     THEN <<>> ELSE <<Status(c, view.st, TRUE)>>
<1>1. PICK msgs : PublishAll(d, msgs) /\ msgs \in Seq(Mail)
  <2>1. Healing(c, view) \in Seq(Mail)
    <3>1. FillReports(c, view.fills) \in Seq(Mail)
      BY FillReportsTyped, SagaEngineAssumption DEF Views, VenueOrder, IInv, TypeOK
    <3>2. <<Status(c, "SUBMITTED", FALSE)>> \in Seq(Mail) /\ <<>> \in Seq(Mail)
      BY <3>1, MailTyped, StatesNamed, Queues, Zenon
    <3> QED BY <3>1, <3>2, Queues DEF Healing
  <2>2. CASE NeverLanded(c, view)
    <3>1. <<Status(c, "FAILED", FALSE)>> \in Seq(Mail)
      BY <2>1, MailTyped, StatesNamed, Queues, Zenon
    <3> QED BY <2>2, <3>1, Zenon DEF Adopt
  <2>3. CASE ~NeverLanded(c, view) /\ view.st # "none"
    <3>1. view.st \in OrderStates
      BY <2>3, StatesNamed DEF Views
    <3>2. <<Status(c, view.st, TRUE)>> \in Seq(Mail)
      BY <3>1, <2>1, MailTyped, Queues, Zenon
    <3>3. Healing(c, view) \o status \in Seq(Mail)
      BY <2>1, <3>2, Queues
    <3>4. PublishAll(d, Healing(c, view) \o status)
      BY <2>3 DEF Adopt
    <3> QED BY <3>3, <3>4
  <2>4. CASE ~NeverLanded(c, view) /\ view.st = "none" /\ (Draining \/ Healing(c, view) = <<>>)
    <3>1. PICK msgs \in Verdicts(c) : PublishAll(d, Healing(c, view) \o msgs)
      BY <2>4 DEF Adopt
    <3> QED BY <3>1, <2>1, VerdictsTyped, Queues
  <2>5. CASE ~NeverLanded(c, view) /\ view.st = "none" /\ ~(Draining \/ Healing(c, view) = <<>>)
    <3>1. PublishAll(d, Append(Healing(c, view), JudgeGhost(c)))
      BY <2>5 DEF Adopt
    <3> QED BY <3>1, <2>1, MailTyped, Queues
  <2> QED BY <2>2, <2>3, <2>4, <2>5
<1>2. armed' \in [Cloids -> BOOLEAN]
  BY JudgedTyped DEF Adopt, IInv, TypeOK
<1> QED BY <1>1, <1>2, PublishTyped DEF IInv, TypeOK, Traffic

LEMMA AnsweredTyped ==
    ASSUME IInv, NEW d \in Cadences, reads[d] # NoRead, NEW view \in Answered(d)
    PROVE  view \in Views /\ view.fills <= venue[reads[d].c].fills
<1>1. /\ reads[d].c \in Cloids /\ reads[d].view \in Views
      /\ reads[d].view.fills <= venue[reads[d].c].fills
      /\ venue[reads[d].c].fills \in 0..Lots
  BY DEF IInv, TypeOK, Traffic, VenueOrder
<1>2. reads[d].view.fills \in 0..Lots
  BY <1>1 DEF Views
<1>3. CASE reads[d].view.history
  <2>1. PICK n \in reads[d].view.fills..venue[reads[d].c].fills :
           view = [reads[d].view EXCEPT !.fills = n]
    BY <1>3 DEF Answered
  <2>2. n \in 0..Lots /\ n <= venue[reads[d].c].fills
    BY <1>1, <1>2, <2>1, SagaEngineAssumption
  <2>3. view \in Views
    BY <1>1, <2>1, <2>2, Zenon DEF Views
  <2>4. view.fills = n
    BY <1>1, <2>1 DEF Views
  <2> QED BY <2>2, <2>3, <2>4
<1>4. CASE ~reads[d].view.history
  BY <1>1, <1>4 DEF Answered
<1> QED BY <1>3, <1>4

LEMMA ReadAnsweredTyped ==
    ASSUME IInv, NEW d \in Cadences, ReadAnswered(d)
    PROVE  Typed'
<1> DEFINE c == reads[d].c
<1>1. c \in Cloids /\ reads[d] # NoRead
  BY DEF ReadAnswered, IInv, TypeOK
<1>2. /\ UNCHANGED <<store, cache, venue, wire, handler, reply, phase,
                     asked, sends, told, fault, delivered, crashes, dups>>
      /\ hasty' \subseteq Cloids
  <2>1. hasty' = hasty \/ hasty' = hasty \cup {c}
    BY DEF ReadAnswered, Adopt, Hastened
  <2> QED BY <1>1, <2>1 DEF ReadAnswered, bounds, IInv, TypeOK
<1>3. reads' = [reads EXCEPT ![d] = NoRead]
  BY DEF ReadAnswered
<1>4. /\ queue' \in Seq(Mail) /\ outbox' \in Seq(Mail) /\ drainer' \in Cadences \cup {"feed"}
      /\ misses' \in [Cloids -> 0..(MissLimit - 1)]
      /\ armed' \in [Cloids -> BOOLEAN]
      /\ proved' \subseteq Cloids
  <2>1. PICK view \in Answered(d) :
          /\ \/ /\ ~BudgetSpent(misses[c] + 1)
                /\ misses' = [misses EXCEPT ![c] = @ + 1]
                /\ UNCHANGED <<bus, armed>>
             \/ /\ misses' = [misses EXCEPT ![c] = 0]
                /\ PublishAll(d, <<Status(c, "FAILED", FALSE)>>)
                /\ UNCHANGED armed
             \/ /\ misses' = IF d = "inflight" THEN [misses EXCEPT ![c] = 0] ELSE misses
                /\ Adopt(d, c, view)
          /\ proved' = IF d = "startup" THEN proved \cup {c} ELSE proved
    BY DEF ReadAnswered
  <2>2. proved' \subseteq Cloids
    BY <1>1, <2>1 DEF IInv, TypeOK
  <2>3. [misses EXCEPT ![c] = 0] \in [Cloids -> 0..(MissLimit - 1)]
    BY <1>1, SagaEngineAssumption DEF IInv, TypeOK
  <2>4. CASE ~BudgetSpent(misses[c] + 1) /\ misses' = [misses EXCEPT ![c] = @ + 1]
             /\ UNCHANGED <<bus, armed>>
    <3>1. misses[c] + 1 \in 0..(MissLimit - 1)
      BY <1>1, <2>4, SagaEngineAssumption DEF BudgetSpent, IInv, TypeOK
    <3> QED BY <1>1, <2>2, <2>4, <3>1 DEF bus, IInv, TypeOK, Traffic
  <2>5. CASE misses' = [misses EXCEPT ![c] = 0] /\ UNCHANGED armed
             /\ PublishAll(d, <<Status(c, "FAILED", FALSE)>>)
    <3>1. <<Status(c, "FAILED", FALSE)>> \in Seq(Mail)
      <4>1. queue \in Seq(Mail)
        BY DEF IInv, Traffic
      <4> QED BY <4>1, <1>1, MailTyped, StatesNamed, Queues, Zenon
    <3>2. queue' \in Seq(Mail) /\ outbox' \in Seq(Mail) /\ drainer' \in Cadences \cup {"feed"}
      <4>1. /\ queue \in Seq(Mail) /\ outbox \in Seq(Mail) /\ drainer \in Cadences \cup {"feed"}
            /\ d \in Cadences \cup {"feed"}
        BY DEF IInv, TypeOK, Traffic
      <4> QED BY <4>1, <3>1, <2>5, PublishTyped, Zenon
    <3> QED BY <2>2, <2>3, <2>5, <3>2 DEF IInv, TypeOK
  <2>6. CASE misses' = (IF d = "inflight" THEN [misses EXCEPT ![c] = 0] ELSE misses)
             /\ Adopt(d, c, view)
    <3>1. view \in Views /\ view.fills <= venue[c].fills
      BY <1>1, AnsweredTyped
    <3>2. /\ queue' \in Seq(Mail) /\ outbox' \in Seq(Mail) /\ drainer' \in Cadences \cup {"feed"}
          /\ armed' \in [Cloids -> BOOLEAN]
      BY <1>1, <2>6, <3>1, AdoptTyped
    <3> QED BY <2>2, <2>3, <2>6, <3>2 DEF IInv, TypeOK
  <2> QED BY <2>1, <2>4, <2>5, <2>6, Zenon
<1>5. TypeOK'
  BY <1>2, <1>3, <1>4, MailIsMessages DEF IInv, TypeOK
<1>6. Traffic'
  BY <1>2, <1>3, <1>4 DEF IInv, TypeOK, Traffic, Mail
<1> QED BY <1>5, <1>6 DEF Typed

LEMMA ProcessTyped ==
    ASSUME IInv, BarrierClears \/ Crash \/ Restart
    PROVE  Typed'
<1>1. CASE BarrierClears
  <2>1. UNCHANGED <<store, cache, venue, wire, handler, reply, queue, outbox, drainer, misses,
                    armed, reads, asked, sends, told, hasty, fault, delivered, crashes, dups>>
        /\ phase' = "up" /\ proved' = {}
    BY <1>1 DEF BarrierClears, bus, history, bounds
  <2>2. TypeOK'
    BY <2>1 DEF IInv, TypeOK
  <2>3. Traffic'
    BY <2>1 DEF IInv, Traffic, Mail
  <2> QED BY <2>2, <2>3 DEF Typed
<1>2. CASE Crash
  BY <1>2, StopTyped DEF Crash, history, IInv, TypeOK, Traffic
<1>3. CASE Restart
  <2>1. UNCHANGED <<store, venue, wire, handler, reply, queue, outbox, drainer, misses,
                    armed, reads, proved, asked, sends, told, hasty, fault, delivered, crashes, dups>>
        /\ phase' = "starting" /\ cache' = store
    BY <1>3 DEF Restart, bus, reconciler, history, bounds
  <2>2. TypeOK'
    BY <2>1 DEF IInv, TypeOK
  <2>3. Traffic'
    BY <2>1 DEF IInv, Traffic, Mail
  <2> QED BY <2>2, <2>3 DEF Typed
<1> QED BY <1>1, <1>2, <1>3

LEMMA StutterTyped ==
    ASSUME IInv, UNCHANGED vars
    PROVE  Typed'
<1>1. TypeOK'
  BY DEF vars, bus, reconciler, history, bounds, IInv, TypeOK
<1>2. Traffic'
  BY DEF vars, bus, reconciler, history, bounds, IInv, Traffic, Mail
<1> QED BY <1>1, <1>2 DEF Typed

LEMMA TypedStep == IInv /\ [Next]_vars => Typed'
<1> SUFFICES ASSUME IInv, [Next]_vars PROVE Typed'
  OBVIOUS
<1>1. CASE Strategy
  BY <1>1, EmitTyped DEF Strategy
<1>2. CASE Dispatch
  BY <1>2, HandleEventTyped, HandlePlaceTyped, HandleCancelTyped, HandleStatusTyped,
     HandleFillTyped, PublishNextTyped DEF Dispatch
<1>3. CASE Adapter
  BY <1>3, AdapterTyped DEF Adapter
<1>4. CASE Venue
  BY <1>4, VenueTyped DEF Venue
<1>5. CASE Reconcile
  BY <1>5, ReadStartTyped, ReadAnsweredTyped, ReadFailedTyped DEF Reconcile
<1>6. CASE BarrierClears \/ Crash \/ Restart
  BY <1>6, ProcessTyped
<1>7. CASE \E m \in delivered : Redeliver(m)
  BY <1>7, RedeliverTyped
<1>8. CASE UNCHANGED vars
  BY <1>8, StutterTyped
<1> QED BY <1>1, <1>2, <1>3, <1>4, <1>5, <1>6, <1>7, <1>8 DEF Next

-------------------------------------------------------------------------------
\* How a row moves.

\* A row forgets no trade, no state it entered and no cancel, and an order that
\* may have been sent stays one.
Extends(old, new) ==
    /\ old.fills \subseteq new.fills
    /\ old.entered \subseteq new.entered
    /\ old.cancel => new.cancel
    /\ old.st \notin {"none", "DENIED"} => new.st \notin {"none", "DENIED"}

\* What a row must hold once the strategies may have seen event m.
Tells(row, m) ==
    CASE m.t > 0 -> m.t \in row.fills
      [] m.st \in {"PENDING", "SUBMITTED"} -> row.st \notin {"none", "DENIED"}
      [] OTHER -> m.st \in row.entered

Booked(row, order) ==
    /\ row.fills \subseteq 1..order.fills
    /\ row.cum = Cardinality(row.fills)

\* The parts of IInv that relate the rows to memory, venue and announcements.
Sound == VenueSound /\ Sent /\ Stopped /\ MemoryIsDurable /\ AnnouncedIsDurable /\ BookedOnce

LEMMA TellsStays ==
    ASSUME NEW old, NEW new, Extends(old, new), NEW m, Tells(old, m)
    PROVE  Tells(new, m)
BY DEF Extends, Tells

LEMMA StatusExtends ==
    ASSUME NEW order \in Saga(Lots), NEW st \in StatusMoves, MayEnter(order, st), NEW oid
    PROVE  /\ Extends(order, ApplyStatus(order, st, oid))
           /\ ApplyStatus(order, st, oid).fills = order.fills
           /\ ApplyStatus(order, st, oid).cum = order.cum
           /\ ApplyStatus(order, st, oid).st = st
           /\ st \in ApplyStatus(order, st, oid).entered
           /\ ~IsTerminal(order)
<1> DEFINE next == ApplyStatus(order, st, oid)
<1>1. /\ next.st = st /\ next.entered = order.entered \cup {st}
      /\ next.fills = order.fills /\ next.cum = order.cum /\ next.cancel = order.cancel
  BY DEF Saga, ApplyStatus
<1>2. st \notin {"none", "DENIED"}
  BY DEF StatusMoves
<1>3. ~IsTerminal(order)
  BY DEF MayEnter, LegalTransitions, IsTerminal, TerminalStates
<1> QED BY <1>1, <1>2, <1>3 DEF Extends

LEMMA FillExtends ==
    ASSUME NEW order \in Saga(Lots), NEW v \in VenueOrder, Booked(order, v), NEW t \in 1..v.fills,
           ~SeenFill(order, t), MayEnter(order, FillTarget(order, Lots))
    PROVE  /\ Extends(order, ApplyFill(order, t, Lots))
           /\ t \in ApplyFill(order, t, Lots).fills
           /\ Booked(ApplyFill(order, t, Lots), v)
           /\ ~IsTerminal(order)
<1> DEFINE next == ApplyFill(order, t, Lots)
<1>1. /\ next.st = FillTarget(order, Lots) /\ next.entered = order.entered
      /\ next.fills = order.fills \cup {t} /\ next.cum = order.cum + 1 /\ next.cancel = order.cancel
  BY DEF Saga, ApplyFill
<1>2. next.st \notin {"none", "DENIED"}
  BY <1>1 DEF FillTarget
<1>3. ~IsTerminal(order)
  BY DEF MayEnter, LegalTransitions, IsTerminal, TerminalStates
<1>4. Booked(next, v)
  <2>1. IsFiniteSet(1..v.fills)
    BY FS_Interval, SagaEngineAssumption DEF VenueOrder
  <2>2. IsFiniteSet(order.fills) /\ order.fills \subseteq 1..v.fills
    BY <2>1, FS_Subset DEF Booked
  <2>3. Cardinality(order.fills \cup {t}) = Cardinality(order.fills) + 1
    BY <2>2, FS_AddElement DEF SeenFill
  <2> QED BY <1>1, <2>2, <2>3 DEF Booked
<1> QED BY <1>1, <1>2, <1>3, <1>4 DEF Extends

LEMMA CancelExtends ==
    ASSUME NEW order \in Saga(Lots)
    PROVE  /\ Extends(order, RequestCancel(order)) /\ RequestCancel(order).cancel
           /\ RequestCancel(order).fills = order.fills /\ RequestCancel(order).cum = order.cum
BY DEF Saga, RequestCancel, Extends

LEMMA EventFields ==
    \A c, st, t : LET m == OrderEvent(c, st, t) IN m.c = c /\ m.st = st /\ m.t = t
BY DEF OrderEvent, Bare

\* The rows of an order the manager has just met.
Submitted == ApplyStatus(NewOrder, "SUBMITTED", FALSE)

Denied == ApplyStatus(NewOrder, "DENIED", FALSE)

LEMMA NewRows ==
    /\ NoSaga.st = "none" /\ ~NoSaga.cancel
    /\ NewOrder.st = "PENDING" /\ ~NewOrder.cancel
    /\ Submitted.st = "SUBMITTED" /\ Denied.st = "DENIED" /\ "DENIED" \in Denied.entered
    /\ Extends(NoSaga, NewOrder) /\ Extends(NoSaga, Submitted) /\ Extends(NoSaga, Denied)
    /\ Extends(NewOrder, Submitted)
    /\ \A order \in VenueOrder :
          Booked(NewOrder, order) /\ Booked(Submitted, order) /\ Booked(Denied, order)
    /\ \A c : /\ OrderEvent(c, "DENIED", 0).c = c /\ Tells(Denied, OrderEvent(c, "DENIED", 0))
             /\ \A st \in {"PENDING", "SUBMITTED"} :
                   /\ OrderEvent(c, st, 0).c = c
                   /\ Tells(NewOrder, OrderEvent(c, st, 0)) /\ Tells(Submitted, OrderEvent(c, st, 0))
<1>1. NoSaga.st = "none" /\ NoSaga.fills = {} /\ NoSaga.entered = {} /\ ~NoSaga.cancel
  BY DEF NoSaga
<1>2. /\ NewOrder.st = "PENDING" /\ NewOrder.fills = {} /\ NewOrder.entered = {}
      /\ NewOrder.cum = 0 /\ ~NewOrder.cancel
  BY DEF NoSaga, NewOrder
<1>3. /\ Submitted.st = "SUBMITTED" /\ Submitted.fills = {} /\ Submitted.cum = 0
      /\ Submitted.entered = {"SUBMITTED"}
  BY DEF NoSaga, NewOrder, ApplyStatus, Submitted
<1>4. /\ Denied.st = "DENIED" /\ Denied.fills = {} /\ Denied.cum = 0
      /\ Denied.entered = {"DENIED"}
  BY DEF NoSaga, NewOrder, ApplyStatus, Denied
<1>5. /\ Extends(NoSaga, NewOrder) /\ Extends(NoSaga, Submitted) /\ Extends(NoSaga, Denied)
      /\ Extends(NewOrder, Submitted)
  BY <1>1, <1>2, <1>3, <1>4 DEF Extends
<1>6. \A order \in VenueOrder :
          Booked(NewOrder, order) /\ Booked(Submitted, order) /\ Booked(Denied, order)
  BY <1>2, <1>3, <1>4, FS_EmptySet DEF Booked
<1>7. ASSUME NEW c
      PROVE  /\ Tells(Denied, OrderEvent(c, "DENIED", 0))
             /\ \A st \in {"PENDING", "SUBMITTED"} :
                   Tells(NewOrder, OrderEvent(c, st, 0)) /\ Tells(Submitted, OrderEvent(c, st, 0))
  BY <1>2, <1>3, <1>4, EventFields DEF Tells
<1> QED BY <1>1, <1>2, <1>3, <1>4, <1>5, <1>6, <1>7, EventFields

\* While no handler is suspended, memory and rows are the same.
LEMMA IdleMemory ==
    ASSUME IInv, phase # "down", handler = Idle
    PROVE  \A c \in Cloids : cache[c] = store[c]
BY SagaEngineAssumption DEF IInv, MemoryIsDurable, SendWindow, Idle

\* A row no one has met was never sent.
LEMMA UnknownUnsent ==
    ASSUME IInv, NEW c \in Cloids, store[c] = NoSaga
    PROVE  sends[c] = 0 /\ venue[c].st = "absent" /\ <<"cancel", c>> \notin wire
<1>1. sends[c] \in Nat /\ sends[c] <= 1 /\ sends[c] # 1
  BY NewRows DEF IInv, TypeOK, Sent
<1>2. sends[c] = 0
  BY <1>1
<1> QED BY <1>2, NewRows DEF IInv, Sent

-------------------------------------------------------------------------------
\* Every step keeps what IInv says of the rows.

\* Steps that leave the rows, the memory and the handler alone.
LEMMA QuietSound ==
    ASSUME IInv, UNCHANGED <<store, cache, venue, wire, handler, sends, told>>,
           phase' = "down" <=> phase = "down"
    PROVE  Sound'
<1>1. VenueSound'
  BY DEF IInv, VenueSound
<1>2. Sent'
  BY DEF IInv, Sent
<1>3. Stopped' /\ MemoryIsDurable'
  BY DEF IInv, Stopped, MemoryIsDurable, SendWindow
<1>4. AnnouncedIsDurable'
  BY DEF IInv, AnnouncedIsDurable
<1>5. BookedOnce'
  BY DEF IInv, BookedOnce
<1> QED BY <1>1, <1>2, <1>3, <1>4, <1>5 DEF Sound

LEMMA VenueStepSound ==
    ASSUME IInv, NEW c \in Cloids,
           \/ VenueTakesPlace(c) \/ VenueTakesCancel(c)
           \/ \E op \in {"place", "cancel"} : WireLoses(op, c)
           \/ VenueFills(c) \/ VenueCancels(c) \/ VenueForgets(c)
    PROVE  Sound'
<1>1. VenueUnchanged
  BY DEF VenueTakesPlace, VenueTakesCancel, WireLoses, VenueFills, VenueCancels, VenueForgets
<1>2. UNCHANGED <<store, cache, handler, phase, sends, told>>
  BY <1>1 DEF VenueUnchanged, history
<1>3. /\ venue' \in [Cloids -> VenueOrder] /\ wire' \subseteq wire /\ VenueSound'
      /\ \A d \in Cloids : venue[d].fills <= venue'[d].fills
  BY VenueGrows
<1>4. Sent'
  <2>1. ASSUME NEW d \in Cloids, venue'[d].st # "absent"
        PROVE  venue[d].st # "absent" \/ <<"place", d>> \in wire
    BY <2>1 DEF IInv, TypeOK, VenueTakesPlace, VenueTakesCancel, WireLoses, VenueFills,
                VenueCancels, VenueForgets
  <2> QED BY <1>2, <1>3, <2>1 DEF IInv, Sent
<1>5. Stopped' /\ MemoryIsDurable'
  BY <1>2 DEF IInv, Stopped, MemoryIsDurable, SendWindow
<1>6. AnnouncedIsDurable'
  BY <1>2 DEF IInv, AnnouncedIsDurable
<1>7. BookedOnce'
  <2>1. ASSUME NEW d \in Cloids PROVE 1..venue[d].fills \subseteq 1..venue'[d].fills
    <3>1. venue[d].fills \in Int /\ venue'[d].fills \in Int
      BY <1>3, SagaEngineAssumption DEF VenueOrder, IInv, TypeOK
    <3> QED BY <1>3, <3>1
  <2> QED BY <1>2, <2>1 DEF IInv, BookedOnce
<1> QED BY <1>3, <1>4, <1>5, <1>6, <1>7 DEF Sound

\* A step that moves one row along, and announces no more than the row tells.
LEMMA RowAnnounced ==
    ASSUME IInv, NEW c \in Cloids, NEW order,
           Extends(store[c], order), Booked(order, venue[c]),
           store' = [store EXCEPT ![c] = order], UNCHANGED venue,
           NEW said, told' = told \cup said, \A m \in said : m.c = c /\ Tells(order, m)
    PROVE  AnnouncedIsDurable' /\ BookedOnce' /\ \A d \in Cloids : Extends(store[d], store'[d])
<1>1. /\ store \in [Cloids -> Saga(Lots)]
      /\ store'[c] = order /\ \A d \in Cloids \ {c} : store'[d] = store[d]
  BY DEF IInv, TypeOK
<1>2. \A d \in Cloids : Extends(store[d], store'[d])
  BY <1>1 DEF Extends
<1>3. AnnouncedIsDurable'
  <2>1. \A m \in told : Tells(store[m.c], m) /\ m.c \in Cloids
    BY DEF IInv, TypeOK, AnnouncedIsDurable, Tells, Message
  <2>2. \A m \in told' : Tells(store'[m.c], m)
    BY <1>1, <1>2, <2>1, TellsStays
  <2> QED BY <2>2 DEF AnnouncedIsDurable, Tells
<1>4. BookedOnce'
  BY <1>1 DEF IInv, BookedOnce, Booked
<1> QED BY <1>2, <1>3, <1>4

\* Such a step of a handler that does not go to the venue.
LEMMA RowSound ==
    ASSUME IInv, NEW c \in Cloids, NEW order,
           Extends(store[c], order), Booked(order, venue[c]),
           store' = [store EXCEPT ![c] = order], cache' = [cache EXCEPT ![c] = order],
           phase # "down", handler = Idle,
           NEW said, told' = told \cup said, \A m \in said : m.c = c /\ Tells(order, m),
           UNCHANGED <<venue, wire, handler, phase, sends>>
    PROVE  Sound'
<1>1. /\ store \in [Cloids -> Saga(Lots)] /\ cache \in [Cloids -> Saga(Lots)]
  BY DEF IInv, TypeOK
<1>2. AnnouncedIsDurable' /\ BookedOnce' /\ \A d \in Cloids : Extends(store[d], store'[d])
  BY RowAnnounced
<1>3. VenueSound'
  BY DEF IInv, VenueSound
<1>4. Sent'
  BY <1>2 DEF IInv, Sent, Extends
<1>5. Stopped' /\ MemoryIsDurable'
  <2>1. \A d \in Cloids : cache'[d] = store'[d]
    BY <1>1, IdleMemory
  <2> QED BY <2>1 DEF Stopped, MemoryIsDurable
<1> QED BY <1>2, <1>3, <1>4, <1>5 DEF Sound

LEMMA HandlePlaceSound ==
    ASSUME IInv, HandlePlace
    PROVE  Sound'
<1> DEFINE c == Head(queue).c
           announced == {OrderEvent(c, "PENDING", 0), OrderEvent(c, "SUBMITTED", 0)}
<1>1. /\ c \in Cloids /\ phase # "down" /\ handler = Idle
      /\ UNCHANGED <<venue, phase>>
  BY Dispatched DEF HandlePlace
<1>2. /\ cache[c] = store[c] /\ venue[c] \in VenueOrder
      /\ store \in [Cloids -> Saga(Lots)] /\ cache \in [Cloids -> Saga(Lots)]
  BY <1>1, IdleMemory DEF IInv, TypeOK
<1>3. CASE PlaceKnown(c)
  BY <1>1, <1>3, QuietSound DEF PlaceKnown
<1>4. CASE PlaceDenied(c)
  <2>1. store[c] = NoSaga
    BY <1>2, <1>4 DEF PlaceDenied, Known
  <2>2. Extends(store[c], Denied) /\ Booked(Denied, venue[c])
    BY <2>1, <1>2, NewRows
  <2> DEFINE said == {OrderEvent(c, "DENIED", 0)}
  <2>3. \A m \in said : m.c = c /\ Tells(Denied, m)
    BY NewRows
  <2>4. /\ store' = [store EXCEPT ![c] = Denied] /\ cache' = [cache EXCEPT ![c] = Denied]
        /\ told' = told \cup said
        /\ UNCHANGED <<wire, handler, sends>>
    BY <1>4 DEF PlaceDenied, Commit, Checkpointed, Denied
  <2> HIDE DEF said
  <2> QED BY <1>1, <2>2, <2>3, <2>4, RowSound
<1>5. \A order \in {NewOrder, Submitted} : \A m \in announced : m.c = c /\ Tells(order, m)
  BY NewRows
<1>6. CASE PlaceUnpriced(c)
  <2>1. store[c] = NoSaga
    BY <1>2, <1>6 DEF PlaceUnpriced, Known
  <2>2. Extends(store[c], Submitted) /\ Booked(Submitted, venue[c])
    BY <2>1, <1>2, NewRows
  <2>3. /\ store' = [store EXCEPT ![c] = Submitted] /\ cache' = [cache EXCEPT ![c] = Submitted]
        /\ told' = told \cup announced
        /\ UNCHANGED <<wire, handler, sends>>
    BY <1>6 DEF PlaceUnpriced, Checkpointed, Submitted
  <2> HIDE DEF announced
  <2> QED BY <1>1, <1>5, <2>2, <2>3, RowSound
<1>7. CASE PlaceSent(c)
  <2>1. store[c] = NoSaga
    BY <1>2, <1>7 DEF PlaceSent, Known
  <2>2. sends[c] = 0 /\ venue[c].st = "absent" /\ <<"cancel", c>> \notin wire
    BY <1>1, <2>1, UnknownUnsent
  <2>3. Extends(store[c], NewOrder) /\ Booked(NewOrder, venue[c])
    BY <2>1, <1>2, NewRows
  <2>4. /\ store' = [store EXCEPT ![c] = NewOrder] /\ cache' = [cache EXCEPT ![c] = Submitted]
        /\ told' = told \cup announced
        /\ wire' = wire \cup {<<"place", c>>} /\ sends' = [sends EXCEPT ![c] = @ + 1]
        /\ handler' = [at |-> "place", c |-> c]
    BY <1>7 DEF PlaceSent, WriteAhead, Checkpointed, Submitted
  <2>5. AnnouncedIsDurable' /\ BookedOnce' /\ \A d \in Cloids : Extends(store[d], store'[d])
    <3> HIDE DEF announced
    <3> QED BY <1>1, <1>5, <2>3, <2>4, RowAnnounced
  <2>6. VenueSound'
    BY <1>1, <2>2, <2>4 DEF IInv, VenueSound
  <2>7. Sent'
    <3>1. sends'[c] = 1 /\ store'[c].st = "PENDING" /\ <<"cancel", c>> \notin wire'
      BY <1>1, <1>2, <2>2, <2>4, NewRows DEF IInv, TypeOK
    <3>2. ASSUME NEW d \in Cloids \ {c}
          PROVE  /\ sends'[d] = sends[d] /\ store'[d] = store[d]
                 /\ <<"place", d>> \in wire' <=> <<"place", d>> \in wire
                 /\ <<"cancel", d>> \in wire' <=> <<"cancel", d>> \in wire
      BY <2>4 DEF IInv, TypeOK
    <3>3. ASSUME NEW d \in Cloids
          PROVE  /\ sends'[d] <= 1
                 /\ sends'[d] = 1 => store'[d].st \notin {"none", "DENIED"}
                 /\ (<<"place", d>> \in wire' \/ venue'[d].st # "absent") => sends'[d] = 1
                 /\ <<"cancel", d>> \in wire' => store'[d].cancel
      <4>1. CASE d = c
        BY <4>1, <3>1
      <4>2. CASE d # c
        BY <4>2, <3>2, <1>1 DEF IInv, Sent
      <4> QED BY <4>1, <4>2
    <3> QED BY <3>3 DEF Sent
  <2>8. Stopped' /\ MemoryIsDurable'
    <3>1. store'[c] = NewOrder /\ cache'[c] = Submitted
      BY <1>2, <1>1, <2>4
    <3>2. ASSUME NEW d \in Cloids \ {c} PROVE cache'[d] = store'[d]
      BY <1>1, <1>2, <2>4, IdleMemory
    <3> QED BY <1>1, <2>4, <3>1, <3>2 DEF Stopped, MemoryIsDurable, SendWindow, Submitted
  <2> QED BY <2>5, <2>6, <2>7, <2>8 DEF Sound
<1> QED BY <1>3, <1>4, <1>6, <1>7 DEF HandlePlace

LEMMA HandleCancelSound ==
    ASSUME IInv, HandleCancel
    PROVE  Sound'
<1> DEFINE c == Head(queue).c
           order == RequestCancel(cache[c])
<1>1. /\ c \in Cloids /\ phase # "down" /\ handler = Idle
      /\ UNCHANGED <<venue, phase, sends, told>>
  BY Dispatched DEF HandleCancel, history
<1>2. /\ \A d \in Cloids : cache[d] = store[d]
      /\ store \in [Cloids -> Saga(Lots)] /\ cache \in [Cloids -> Saga(Lots)]
  BY <1>1, IdleMemory DEF IInv, TypeOK
<1>3. CASE ~(Known(c) /\ MayRequestCancel(cache[c]))
  BY <1>1, <1>3, QuietSound DEF HandleCancel
<1>4. CASE Known(c) /\ MayRequestCancel(cache[c])
  <2>1. Extends(store[c], order) /\ Booked(order, venue[c]) /\ order.cancel
    BY <1>1, <1>2, CancelExtends DEF IInv, BookedOnce, Booked
  <2>2. /\ store' = [store EXCEPT ![c] = order] /\ cache' = [cache EXCEPT ![c] = order]
        /\ wire' = wire \cup {<<"cancel", c>>}
        /\ handler' = [at |-> "cancel", c |-> c]
    BY <1>4 DEF HandleCancel, Checkpointed
  <2> HIDE DEF order
  <2> DEFINE said == {}
  <2>3. told' = told \cup said /\ \A m \in said : m.c = c /\ Tells(order, m)
    BY <1>1
  <2> HIDE DEF said
  <2>4. AnnouncedIsDurable' /\ BookedOnce' /\ \A d \in Cloids : Extends(store[d], store'[d])
    BY <1>1, <2>1, <2>2, <2>3, RowAnnounced
  <2>5. VenueSound'
    BY <1>1, <2>2 DEF IInv, VenueSound
  <2>6. Sent'
    <3>1. store'[c].cancel
      BY <1>1, <1>2, <2>1, <2>2
    <3>2. \A d \in Cloids : (<<"cancel", d>> \in wire' => <<"cancel", d>> \in wire \/ d = c)
                            /\ (<<"place", d>> \in wire' => <<"place", d>> \in wire)
      BY <2>2
    <3> QED BY <1>1, <2>4, <3>1, <3>2 DEF IInv, Sent, Extends
  <2>7. Stopped' /\ MemoryIsDurable'
    BY <1>1, <1>2, <2>2 DEF Stopped, MemoryIsDurable
  <2> QED BY <2>4, <2>5, <2>6, <2>7 DEF Sound
<1> QED BY <1>3, <1>4

LEMMA StopSound ==
    ASSUME IInv, Stop, UNCHANGED <<store, venue, wire, sends, told>>
    PROVE  Sound'
<1>1. VenueSound' /\ Sent'
  BY DEF IInv, VenueSound, Sent
<1>2. Stopped' /\ MemoryIsDurable'
  BY DEF Stop, Stopped, MemoryIsDurable
<1>3. AnnouncedIsDurable' /\ BookedOnce'
  BY DEF IInv, AnnouncedIsDurable, BookedOnce
<1> QED BY <1>1, <1>2, <1>3 DEF Sound

LEMMA HandleStatusSound ==
    ASSUME IInv, HandleStatus
    PROVE  Sound'
<1> DEFINE m == Head(queue)
           order == cache[m.c]
           next == ApplyStatus(order, m.st, m.oid)
           ignored == ~IsOpen(order) \/ m.st \notin StatusMoves \/ SeenStatus(order, m.st)
           said == {OrderEvent(m.c, m.st, 0)}
<1>1. m.c \in Cloids /\ phase # "down" /\ handler = Idle
  BY Dispatched DEF HandleStatus
<1>2. order = store[m.c] /\ order \in Saga(Lots) /\ venue[m.c] \in VenueOrder
  BY <1>1, IdleMemory DEF IInv, TypeOK
<1>3. CASE ignored /\ queue' = Tail(queue)
           /\ UNCHANGED <<store, cache, venue, wire, handler, reply, outbox,
                          drainer, phase, reconciler, history, bounds>>
  BY <1>3, QuietSound DEF history
<1>4. CASE ~ignored /\ MayEnter(order, m.st)
           /\ Commit(m.c, next, m.st, 0)
           /\ UNCHANGED <<venue, wire, handler, reply, outbox, drainer, phase,
                          reconciler, asked, sends, hasty, fault, bounds>>
  <2>1. /\ Extends(order, next) /\ next.fills = order.fills /\ next.cum = order.cum
        /\ next.st = m.st /\ m.st \in next.entered
    BY <1>2, <1>4, StatusExtends
  <2>2. Booked(next, venue[m.c])
    BY <1>1, <1>2, <2>1 DEF IInv, BookedOnce, Booked
  <2>3. \A e \in said : e.c = m.c /\ Tells(next, e)
    <3>1. m.st \notin {"none", "DENIED"}
      BY <1>4 DEF StatusMoves
    <3> QED BY <2>1, <3>1, EventFields DEF Tells
  <2>4. /\ store' = [store EXCEPT ![m.c] = next] /\ cache' = [cache EXCEPT ![m.c] = next]
        /\ told' = told \cup said
    BY <1>4 DEF Commit, Checkpointed
  <2> HIDE DEF next, said, order
  <2>5. UNCHANGED <<venue, wire, handler, phase, sends>>
    BY <1>4
  <2> QED BY <1>1, <1>2, <2>1, <2>2, <2>3, <2>4, <2>5, RowSound
<1>5. CASE ~ignored /\ Fault(order, m.st)
  BY <1>5, StopSound DEF Fault
<1> QED BY <1>3, <1>4, <1>5, Zenon DEF HandleStatus

LEMMA HandleFillSound ==
    ASSUME IInv, HandleFill
    PROVE  Sound'
<1> DEFINE m == Head(queue)
           order == cache[m.c]
           target == FillTarget(order, Lots)
           next == ApplyFill(order, m.t, Lots)
           ignored == ~Known(m.c) \/ SeenFill(order, m.t)
           said == {OrderEvent(m.c, target, m.t)}
<1>1. m.c \in Cloids /\ phase # "down" /\ handler = Idle
  BY Dispatched DEF HandleFill
<1>2. order = store[m.c] /\ order \in Saga(Lots) /\ venue[m.c] \in VenueOrder
  BY <1>1, IdleMemory DEF IInv, TypeOK
<1>3. m.t \in 1..venue[m.c].fills /\ m.t > 0
  <2>1. m.t \in 1..venue[m.c].fills
    BY Dispatched DEF HandleFill, Mail
  <2> QED BY <2>1, <1>2, SagaEngineAssumption DEF VenueOrder
<1>4. CASE ignored /\ queue' = Tail(queue)
           /\ UNCHANGED <<store, cache, venue, wire, handler, reply, outbox,
                          drainer, phase, reconciler, history, bounds>>
  BY <1>4, QuietSound DEF history
<1>5. CASE ~ignored /\ MayEnter(order, target)
           /\ Commit(m.c, next, target, m.t)
           /\ UNCHANGED <<venue, wire, handler, reply, outbox, drainer, phase,
                          reconciler, asked, sends, hasty, fault, bounds>>
  <2>1. Booked(order, venue[m.c])
    BY <1>1, <1>2 DEF IInv, BookedOnce, Booked
  <2>2. Extends(order, next) /\ Booked(next, venue[m.c]) /\ m.t \in next.fills
    BY <1>2, <1>3, <1>5, <2>1, FillExtends
  <2> HIDE DEF next, order, target
  <2>3. \A e \in said : e.c = m.c /\ Tells(next, e)
    <3> DEFINE e == OrderEvent(m.c, target, m.t)
    <3>1. e.c = m.c /\ e.t = m.t /\ e.st = target
      BY EventFields
    <3>2. e.t > 0 /\ e.t \in next.fills /\ e.st \notin {"PENDING", "SUBMITTED"}
      BY <1>3, <2>2, <3>1 DEF target, FillTarget
    <3> HIDE DEF e
    <3>3. Tells(next, e)
      BY <3>2 DEF Tells
    <3> QED BY <3>1, <3>3 DEF e
  <2>4. /\ store' = [store EXCEPT ![m.c] = next] /\ cache' = [cache EXCEPT ![m.c] = next]
        /\ told' = told \cup said
    BY <1>5 DEF Commit, Checkpointed
  <2> HIDE DEF said
  <2>5. UNCHANGED <<venue, wire, handler, phase, sends>>
    BY <1>5
  <2> QED BY <1>1, <1>2, <2>2, <2>3, <2>4, <2>5, RowSound
<1>6. CASE ~ignored /\ Fault(order, target)
  BY <1>6, StopSound DEF Fault
<1> QED BY <1>4, <1>5, <1>6, Zenon DEF HandleFill

\* The checkpoint after the send closes the send window, and moves nothing else.
LEMMA AfterSendMoves ==
    ASSUME IInv, NEW c \in Cloids, NEW next \in {Idle, [at |-> "fills", c |-> c]},
           handler \in [at : {"place", "fills", "cancel"}, c : {c}],
           handler.at = "cancel" => next = Idle, store' = AfterSend(c, next)
    PROVE  \A d \in Cloids : \/ store'[d] = store[d]
                             \/ d = c /\ store[d] = NewOrder /\ store'[d] = Submitted
<1>1. CASE UNCHANGED store
  BY <1>1
<1>2. CASE store' = [store EXCEPT ![c] = cache[c]]
  <2>1. phase # "down"
    BY DEF IInv, Stopped, Idle
  <2>2. \/ cache[c] = store[c]
        \/ store[c] = NewOrder /\ cache[c] = Submitted
    BY <2>1 DEF IInv, MemoryIsDurable, SendWindow, Submitted
  <2> QED BY <1>2, <2>2 DEF IInv, TypeOK
<1> QED BY <1>1, <1>2 DEF AfterSend, Checkpointed

LEMMA ResumeSound ==
    ASSUME IInv, NEW c \in Cloids, NEW msgs, NEW next \in {Idle, [at |-> "fills", c |-> c]},
           handler \in [at : {"place", "fills", "cancel"}, c : {c}],
           handler.at # "place" => next = Idle,
           Resume(c, msgs, next)
    PROVE  Sound'
<1>1. UNCHANGED <<cache, venue, wire, phase, sends, told>> /\ handler' = next
      /\ store' = AfterSend(c, next)
  BY DEF Resume, history
<1>2. \A d \in Cloids : \/ store'[d] = store[d]
                        \/ d = c /\ store[d] = NewOrder /\ store'[d] = Submitted
  BY <1>1, AfterSendMoves
<1>3. \A d \in Cloids : Extends(store[d], store'[d])
  BY <1>2, NewRows DEF Extends
<1>4. VenueSound'
  BY <1>1 DEF IInv, VenueSound
<1>5. Sent'
  BY <1>1, <1>3 DEF IInv, Sent, Extends
<1>6. phase # "down"
  BY DEF IInv, Stopped, Idle
<1>7. Stopped' /\ MemoryIsDurable'
  <2>1. ASSUME NEW d \in Cloids PROVE cache'[d] = store'[d] \/ SendWindow(d)'
    <3>1. CASE next = Idle /\ handler.at # "cancel"
      <4>1. store' = [store EXCEPT ![c] = cache[c]]
        BY <1>1, <3>1 DEF AfterSend, Checkpointed
      <4>2. d # c => cache[d] = store[d]
        BY <1>6 DEF IInv, MemoryIsDurable, SendWindow
      <4> QED BY <4>1, <4>2, <1>1 DEF IInv, TypeOK
    <3>2. CASE handler.at = "cancel"
      BY <1>1, <1>6, <3>2 DEF AfterSend, IInv, MemoryIsDurable, SendWindow
    <3>3. CASE next = [at |-> "fills", c |-> c] /\ handler.at = "place"
      <4>1. store' = store
        BY <1>1, <3>3 DEF AfterSend, Idle
      <4> QED BY <1>1, <1>6, <3>3, <4>1 DEF IInv, MemoryIsDurable, SendWindow
    <3> QED BY <3>1, <3>2, <3>3
  <2> QED BY <1>1, <1>6, <2>1 DEF Stopped, MemoryIsDurable
<1>8. AnnouncedIsDurable'
  <2>1. \A m \in told : Tells(store[m.c], m) /\ m.c \in Cloids
    BY DEF IInv, TypeOK, AnnouncedIsDurable, Tells, Message
  <2>2. \A m \in told' : Tells(store'[m.c], m)
    BY <1>1, <1>3, <2>1, TellsStays
  <2> QED BY <2>2 DEF AnnouncedIsDurable, Tells
<1>9. BookedOnce'
  <2>1. \A d \in Cloids : venue'[d] = venue[d] /\ venue[d] \in VenueOrder /\ Booked(store[d], venue[d])
    BY <1>1 DEF IInv, TypeOK, BookedOnce, Booked
  <2>2. \A d \in Cloids : Booked(Submitted, venue[d])
    BY <2>1, NewRows
  <2>3. \A d \in Cloids : Booked(store'[d], venue'[d])
    BY <1>2, <2>1, <2>2
  <2> QED BY <2>3 DEF BookedOnce, Booked
<1> QED BY <1>4, <1>5, <1>7, <1>8, <1>9 DEF Sound

LEMMA AdapterSound ==
    ASSUME IInv, NEW c \in Cloids,
           PlaceAnswered(c) \/ PlaceFillsRead(c) \/ CancelAnswered(c) \/ Unanswered(c)
    PROVE  Sound'
<1>1. ASSUME handler \in [at : {"place", "fills", "cancel"}, c : {c}],
             NEW next \in {Idle, [at |-> "fills", c |-> c]}, handler.at # "place" => next = Idle,
             NEW msgs, Resume(c, msgs, next)
      PROVE  Sound'
  BY <1>1, ResumeSound
<1>2. CASE PlaceAnswered(c)
  <2>1. handler = [at |-> "place", c |-> c]
    BY <1>2 DEF PlaceAnswered
  <2>2. PICK next \in {Idle, [at |-> "fills", c |-> c]} : \E msgs : Resume(c, msgs, next)
    BY <1>2, Zenon DEF PlaceAnswered
  <2> QED BY <2>1, <2>2, <1>1
<1>3. CASE PlaceFillsRead(c)
  <2>1. handler = [at |-> "fills", c |-> c] /\ \E msgs : Resume(c, msgs, Idle)
    BY <1>3, Zenon DEF PlaceFillsRead
  <2> QED BY <2>1, <1>1
<1>4. CASE CancelAnswered(c)
  <2>1. handler = [at |-> "cancel", c |-> c] /\ \E msgs : Resume(c, msgs, Idle)
    BY <1>4, Zenon DEF CancelAnswered
  <2> QED BY <2>1, <1>1
<1>5. CASE Unanswered(c)
  <2>1. handler.at \in {"place", "cancel"} /\ handler.c = c /\ Resume(c, <<>>, Idle)
    BY <1>5 DEF Unanswered
  <2>2. handler \in [at : {"place", "fills", "cancel"}, c : {c}]
    BY <2>1 DEF IInv, TypeOK, Idle
  <2> QED BY <2>1, <2>2, <1>1
<1> QED BY <1>2, <1>3, <1>4, <1>5

LEMMA RestartSound ==
    ASSUME IInv, Restart
    PROVE  Sound'
<1>1. UNCHANGED <<store, venue, wire, handler, sends, told>> /\ cache' = store
      /\ phase = "down" /\ phase' = "starting"
  BY DEF Restart, history
<1>2. VenueSound' /\ Sent'
  BY <1>1 DEF IInv, VenueSound, Sent
<1>3. Stopped' /\ MemoryIsDurable'
  BY <1>1 DEF Stopped, MemoryIsDurable
<1>4. AnnouncedIsDurable' /\ BookedOnce'
  BY <1>1 DEF IInv, AnnouncedIsDurable, BookedOnce
<1> QED BY <1>2, <1>3, <1>4 DEF Sound

LEMMA SoundStep == IInv /\ [Next]_vars => Sound'
<1> SUFFICES ASSUME IInv, [Next]_vars PROVE Sound'
  OBVIOUS
<1>1. CASE Strategy \/ (\E m \in delivered : Redeliver(m))
  BY <1>1, QuietSound DEF Strategy, EmitPlace, EmitCancel, Emit, Redeliver, history
<1>2. CASE HandleEvent \/ PublishNext
  BY <1>2, QuietSound DEF HandleEvent, PublishNext, history
<1>3. CASE HandlePlace
  BY <1>3, HandlePlaceSound
<1>4. CASE HandleCancel
  BY <1>4, HandleCancelSound
<1>5. CASE HandleStatus
  BY <1>5, HandleStatusSound
<1>6. CASE HandleFill
  BY <1>6, HandleFillSound
<1>7. CASE Adapter
  BY <1>7, AdapterSound DEF Adapter
<1>8. CASE Venue
  BY <1>8, VenueStepSound DEF Venue
<1>9. CASE Reconcile
  BY <1>9, QuietSound DEF Reconcile, ReadStart, ReadAnswered, ReadFailed, history
<1>10. CASE BarrierClears
  BY <1>10, QuietSound DEF BarrierClears, history
<1>11. CASE Crash
  BY <1>11, StopSound DEF Crash, history
<1>12. CASE Restart
  BY <1>12, RestartSound
<1>13. CASE UNCHANGED vars
  BY <1>13, QuietSound DEF vars, history
<1> QED BY <1>1, <1>2, <1>3, <1>4, <1>5, <1>6, <1>7, <1>8, <1>9, <1>10, <1>11, <1>12, <1>13
        DEF Next, Dispatch

LEMMA InitSound == Init => Sound
<1> SUFFICES ASSUME Init PROVE Sound
  OBVIOUS
<1>1. VenueSound /\ Sent /\ Stopped
  BY DEF Init, VenueSound, Sent, Stopped
<1>2. MemoryIsDurable /\ AnnouncedIsDurable
  BY DEF Init, MemoryIsDurable, AnnouncedIsDurable
<1>3. BookedOnce
  BY FS_EmptySet DEF Init, BookedOnce, NoSaga
<1> QED BY <1>1, <1>2, <1>3 DEF Sound

-------------------------------------------------------------------------------
\* The theorems.

LEMMA Invariance == Spec => []IInv
<1>1. Init => IInv
  BY InitTyped, InitSound DEF Typed, Sound, IInv
<1>2. IInv /\ [Next]_vars => IInv'
  BY TypedStep, SoundStep DEF Typed, Sound, IInv
<1> QED BY <1>1, <1>2, PTL DEF Spec

\* Whatever the orders, the bounds and the venue, every variable keeps its type.
THEOREM TypeCorrect == Spec => []TypeOK
<1>1. IInv => TypeOK
  BY DEF IInv
<1> QED BY <1>1, Invariance, PTL

\* Over any number of crashes and redeliveries no place signal is sent twice.
THEOREM PlacedAtMostOnce == Spec => []NeverPlacedTwice
<1>1. IInv => NeverPlacedTwice
  BY DEF IInv, Sent, NeverPlacedTwice
<1> QED BY <1>1, Invariance, PTL

\* A restart finds in the store whatever may be at the venue or on its way there.
THEOREM RequestsWrittenAhead == Spec => []RequestsAreDurable
<1>1. IInv => RequestsAreDurable
  BY DEF IInv, Sent, RequestsAreDurable
<1> QED BY <1>1, Invariance, PTL

\* Memory runs ahead of the rows in the send window only.
THEOREM MemoryMatchesRows == Spec => []MemoryIsDurable
<1>1. IInv => MemoryIsDurable
  BY DEF IInv
<1> QED BY <1>1, Invariance, PTL

\* No crash takes back what an OrderEvent told.
THEOREM AnnouncementsSurvive == Spec => []AnnouncedIsDurable
<1>1. IInv => AnnouncedIsDurable
  BY DEF IInv
<1> QED BY <1>1, Invariance, PTL

\* Every trade is booked at most once and only if it happened, for orders of any
\* size and any number of duplicates.
THEOREM TradesBookedOnce == Spec => []BookedOnce
<1>1. IInv => BookedOnce
  BY DEF IInv
<1> QED BY <1>1, Invariance, PTL

LEMMA FinalStep ==
    IInv /\ [Next]_vars => \A c \in Cloids : IsTerminal(store[c]) => store'[c] = store[c]
<1> SUFFICES ASSUME IInv, [Next]_vars, NEW c \in Cloids, IsTerminal(store[c])
             PROVE  store'[c] = store[c]
  OBVIOUS
<1>1. /\ store \in [Cloids -> Saga(Lots)]
      /\ store[c] # NoSaga /\ store[c] # NewOrder
  BY NewRows DEF IInv, TypeOK, IsTerminal, TerminalStates
<1> DEFINE d == Head(queue).c
<1>2. \A kind : Dispatching(kind) => d \in Cloids /\ cache[d] = store[d] /\ cache[d] \in Saga(Lots)
  BY Dispatched, IdleMemory DEF IInv, TypeOK
<1> HIDE DEF d
<1>3. CASE UNCHANGED store
  BY <1>3
<1>4. CASE HandlePlace
  <2>1. Dispatching("place") /\ (PlaceKnown(d) \/ PlaceDenied(d) \/ PlaceSent(d) \/ PlaceUnpriced(d))
    BY <1>4 DEF HandlePlace, d
  <2>2. PlaceKnown(d) \/ store[d] = NoSaga
    BY <1>2, <2>1 DEF PlaceDenied, PlaceSent, PlaceUnpriced, Known
  <2>3. \A e \in Cloids \ {d} : store'[e] = store[e]
    BY <1>1, <2>1 DEF PlaceKnown, PlaceDenied, PlaceSent, PlaceUnpriced, Commit, WriteAhead,
                      Checkpointed
  <2> QED BY <1>1, <2>2, <2>3 DEF PlaceKnown
<1>5. CASE HandleCancel
  <2>1. Dispatching("cancel")
    BY <1>5 DEF HandleCancel
  <2>2. \/ store' = store
        \/ ~IsTerminal(cache[d]) /\ store' = [store EXCEPT ![d] = RequestCancel(cache[d])]
    BY <1>5 DEF HandleCancel, Checkpointed, MayRequestCancel, d
  <2> QED BY <1>1, <1>2, <2>1, <2>2
<1>6. CASE HandleStatus
  <2>1. Dispatching("status")
    BY <1>6 DEF HandleStatus
  <2>2. \/ store' = store
        \/ IsOpen(cache[d]) /\ \A e \in Cloids \ {d} : store'[e] = store[e]
    BY <1>1, <1>6 DEF HandleStatus, Fault, Commit, Checkpointed, d, history
  <2> QED BY <1>2, <2>1, <2>2 DEF IsOpen
<1>7. CASE HandleFill
  <2>1. Dispatching("fill")
    BY <1>7 DEF HandleFill
  <2>2. \/ store' = store
        \/ /\ MayEnter(cache[d], FillTarget(cache[d], Lots))
           /\ \A e \in Cloids \ {d} : store'[e] = store[e]
    BY <1>1, <1>7 DEF HandleFill, Fault, Commit, Checkpointed, d, history
  <2>3. MayEnter(cache[d], FillTarget(cache[d], Lots)) => ~IsTerminal(cache[d])
    BY DEF MayEnter, LegalTransitions, IsTerminal, TerminalStates
  <2> QED BY <1>2, <2>1, <2>2, <2>3
<1>8. CASE Adapter
  <2>1. PICK e \in Cloids : PlaceAnswered(e) \/ PlaceFillsRead(e) \/ CancelAnswered(e) \/ Unanswered(e)
    BY <1>8 DEF Adapter
  <2>2. PICK next : store' = AfterSend(e, next)
    BY <2>1, Zenon DEF PlaceAnswered, PlaceFillsRead, CancelAnswered, Unanswered, Resume
  <2>3. handler.c = e /\ handler # Idle
    BY <2>1 DEF PlaceAnswered, PlaceFillsRead, CancelAnswered, Unanswered, Idle
  <2>4. cache[e] = store[e] \/ store[e] = NewOrder
    BY <2>3 DEF IInv, Stopped, MemoryIsDurable, SendWindow
  <2>5. store' = store \/ store' = [store EXCEPT ![e] = cache[e]]
    BY <2>2 DEF AfterSend, Checkpointed
  <2> QED BY <1>1, <2>4, <2>5
<1> QED BY <1>3, <1>4, <1>5, <1>6, <1>7, <1>8
        DEF Next, Strategy, EmitPlace, EmitCancel, Emit, Dispatch, HandleEvent, PublishNext, Redeliver,
            Venue, VenueTakesPlace, VenueTakesCancel, WireLoses, VenueFills, VenueCancels,
            VenueForgets, VenueUnchanged, Reconcile, ReadStart, ReadAnswered, ReadFailed,
            BarrierClears, Crash, Restart, vars

\* A row that is terminal is never rewritten, by any step of any actor.
THEOREM TerminalRowsStay == Spec => TerminalIsFinal
<1>1. IInv /\ [Next]_vars => [\A c \in Cloids : IsTerminal(store[c]) => store'[c] = store[c]]_vars
  BY FinalStep
<1> QED BY <1>1, Invariance, PTL DEF Spec, TerminalIsFinal

(***************************************************************************)
(* No verdict of the engine contradicts the venue: a terminal row ends as  *)
(* the order ended, with every trade booked, and the rows implement        *)
(* OrderContract.  For every set of orders, every size and any number of   *)
(* crashes, redeliveries, failed, short and stale reads, and for sends of  *)
(* any duration: a row failed on a read that began while the placement was *)
(* still on the wire is the one verdict that may be wrong, and is told     *)
(* apart by hasty.                                                         *)
(***************************************************************************)

-------------------------------------------------------------------------------
\* The inductive invariant.

\* Facts about an order at the venue that no later step takes back.
Landed(order) == order.st \notin {"absent", "rejected"}
Gone(order)   == order.st \in {"filled", "cancelled"} /\ ~order.rec

\* The row has met the market.
Past(row) == row.st \notin {"none", "PENDING", "SUBMITTED"}

\* Every trade of the order is booked or among T.
Counted(order, row, T) == 1..order.fills \subseteq row.fills \cup T

\* What a status may say of an order: it holds now, and will hold when the status
\* is applied behind reports of the trades T.  A status a terminal row ignores may
\* say anything.  A ghost judged without a key to its fills is never traceable again,
\* and a rash FAILED says nothing of the order.
Honest(m, T, row, order, sending, rash) ==
    /\ m.kind = "status" /\ ~IsTerminal(row) =>
       /\ m.st = "SUBMITTED" => ~m.oid
       /\ m.st = "LIVE" => Landed(order) /\ m.oid
       /\ m.st = "FAILED" => row.st # "none" /\ (rash \/ (~order.rec /\ ~sending))
       /\ m.st = "REJECTED" => \/ order.st = "rejected"
                               \/ Gone(order) /\ Counted(order, row, T)
       /\ m.st = "CANCELLED" =>
             \/ order.st = "cancelled" /\ (row.cancel \/ Counted(order, row, T))
             \/ Gone(order) /\ Counted(order, row, T)
             \/ Gone(order) /\ Past(row) /\ ~row.oid /\ ~m.oid
    /\ m.kind = "judge" => Gone(order) /\ Counted(order, row, T)

Sending(c) == <<"place", c>> \in wire

Hasty(c) == c \in hasty

HonestNow(m, T) == Honest(m, T, store[m.c], venue[m.c], Sending(m.c), Hasty(m.c))

\* The trades of c that the first n messages of q report.
Before(q, n, c) ==
    {t \in 1..Lots : \E j \in 1..n : q[j].kind = "fill" /\ q[j].c = c /\ q[j].t = t}

\* Whatever is on its way is honest, counting on the reports ahead of it only.
PipeHonest ==
    /\ \A i \in DOMAIN queue : HonestNow(queue[i], Before(queue, i - 1, queue[i].c))
    /\ \A i \in DOMAIN outbox :
          HonestNow(outbox[i], Before(queue, Len(queue), outbox[i].c)
                                 \cup Before(outbox, i - 1, outbox[i].c))
    /\ \A m \in delivered : HonestNow(m, {})

-------------------------------------------------------------------------------
\* What is honest stays honest.

\* How a row, an order and the wire move on.
Follows(row, next) ==
    /\ IsTerminal(row) => next = row
    /\ row.fills \subseteq next.fills
    /\ row.cancel => next.cancel
    /\ row.st # "none" => next.st # "none"
    /\ Past(row) => Past(next) /\ (row.oid \/ ~next.oid \/ IsTerminal(next))

Goes(order, next, sending) ==
    /\ Landed(order) => Landed(next)
    /\ Gone(order) => Gone(next)
    /\ order.st \in {"filled", "cancelled", "rejected"} =>
          next.st = order.st /\ next.fills = order.fills
    /\ ~order.rec /\ ~sending => ~next.rec

\* More may be counted on as the row books.
LEMMA HonestStays ==
    ASSUME NEW row, NEW row2, NEW order, NEW order2, NEW sending, NEW sending2,
           NEW rash, NEW rash2, Follows(row, row2), Goes(order, order2, sending),
           sending2 => sending \/ row.st = "none", rash => rash2,
           NEW m, NEW T, NEW U, T \subseteq U \cup row2.fills,
           Honest(m, T, row, order, sending, rash)
    PROVE  Honest(m, U, row2, order2, sending2, rash2)
<1>1. Gone(order) => Gone(order2) /\ order2.fills = order.fills
  BY DEF Gone, Goes
<1>2. Counted(order, row, T) /\ order2.fills = order.fills => Counted(order2, row2, U)
  BY DEF Counted, Follows
<1>3. ASSUME m.kind = "judge" PROVE Gone(order2) /\ Counted(order2, row2, U)
  BY <1>1, <1>2, <1>3 DEF Honest
<1>4. ASSUME m.kind = "status", ~IsTerminal(row2)
      PROVE  /\ m.st = "SUBMITTED" => ~m.oid
             /\ m.st = "LIVE" => Landed(order2) /\ m.oid
             /\ m.st = "FAILED" => row2.st # "none" /\ (rash2 \/ (~order2.rec /\ ~sending2))
             /\ m.st = "REJECTED" => \/ order2.st = "rejected"
                                     \/ Gone(order2) /\ Counted(order2, row2, U)
             /\ m.st = "CANCELLED" =>
                   \/ order2.st = "cancelled" /\ (row2.cancel \/ Counted(order2, row2, U))
                   \/ Gone(order2) /\ Counted(order2, row2, U)
                   \/ Gone(order2) /\ Past(row2) /\ ~row2.oid /\ ~m.oid
  <2>1. ~IsTerminal(row)
    BY <1>4 DEF Follows
  <2>2. (m.st = "LIVE" => Landed(order2) /\ m.oid) /\ (m.st = "SUBMITTED" => ~m.oid)
    BY <1>4, <2>1 DEF Honest, Goes
  <2>3. m.st = "FAILED" => row2.st # "none" /\ (rash2 \/ (~order2.rec /\ ~sending2))
    BY <1>4, <2>1 DEF Honest, Goes, Follows
  <2>4. m.st = "REJECTED" => \/ order2.st = "rejected"
                             \/ Gone(order2) /\ Counted(order2, row2, U)
    BY <1>1, <1>2, <1>4, <2>1 DEF Honest, Goes
  <2>5. m.st = "CANCELLED" =>
           \/ order2.st = "cancelled" /\ (row2.cancel \/ Counted(order2, row2, U))
           \/ Gone(order2) /\ Counted(order2, row2, U)
           \/ Gone(order2) /\ Past(row2) /\ ~row2.oid /\ ~m.oid
    BY <1>1, <1>2, <1>4, <2>1 DEF Honest, Goes, Follows
  <2> QED BY <2>2, <2>3, <2>4, <2>5
<1> QED BY <1>3, <1>4 DEF Honest

\* Reports in queues that grow and shrink.
LEMMA BeforeJoined ==
    ASSUME NEW q \in Seq(Message), NEW r \in Seq(Message), NEW c
    PROVE  /\ \A n \in 0..Len(q) : Before(q, n, c) \subseteq Before(q \o r, n, c)
           /\ \A n \in 0..Len(r) :
                 Before(q, Len(q), c) \cup Before(r, n, c) \subseteq Before(q \o r, Len(q) + n, c)
<1>1. /\ Len(q) \in Nat /\ Len(r) \in Nat
      /\ \A i \in 1..Len(q) : (q \o r)[i] = q[i]
      /\ \A i \in 1..Len(r) : (q \o r)[Len(q) + i] = r[i]
  <2>1. \A i \in 1 .. Len(q) + Len(r) :
           (q \o r)[i] = IF i <= Len(q) THEN q[i] ELSE r[i - Len(q)]
    BY ConcatProperties, Zenon
  <2>2. Len(q) \in Nat /\ Len(r) \in Nat
    BY LenProperties
  <2> HIDE DEF Message
  <2>3. ASSUME NEW i \in 1..Len(q) PROVE (q \o r)[i] = q[i]
    <3>1. i \in 1 .. Len(q) + Len(r) /\ i <= Len(q)
      BY <2>2
    <3> QED BY <2>1, <3>1, Zenon
  <2>4. ASSUME NEW i \in 1..Len(r) PROVE (q \o r)[Len(q) + i] = r[i]
    <3>1. PICK k : k = Len(q) + i
      OBVIOUS
    <3>2. k \in 1 .. Len(q) + Len(r) /\ ~(k <= Len(q)) /\ k - Len(q) = i
      BY <2>2, <3>1
    <3>3. (q \o r)[k] = r[k - Len(q)]
      BY <2>1, <3>2, Zenon
    <3> QED BY <3>1, <3>2, <3>3, Zenon
  <2> QED BY <2>2, <2>3, <2>4
<1>2. ASSUME NEW n \in 0..Len(q) PROVE Before(q, n, c) \subseteq Before(q \o r, n, c)
  <2>1. \A j \in 1..n : j \in 1..Len(q)
    BY <1>1
  <2> QED BY <1>1, <2>1 DEF Before
<1>3. ASSUME NEW n \in 0..Len(r)
      PROVE  Before(q, Len(q), c) \cup Before(r, n, c) \subseteq Before(q \o r, Len(q) + n, c)
  <2>1. /\ \A j \in 1..Len(q) : j \in 1 .. Len(q) + n
        /\ \A j \in 1..n : j \in 1..Len(r) /\ Len(q) + j \in 1 .. Len(q) + n
    BY <1>1
  <2>2. Before(q, Len(q), c) \subseteq Before(q \o r, Len(q) + n, c)
    BY <1>1, <2>1 DEF Before
  <2>3. Before(r, n, c) \subseteq Before(q \o r, Len(q) + n, c)
    BY <1>1, <2>1 DEF Before
  <2> QED BY <2>2, <2>3
<1> QED BY <1>2, <1>3

\* All that a second queue brings of an order is known behind the two of them.
LEMMA BeforeAppended ==
    ASSUME NEW q \in Seq(Message), NEW r \in Seq(Message), NEW c, NEW w, w = q \o r
    PROVE  Before(r, Len(r), c) \subseteq Before(w, Len(w), c)
<1>1. \A k \in 0..Len(r) :
         Before(q, Len(q), c) \cup Before(r, k, c) \subseteq Before(q \o r, Len(q) + k, c)
  BY BeforeJoined, Zenon
<1>2. Len(r) \in 0..Len(r)
  BY LenProperties
<1>3. Before(r, Len(r), c) \subseteq Before(q \o r, Len(q) + Len(r), c)
  BY <1>1, <1>2, Zenon
<1>4. Len(q \o r) = Len(q) + Len(r)
  BY ConcatProperties, Zenon
<1> QED BY <1>3, <1>4, Zenon

\* Each message of two joined queues is a message of one of them.
LEMMA EachJoined ==
    ASSUME NEW q \in Seq(Message), NEW r \in Seq(Message)
    PROVE  \A i \in DOMAIN (q \o r) :
              \/ i \in DOMAIN q /\ (q \o r)[i] = q[i] /\ i - 1 \in 0..Len(q)
              \/ \E j \in DOMAIN r : /\ (q \o r)[i] = r[j] /\ i - 1 = Len(q) + (j - 1)
                                    /\ j - 1 \in 0..Len(r)
<1>1. /\ Len(q) \in Nat /\ Len(r) \in Nat /\ DOMAIN q = 1..Len(q) /\ DOMAIN r = 1..Len(r)
      /\ q \o r \in Seq(Message) /\ Len(q \o r) = Len(q) + Len(r)
  BY LenProperties, ConcatProperties
<1>2. \A i \in 1 .. Len(q) + Len(r) :
          (q \o r)[i] = IF i <= Len(q) THEN q[i] ELSE r[i - Len(q)]
  BY ConcatProperties, Zenon
<1> HIDE DEF Message
<1>3. DOMAIN (q \o r) = 1 .. Len(q) + Len(r)
  BY <1>1, LenProperties
<1>4. PICK joined : joined = q \o r
  OBVIOUS
<1>5. ASSUME NEW i \in 1 .. Len(q) + Len(r)
      PROVE  \/ i \in DOMAIN q /\ joined[i] = q[i] /\ i - 1 \in 0..Len(q)
             \/ \E j \in DOMAIN r : /\ joined[i] = r[j] /\ i - 1 = Len(q) + (j - 1)
                                   /\ j - 1 \in 0..Len(r)
  <2>1. CASE i <= Len(q)
    BY <1>1, <1>2, <1>4, <2>1
  <2>2. CASE ~(i <= Len(q))
    <3>1. PICK j : j = i - Len(q)
      OBVIOUS
    <3>2. j \in DOMAIN r /\ i - 1 = Len(q) + (j - 1) /\ j - 1 \in 0..Len(r)
      BY <1>1, <2>2, <3>1
    <3>3. joined[i] = r[j]
      BY <1>2, <1>4, <2>2, <3>1
    <3> QED BY <3>2, <3>3
  <2> QED BY <2>1, <2>2
<1> QED BY <1>3, <1>4, <1>5

\* What the head of a queue reports, once it has been dispatched.
Reported(q, c) == IF Head(q).kind = "fill" /\ Head(q).c = c THEN {Head(q).t} ELSE {}

LEMMA BeforeTail ==
    ASSUME NEW q \in Seq(Message), q # <<>>, NEW c, NEW n \in Nat, n + 1 <= Len(q)
    PROVE  Before(q, n + 1, c) \subseteq Before(Tail(q), n, c) \cup Reported(q, c)
<1>1. Len(q) \in Nat /\ \A j \in 1..(Len(q) - 1) : Tail(q)[j] = q[j + 1]
  BY HeadTailProperties, LenProperties
<1>2. Head(q) = q[1]
  OBVIOUS
<1>3. ASSUME NEW j \in 1..(n + 1) PROVE j = 1 \/ (j - 1 \in 1..n /\ Tail(q)[j - 1] = q[j])
  BY <1>1
<1> QED BY <1>2, <1>3 DEF Before, Reported

-------------------------------------------------------------------------------
\* What is on its way stays honest through the moves of the queues.

\* HonestNow for the state a step leads to.
After(m, T) == Honest(m, T, store'[m.c], venue'[m.c], <<"place", m.c>> \in wire', m.c \in hasty')

PipeAfter ==
    /\ \A i \in DOMAIN queue' : After(queue'[i], Before(queue', i - 1, queue'[i].c))
    /\ \A i \in DOMAIN outbox' :
          After(outbox'[i], Before(queue', Len(queue'), outbox'[i].c)
                              \cup Before(outbox', i - 1, outbox'[i].c))

\* The step keeps what was honest of its orders, on every message and every T.
Keeps == \A m \in Message : \A T, U : HonestNow(m, T) /\ T \subseteq U => After(m, U)

\* What a task publishes is honest, counting on what it publishes before it.
AllHonest(msgs) == \A i \in DOMAIN msgs : After(msgs[i], Before(msgs, i - 1, msgs[i].c))

LEMMA AfterGrows ==
    ASSUME NEW m, NEW T, NEW U, T \subseteq U, After(m, T)
    PROVE  After(m, U)
BY DEF After, Honest, Counted

LEMMA PipeSame ==
    ASSUME queue \in Seq(Message), outbox \in Seq(Message), PipeHonest, Keeps,
           UNCHANGED <<queue, outbox>>
    PROVE  PipeAfter
<1>1. \A i \in DOMAIN queue : queue[i] \in Message
  OBVIOUS
<1>2. \A i \in DOMAIN outbox : outbox[i] \in Message
  OBVIOUS
<1> HIDE DEF Message
<1>3. \A i \in DOMAIN queue' : After(queue'[i], Before(queue', i - 1, queue'[i].c))
  BY <1>1, Zenon DEF PipeHonest, Keeps
<1>4. \A i \in DOMAIN outbox' :
          After(outbox'[i], Before(queue', Len(queue'), outbox'[i].c)
                              \cup Before(outbox', i - 1, outbox'[i].c))
  BY <1>2, Zenon DEF PipeHonest, Keeps
<1> QED BY <1>3, <1>4 DEF PipeAfter

LEMMA PipeAppend ==
    ASSUME queue \in Seq(Message), outbox \in Seq(Message), PipeHonest, Keeps,
           NEW msgs \in Seq(Message), AllHonest(msgs),
           queue' = queue \o msgs, outbox' = outbox
    PROVE  PipeAfter
<1>1. /\ Len(queue) \in Nat /\ Len(msgs) \in Nat /\ Len(outbox) \in Nat
      /\ DOMAIN queue = 1..Len(queue) /\ DOMAIN msgs = 1..Len(msgs)
      /\ DOMAIN outbox = 1..Len(outbox)
      /\ \A i \in 1..Len(queue) : queue[i] \in Message
      /\ \A i \in 1..Len(outbox) : outbox[i] \in Message
      /\ queue' \in Seq(Message) /\ Len(queue') = Len(queue) + Len(msgs)
  BY LenProperties, ElementOfSeq, ConcatProperties
<1>2. \A i \in 1 .. Len(queue) + Len(msgs) :
          queue'[i] = IF i <= Len(queue) THEN queue[i] ELSE msgs[i - Len(queue)]
  BY ConcatProperties, Zenon
<1> HIDE DEF Message
<1>3. ASSUME NEW i \in DOMAIN queue'
      PROVE  After(queue'[i], Before(queue', i - 1, queue'[i].c))
  <2>1. i \in 1 .. Len(queue) + Len(msgs)
    BY <1>1, LenProperties
  <2>2. CASE i <= Len(queue)
    <3>1. i \in 1..Len(queue) /\ queue'[i] = queue[i] /\ i - 1 \in 0..Len(queue)
      BY <1>1, <1>2, <2>1, <2>2
    <3>2. HonestNow(queue[i], Before(queue, i - 1, queue[i].c))
      BY <1>1, <3>1 DEF PipeHonest
    <3>3. Before(queue, i - 1, queue[i].c) \subseteq Before(queue', i - 1, queue[i].c)
      BY <3>1, BeforeJoined
    <3> QED BY <1>1, <3>1, <3>2, <3>3, Zenon DEF Keeps
  <2>3. CASE ~(i <= Len(queue))
    <3>1. PICK k : k = i - Len(queue)
      OBVIOUS
    <3>2. k \in 1..Len(msgs) /\ k - 1 \in 0..Len(msgs) /\ i - 1 = Len(queue) + (k - 1)
      BY <1>1, <2>1, <2>3, <3>1
    <3>3. queue'[i] = msgs[k]
      BY <1>2, <2>1, <2>3, <3>1
    <3>4. After(msgs[k], Before(msgs, k - 1, msgs[k].c))
      BY <1>1, <3>2 DEF AllHonest
    <3>5. Before(msgs, k - 1, msgs[k].c) \subseteq Before(queue', Len(queue) + (k - 1), msgs[k].c)
      BY <3>2, BeforeJoined
    <3> QED BY <3>2, <3>3, <3>4, <3>5, AfterGrows
  <2> QED BY <2>2, <2>3
<1>4. ASSUME NEW i \in DOMAIN outbox'
      PROVE  After(outbox'[i], Before(queue', Len(queue'), outbox'[i].c)
                                 \cup Before(outbox', i - 1, outbox'[i].c))
  <2>1. i \in 1..Len(outbox) /\ outbox'[i] = outbox[i] /\ outbox[i] \in Message
    BY <1>1
  <2>2. HonestNow(outbox[i], Before(queue, Len(queue), outbox[i].c)
                                \cup Before(outbox, i - 1, outbox[i].c))
    BY <1>1, <2>1 DEF PipeHonest
  <2>3. Before(queue, Len(queue), outbox[i].c) \subseteq Before(queue', Len(queue'), outbox[i].c)
    <3>1. Len(msgs) \in 0..Len(msgs)
      BY <1>1
    <3> QED BY <1>1, <3>1, BeforeJoined
  <2>4. Before(queue, Len(queue), outbox[i].c) \cup Before(outbox, i - 1, outbox[i].c)
           \subseteq Before(queue', Len(queue'), outbox[i].c)
                       \cup Before(outbox', i - 1, outbox[i].c)
    BY <2>3
  <2> QED BY <2>1, <2>2, <2>4, Zenon DEF Keeps
<1> QED BY <1>3, <1>4 DEF PipeAfter

\* What follows in a publish may count on all that goes before it.
LEMMA AllJoined ==
    ASSUME NEW q \in Seq(Message), NEW r \in Seq(Message), AllHonest(q),
           \A j \in DOMAIN r :
              After(r[j], Before(q, Len(q), r[j].c) \cup Before(r, j - 1, r[j].c))
    PROVE  AllHonest(q \o r)
<1> PICK joined : joined = q \o r
  OBVIOUS
<1>1. ASSUME NEW i \in DOMAIN joined
      PROVE  After(joined[i], Before(joined, i - 1, joined[i].c))
  <2>1. CASE i \in DOMAIN q /\ joined[i] = q[i] /\ i - 1 \in 0..Len(q)
    <3>1. After(q[i], Before(q, i - 1, q[i].c))
      BY <2>1 DEF AllHonest
    <3>2. Before(q, i - 1, q[i].c) \subseteq Before(joined, i - 1, q[i].c)
      BY <2>1, BeforeJoined
    <3> QED BY <2>1, <3>1, <3>2, AfterGrows
  <2>2. ASSUME NEW j \in DOMAIN r, joined[i] = r[j], i - 1 = Len(q) + (j - 1), j - 1 \in 0..Len(r)
        PROVE  After(joined[i], Before(joined, i - 1, joined[i].c))
    <3>1. PICK n \in 0..Len(r) : n = j - 1
      BY <2>2
    <3>2. After(r[j], Before(q, Len(q), r[j].c) \cup Before(r, n, r[j].c))
      BY <2>2, <3>1
    <3>3. Before(q, Len(q), r[j].c) \cup Before(r, n, r[j].c)
             \subseteq Before(joined, Len(q) + n, r[j].c)
      BY BeforeJoined, Zenon
    <3> QED BY <2>2, <3>1, <3>2, <3>3, AfterGrows
  <2> QED BY <2>1, <2>2, EachJoined
<1> QED BY <1>1 DEF AllHonest

LEMMA BeforeNothing == \A q, c : Before(q, 0, c) = {}
<1>1. 1..0 = {}
  OBVIOUS
<1> QED BY <1>1 DEF Before

\* A task publishes into an idle bus or behind a running drain.
LEMMA PipePublish ==
    ASSUME queue \in Seq(Message), outbox \in Seq(Message), PipeHonest, Keeps,
           NEW msgs \in Seq(Message), AllHonest(msgs), NEW task, PublishAll(task, msgs)
    PROVE  PipeAfter
<1>1. CASE Draining \/ msgs = <<>>
  <2>1. queue' = queue \o msgs /\ outbox' = outbox
    BY <1>1 DEF PublishAll
  <2> QED BY <2>1, PipeAppend
<1>2. CASE ~(Draining \/ msgs = <<>>)
  <2>1. queue' = <<Head(msgs)>> /\ outbox' = Tail(msgs) /\ msgs # <<>>
    BY <1>2 DEF PublishAll
  <2>2. /\ Head(msgs) = msgs[1] /\ Len(msgs) \in Nat \ {0} /\ DOMAIN msgs = 1..Len(msgs)
        /\ DOMAIN queue' = {1} /\ queue'[1] = msgs[1] /\ Len(queue') = 1
        /\ DOMAIN outbox' = 1..(Len(msgs) - 1)
        /\ \A i \in 1..(Len(msgs) - 1) : outbox'[i] = msgs[i + 1]
    BY <2>1, LenProperties, HeadTailProperties
  <2>3. ASSUME NEW i \in DOMAIN queue'
        PROVE  After(queue'[i], Before(queue', i - 1, queue'[i].c))
    <3>1. i = 1 /\ 1 \in DOMAIN msgs /\ i - 1 = 0 /\ 1 - 1 = 0
      BY <2>2
    <3>2. After(msgs[1], Before(msgs, 0, msgs[1].c))
      BY <3>1 DEF AllHonest
    <3> QED BY <2>2, <3>1, <3>2, BeforeNothing
  <2>4. ASSUME NEW i \in DOMAIN outbox'
        PROVE  After(outbox'[i], Before(queue', Len(queue'), outbox'[i].c)
                                   \cup Before(outbox', i - 1, outbox'[i].c))
    <3> DEFINE c == msgs[i + 1].c
    <3>1. i \in 1..(Len(msgs) - 1) /\ i + 1 \in DOMAIN msgs /\ outbox'[i] = msgs[i + 1]
          /\ i + 1 - 1 = i
      BY <2>2
    <3>2. After(msgs[i + 1], Before(msgs, i, c))
      BY <3>1 DEF AllHonest
    <3>3. Before(msgs, i, c) \subseteq Before(queue', Len(queue'), c) \cup Before(outbox', i - 1, c)
      <4>1. ASSUME NEW j \in 1..i
            PROVE  \/ msgs[j] = queue'[1] /\ 1 \in 1..Len(queue')
                   \/ j - 1 \in 1..(i - 1) /\ msgs[j] = outbox'[j - 1]
        BY <2>2, <3>1
      <4> HIDE DEF c
      <4> QED BY <4>1 DEF Before
    <3> QED BY <3>1, <3>2, <3>3, AfterGrows
  <2> QED BY <2>3, <2>4 DEF PipeAfter
<1> QED BY <1>1, <1>2

\* A message is dispatched; if it reports a trade, the row holds it from now on.
LEMMA PipeDispatch ==
    ASSUME queue \in Seq(Message), outbox \in Seq(Message), PipeHonest, queue # <<>>,
           \A m \in Message : \A T, U :
              HonestNow(m, T) /\ T \subseteq U \cup Reported(queue, m.c) => After(m, U),
           NEW msgs \in Seq(Message), \A i \in DOMAIN msgs : After(msgs[i], {}),
           queue' = Tail(queue) \o msgs, outbox' = outbox
    PROVE  PipeAfter
<1> DEFINE rest == Tail(queue)
<1>1. /\ rest \in Seq(Message) /\ Len(rest) = Len(queue) - 1
      /\ Len(queue) \in Nat /\ Len(queue) > 0 /\ Len(msgs) \in Nat /\ Len(outbox) \in Nat
      /\ DOMAIN queue = 1..Len(queue) /\ DOMAIN msgs = 1..Len(msgs)
      /\ DOMAIN outbox = 1..Len(outbox)
      /\ \A i \in 1..Len(queue) : queue[i] \in Message
      /\ \A i \in 1..Len(outbox) : outbox[i] \in Message
      /\ \A i \in 1..Len(rest) : rest[i] = queue[i + 1]
  BY LenProperties, ElementOfSeq, HeadTailProperties, EmptySeq
<1> HIDE DEF rest
<1>2. /\ queue' \in Seq(Message) /\ Len(queue') = Len(rest) + Len(msgs)
      /\ DOMAIN queue' = 1 .. Len(rest) + Len(msgs)
  BY <1>1, ConcatProperties, LenProperties DEF rest
<1>3. \A i \in 1 .. Len(rest) + Len(msgs) :
          queue'[i] = IF i <= Len(rest) THEN rest[i] ELSE msgs[i - Len(rest)]
  BY <1>1, ConcatProperties, Zenon DEF rest
<1>4. \A c : \A n \in 0..Len(rest) : Before(rest, n, c) \subseteq Before(queue', n, c)
  BY <1>1, BeforeJoined DEF rest
<1>5. \A c : \A n \in 0..Len(rest) :
          Before(queue, n + 1, c) \subseteq Before(rest, n, c) \cup Reported(queue, c)
  BY <1>1, BeforeTail DEF rest
<1>6. ASSUME NEW i \in DOMAIN queue'
      PROVE  After(queue'[i], Before(queue', i - 1, queue'[i].c))
  <2>1. CASE i <= Len(rest)
    <3>1. i \in 1..Len(rest) /\ i + 1 \in 1..Len(queue) /\ i - 1 \in 0..Len(rest)
          /\ i + 1 - 1 = i /\ i - 1 + 1 = i
      BY <1>1, <1>2, <2>1
    <3>2. queue'[i] = queue[i + 1] /\ queue[i + 1] \in Message
      BY <1>1, <1>2, <1>3, <2>1, <3>1
    <3> DEFINE c == queue[i + 1].c
    <3>3. HonestNow(queue[i + 1], Before(queue, i, c))
      BY <1>1, <3>1 DEF PipeHonest
    <3>4. Before(queue, i, c) \subseteq Before(queue', i - 1, c) \cup Reported(queue, c)
      BY <1>4, <1>5, <3>1
    <3> QED BY <3>2, <3>3, <3>4, Zenon
  <2>2. CASE ~(i <= Len(rest))
    <3>1. PICK k : k = i - Len(rest)
      OBVIOUS
    <3>2. k \in 1..Len(msgs) /\ queue'[i] = msgs[k]
      BY <1>1, <1>2, <1>3, <2>2, <3>1
    <3> QED BY <1>1, <3>2, AfterGrows
  <2> QED BY <2>1, <2>2
<1>7. ASSUME NEW i \in DOMAIN outbox'
      PROVE  After(outbox'[i], Before(queue', Len(queue'), outbox'[i].c)
                                 \cup Before(outbox', i - 1, outbox'[i].c))
  <2> DEFINE c == outbox[i].c
  <2>1. i \in 1..Len(outbox) /\ outbox'[i] = outbox[i] /\ outbox[i] \in Message
    BY <1>1
  <2>2. HonestNow(outbox[i], Before(queue, Len(queue), c) \cup Before(outbox, i - 1, c))
    BY <1>1, <2>1 DEF PipeHonest
  <2>3. Before(queue, Len(queue), c) \subseteq Before(rest, Len(rest), c) \cup Reported(queue, c)
    <3>1. Len(rest) \in 0..Len(rest) /\ Len(rest) + 1 = Len(queue)
      BY <1>1
    <3> QED BY <1>5, <3>1
  <2>4. Before(rest, Len(rest), c) \subseteq Before(queue', Len(queue'), c)
    <3>1. Len(msgs) \in 0..Len(msgs) /\ Len(rest) + Len(msgs) = Len(queue')
      BY <1>1, <1>2
    <3> QED BY <1>1, <3>1, BeforeJoined DEF rest
  <2>5. Before(queue, Len(queue), c) \cup Before(outbox, i - 1, c)
           \subseteq (Before(queue', Len(queue'), c) \cup Before(outbox', i - 1, c))
                       \cup Reported(queue, c)
    BY <2>3, <2>4
  <2> QED BY <2>1, <2>2, <2>5, Zenon
<1> QED BY <1>6, <1>7 DEF PipeAfter

\* The task that started the drain goes on: a mark is judged, all else published.
LEMMA PipeNext ==
    ASSUME queue = <<>>, outbox \in Seq(Message), outbox # <<>>, PipeHonest, Keeps,
           outbox' = Tail(outbox), queue' \in Seq(Message), AllHonest(queue'),
           Head(outbox).kind = "fill" => queue' = <<Head(outbox)>>
    PROVE  PipeAfter
<1>1. /\ Head(outbox) = outbox[1] /\ Len(outbox) \in Nat \ {0} /\ DOMAIN outbox = 1..Len(outbox)
      /\ DOMAIN outbox' = 1..(Len(outbox) - 1)
      /\ \A i \in 1..(Len(outbox) - 1) : outbox'[i] = outbox[i + 1]
      /\ \A i \in 1..Len(outbox) : outbox[i] \in Message
  BY LenProperties, HeadTailProperties, ElementOfSeq, EmptySeq
<1>2. \A i \in DOMAIN queue' : After(queue'[i], Before(queue', i - 1, queue'[i].c))
  BY DEF AllHonest
<1>3. ASSUME NEW i \in DOMAIN outbox'
      PROVE  After(outbox'[i], Before(queue', Len(queue'), outbox'[i].c)
                                 \cup Before(outbox', i - 1, outbox'[i].c))
  <2> DEFINE c == outbox[i + 1].c
  <2>1. i \in 1..(Len(outbox) - 1) /\ i + 1 \in DOMAIN outbox /\ outbox'[i] = outbox[i + 1]
        /\ i + 1 - 1 = i /\ outbox[i + 1] \in Message
    BY <1>1
  <2>2. HonestNow(outbox[i + 1], Before(queue, Len(queue), c) \cup Before(outbox, i, c))
    BY <2>1 DEF PipeHonest
  <2>3. Before(queue, Len(queue), c) = {}
    <3>1. Len(queue) = 0
      BY EmptySeq
    <3> QED BY <3>1, BeforeNothing
  <2>4. Before(outbox, i, c) \subseteq Before(queue', Len(queue'), c) \cup Before(outbox', i - 1, c)
    <3>1. ASSUME NEW j \in 1..i, outbox[j].kind = "fill"
          PROVE  \/ outbox[j] = queue'[1] /\ 1 \in 1..Len(queue')
                 \/ j - 1 \in 1..(i - 1) /\ outbox[j] = outbox'[j - 1]
      <4>1. CASE j = 1
        BY <1>1, <3>1, <4>1
      <4>2. CASE j # 1
        BY <1>1, <2>1, <4>2
      <4> QED BY <4>1, <4>2
    <3> HIDE DEF c
    <3> QED BY <3>1 DEF Before
  <2> QED BY <2>1, <2>2, <2>3, <2>4, Zenon DEF Keeps
<1> QED BY <1>2, <1>3 DEF PipeAfter

-------------------------------------------------------------------------------
\* What holds of one row and its order.

RowSane(row, order) ==
    /\ row.st \in {"none", "PENDING", "SUBMITTED"} => ~row.oid
    /\ row.st \notin {"PARTIALLY_FILLED", "FILLED", "CANCELLED"} => row.fills = {}
    /\ row.st = "LIVE" => row.oid
    /\ row.st = "FILLED" <=> row.cum >= Lots
    /\ row.st \in {"LIVE", "PARTIALLY_FILLED", "FILLED"} => Landed(order)

OrderSane(order) ==
    /\ order.st = "absent" => order.fills = 0 /\ ~order.rec
    /\ order.st = "open" => order.rec
    /\ order.st = "filled" <=> order.fills = Lots
    /\ order.st = "rejected" => order.fills = 0

Healed(row, order) ==
    row.st \in {"FILLED", "CANCELLED", "REJECTED"} /\ ~row.cancel /\ (order.rec \/ row.oid)
        => Cardinality(row.fills) = order.fills

\* A terminal row tells how the order ended, unless it was failed too early.
TrueEnd(row, order, sending, rash) ==
    IsTerminal(row) =>
        \/ row.st = "FAILED" /\ rash
        \/ /\ ~sending
           /\ order.st # "open"
           /\ order.rec \/ row.oid => EndedAs(row.st, order)

Fits(row, order, sending, rash) ==
    /\ RowSane(row, order) /\ OrderSane(order)
    /\ Healed(row, order) /\ TrueEnd(row, order, sending, rash)
    /\ sending => order.st = "absent"

\* A status that is honest ends a row truly.
LEMMA StatusFits ==
    ASSUME NEW row \in Saga(Lots), NEW order \in VenueOrder, NEW sending, NEW rash,
           Fits(row, order, sending, rash), Booked(row, order),
           NEW m \in Message, m.kind = "status", m.st \in StatusMoves,
           Honest(m, {}, row, order, sending, rash), MayEnter(row, m.st)
    PROVE  /\ Fits(ApplyStatus(row, m.st, m.oid), order, sending, rash)
           /\ Follows(row, ApplyStatus(row, m.st, m.oid))
<1> DEFINE next == ApplyStatus(row, m.st, m.oid)
<1>1. /\ next.st = m.st /\ next.fills = row.fills /\ next.cum = row.cum
      /\ next.cancel = row.cancel /\ next.oid = (row.oid \/ m.oid)
  BY DEF Saga, ApplyStatus
<1>2. ~IsTerminal(row) /\ row.st # "none"
  BY DEF MayEnter, LegalTransitions, IsTerminal, TerminalStates
<1>3. /\ m.st \in {"SUBMITTED", "LIVE", "CANCELLED", "REJECTED", "FAILED"}
      /\ <<row.st, m.st>> \in LegalTransitions
  BY DEF StatusMoves, MayEnter
<1>4. row.cum \in Nat /\ row.cum < Lots /\ order.fills \in 0..Lots
  <2>1. row.st # "FILLED"
    BY <1>2 DEF IsTerminal, TerminalStates
  <2> QED BY <2>1, SagaEngineAssumption DEF Fits, RowSane, Saga, VenueOrder
<1> HIDE DEF next
<1>5. Follows(row, next)
  <2>1. Past(row) => m.st # "LIVE" /\ m.st # "SUBMITTED"
    BY <1>3 DEF Past, LegalTransitions
  <2>2. Past(row) => Past(next)
    BY <1>1, <1>3, <2>1 DEF Past
  <2>3. Past(row) => IsTerminal(next)
    BY <1>1, <1>3, <2>1 DEF IsTerminal, TerminalStates
  <2> QED BY <1>1, <1>2, <1>3, <2>2, <2>3 DEF Follows
<1>6. m.st = "CANCELLED" =>
        \/ order.st = "cancelled" /\ (row.cancel \/ row.fills = 1..order.fills)
        \/ Gone(order) /\ ~next.oid
  <2> SUFFICES ASSUME m.st = "CANCELLED" PROVE \/ order.st = "cancelled" /\ (row.cancel \/ row.fills = 1..order.fills)
                                               \/ Gone(order) /\ ~next.oid
    OBVIOUS
  <2>1. row.fills \subseteq 1..order.fills
    BY DEF Booked
  <2>2. Counted(order, row, {}) => row.fills = 1..order.fills
    BY <2>1 DEF Counted
  <2>3. Counted(order, row, {}) => order.st # "filled"
    <3>1. ASSUME Counted(order, row, {}), order.st = "filled" PROVE FALSE
      <4>1. row.fills = 1..Lots
        BY <2>2, <3>1 DEF Fits, OrderSane
      <4>2. Cardinality(1..Lots) = Lots
        BY FS_Interval, SagaEngineAssumption
      <4> QED BY <1>4, <4>1, <4>2 DEF Booked
    <3> QED BY <3>1
  <2>4. Past(row) /\ ~row.oid /\ ~m.oid => ~next.oid
    BY <1>1
  <2> QED BY <1>2, <2>2, <2>3, <2>4 DEF Honest, Gone
<1>7. RowSane(next, order)
  <2>1. next.st \in {"none", "PENDING", "SUBMITTED"} => ~next.oid
    BY <1>1, <1>2, <1>3 DEF LegalTransitions, Fits, RowSane, Honest
  <2> QED BY <1>1, <1>2, <1>3, <1>4, <2>1 DEF LegalTransitions, Fits, RowSane, Honest
<1>8. OrderSane(order)
  BY DEF Fits
<1>9. IsTerminal(next) => m.st \in {"CANCELLED", "REJECTED", "FAILED"}
  BY <1>1, <1>3 DEF IsTerminal, TerminalStates
<1>10. Cardinality({}) = 0 /\ Cardinality(1..order.fills) = order.fills
  BY <1>4, FS_EmptySet, FS_Interval, SagaEngineAssumption
<1>11. m.st = "REJECTED" => /\ row.fills = {} /\ order.fills = 0
                            /\ order.st \in {"rejected", "cancelled"}
  <2> SUFFICES ASSUME m.st = "REJECTED" PROVE row.fills = {} /\ order.fills = 0
                                              /\ order.st \in {"rejected", "cancelled"}
    OBVIOUS
  <2>1. row.st \in {"SUBMITTED", "LIVE"}
    BY <1>3 DEF LegalTransitions
  <2>2. row.fills = {}
    BY <2>1 DEF Fits, RowSane
  <2>3. Counted(order, row, {}) => order.fills = 0
    BY <1>4, <2>2 DEF Counted
  <2>4. order.fills = 0 => order.st # "filled"
    BY SagaEngineAssumption DEF Fits, OrderSane
  <2> QED BY <1>2, <2>2, <2>3, <2>4 DEF Honest, Gone, Fits, OrderSane
<1>12. m.st = "FAILED" => rash \/ (~order.rec /\ ~sending)
  BY <1>2 DEF Honest
<1>13. Healed(next, order)
  <2>1. CASE m.st = "CANCELLED"
    BY <1>1, <1>6, <1>10, <2>1 DEF Healed, Gone
  <2>2. CASE m.st = "REJECTED"
    BY <1>1, <1>10, <1>11, <2>2 DEF Healed
  <2> QED BY <1>1, <1>3, <2>1, <2>2 DEF Healed
<1>14. TrueEnd(next, order, sending, rash)
  <2>1. CASE m.st = "CANCELLED"
    <3>1. EndedAs("CANCELLED", order) <=> order.st = "cancelled"
      BY DEF EndedAs
    <3>2. order.st # "open" /\ order.st # "absent"
      BY <1>6, <2>1 DEF Gone
    <3> QED BY <1>1, <1>6, <2>1, <3>1, <3>2 DEF TrueEnd, Gone, Fits
  <2>2. CASE m.st = "REJECTED"
    <3>1. EndedAs("REJECTED", order)
      BY <1>11, <2>2 DEF EndedAs
    <3> QED BY <1>1, <1>11, <2>2, <3>1 DEF TrueEnd, Fits
  <2>3. CASE m.st = "FAILED" /\ rash
    BY <1>1, <2>3 DEF TrueEnd
  <2>4. CASE m.st = "FAILED" /\ ~rash
    <3>1. EndedAs("FAILED", order)
      BY <1>12, <2>4 DEF EndedAs
    <3> QED BY <1>1, <1>12, <2>4, <3>1 DEF TrueEnd, Fits, OrderSane
  <2> QED BY <1>9, <2>1, <2>2, <2>3, <2>4 DEF TrueEnd
<1> QED BY <1>5, <1>7, <1>8, <1>13, <1>14 DEF Fits, next

\* A fill that happened ends a row only with the last lot.
LEMMA FillFits ==
    ASSUME NEW row \in Saga(Lots), NEW order \in VenueOrder, NEW sending, NEW rash,
           Fits(row, order, sending, rash), Booked(row, order), NEW t \in 1..order.fills,
           ~SeenFill(row, t), MayEnter(row, FillTarget(row, Lots))
    PROVE  /\ Fits(ApplyFill(row, t, Lots), order, sending, rash)
           /\ Follows(row, ApplyFill(row, t, Lots))
<1> DEFINE next == ApplyFill(row, t, Lots)
<1>1. /\ next.st = FillTarget(row, Lots) /\ next.fills = row.fills \cup {t}
      /\ next.cum = row.cum + 1 /\ next.cancel = row.cancel /\ next.oid = row.oid
  BY DEF Saga, ApplyFill
<1>2. Booked(next, order)
  BY FillExtends
<1>3. ~IsTerminal(row) /\ row.st # "none" /\ row.cum \in Nat /\ order.fills \in 0..Lots
  BY DEF MayEnter, LegalTransitions, IsTerminal, TerminalStates, Saga, VenueOrder
<1>4. \/ next.st = "FILLED" /\ next.cum >= Lots
      \/ next.st = "PARTIALLY_FILLED" /\ next.cum < Lots
  BY <1>1, <1>3, SagaEngineAssumption DEF FillTarget
<1> HIDE DEF next
<1>5. Landed(order) /\ ~sending
  <2>1. order.fills # 0
    BY <1>3
  <2>2. order.st # "absent" /\ order.st # "rejected"
    BY <2>1 DEF Fits, OrderSane
  <2> QED BY <2>2 DEF Landed, Fits
<1>6. Follows(row, next)
  BY <1>1, <1>3, <1>4 DEF Follows, Past
<1>7. RowSane(next, order)
  BY <1>1, <1>3, <1>4, <1>5, SagaEngineAssumption DEF RowSane
<1>8. CASE next.st = "FILLED"
  <2>1. next.fills \subseteq 1..order.fills /\ next.cum = Cardinality(next.fills)
    BY <1>2 DEF Booked
  <2>2. IsFiniteSet(1..order.fills) /\ Cardinality(1..order.fills) = order.fills
    <3>1. order.fills \in Int /\ order.fills >= 0
      BY <1>3, SagaEngineAssumption
    <3>2. IsFiniteSet(1..order.fills)
      BY <3>1, FS_Interval
    <3>3. Cardinality(1..order.fills) = IF 1 > order.fills THEN 0 ELSE order.fills - 1 + 1
      <4>1. 1 \in Int
        OBVIOUS
      <4> QED BY <3>1, <4>1, FS_Interval, Zenon
    <3>4. Cardinality(1..order.fills) = order.fills
      BY <3>1, <3>3
    <3> QED BY <3>2, <3>4
  <2>3. Cardinality(next.fills) <= order.fills
    <3>1. next.fills \in SUBSET (1..order.fills)
      BY <2>1
    <3>2. Cardinality(next.fills) <= Cardinality(1..order.fills)
      BY <2>2, <3>1, FS_Subset, Zenon
    <3> QED BY <2>2, <3>2, Zenon
  <2>4. next.cum \in Nat /\ next.cum >= Lots
    BY <1>1, <1>3, <1>4, <1>8
  <2>5. order.fills = Lots /\ Cardinality(next.fills) = Lots
    BY <1>3, <2>1, <2>3, <2>4, SagaEngineAssumption
  <2>6. order.st = "filled"
    BY <2>5 DEF Fits, OrderSane
  <2>7. Healed(next, order)
    BY <2>5 DEF Healed
  <2>8. EndedAs(next.st, order)
    BY <1>8, <2>6 DEF EndedAs
  <2>9. TrueEnd(next, order, sending, rash)
    BY <1>5, <2>6, <2>8 DEF TrueEnd
  <2> QED BY <1>6, <1>7, <2>7, <2>9 DEF Fits, next
<1>9. CASE next.st # "FILLED"
  <2>1. next.st = "PARTIALLY_FILLED" /\ ~IsTerminal(next)
    BY <1>4, <1>9 DEF IsTerminal, TerminalStates
  <2> QED BY <1>6, <1>7, <2>1 DEF Fits, Healed, TrueEnd, next
<1> QED BY <1>8, <1>9

\* A cancel request marks an open row and ends nothing.
LEMMA CancelFits ==
    ASSUME NEW row \in Saga(Lots), NEW order \in VenueOrder, NEW sending, NEW rash,
           Fits(row, order, sending, rash), MayRequestCancel(row)
    PROVE  /\ Fits(RequestCancel(row), order, sending, rash)
           /\ Follows(row, RequestCancel(row))
<1> DEFINE next == RequestCancel(row)
<1>1. /\ next.st = row.st /\ next.fills = row.fills /\ next.cum = row.cum
      /\ next.cancel /\ next.oid = row.oid
  BY DEF Saga, RequestCancel
<1>2. ~IsTerminal(row)
  BY DEF MayRequestCancel
<1> HIDE DEF next
<1>3. ~IsTerminal(next)
  BY <1>1, <1>2 DEF IsTerminal
<1>4. Follows(row, next)
  BY <1>1, <1>2 DEF Follows, Past
<1>5. RowSane(next, order)
  BY <1>1 DEF Fits, RowSane
<1> QED BY <1>1, <1>3, <1>4, <1>5 DEF Fits, Healed, TrueEnd, next

\* The rows of an order the manager has just met, and their send.
LEMMA NewFits ==
    ASSUME NEW order \in VenueOrder, OrderSane(order), order.st = "absent"
    PROVE  /\ \A sending, rash : /\ Fits(NewOrder, order, sending, rash)
                                 /\ Fits(Submitted, order, sending, rash)
           /\ \A rash : Fits(Denied, order, FALSE, rash)
           /\ Follows(NoSaga, NewOrder) /\ Follows(NoSaga, Submitted) /\ Follows(NoSaga, Denied)
           /\ Follows(NewOrder, Submitted)
<1>1. /\ NoSaga.st = "none" /\ NoSaga.fills = {} /\ ~NoSaga.cancel /\ ~NoSaga.oid
  BY DEF NoSaga
<1>2. /\ NewOrder.st = "PENDING" /\ NewOrder.fills = {} /\ NewOrder.cum = 0
      /\ ~NewOrder.cancel /\ ~NewOrder.oid
  BY DEF NoSaga, NewOrder
<1>3. /\ Submitted.st = "SUBMITTED" /\ Submitted.fills = {} /\ Submitted.cum = 0
      /\ ~Submitted.cancel /\ ~Submitted.oid
  BY DEF NoSaga, NewOrder, ApplyStatus, Submitted
<1>4. /\ Denied.st = "DENIED" /\ Denied.fills = {} /\ Denied.cum = 0
      /\ ~Denied.cancel /\ ~Denied.oid
  BY DEF NoSaga, NewOrder, ApplyStatus, Denied
<1>5. ~(0 >= Lots)
  BY SagaEngineAssumption
<1>6. EndedAs("DENIED", order)
  BY DEF EndedAs
<1>7. ASSUME NEW sending, NEW rash
      PROVE  Fits(NewOrder, order, sending, rash) /\ Fits(Submitted, order, sending, rash)
  BY <1>2, <1>3, <1>5 DEF Fits, RowSane, Healed, TrueEnd, IsTerminal, TerminalStates
<1>8. ASSUME NEW rash PROVE Fits(Denied, order, FALSE, rash)
  BY <1>4, <1>5, <1>6 DEF Fits, RowSane, Healed, TrueEnd
<1>9. /\ Follows(NoSaga, NewOrder) /\ Follows(NoSaga, Submitted) /\ Follows(NoSaga, Denied)
      /\ Follows(NewOrder, Submitted)
  BY <1>1, <1>2, <1>3, <1>4 DEF Follows, Past, IsTerminal, TerminalStates
<1> QED BY <1>7, <1>8, <1>9

\* What the venue may do to an order, and what it leaves true.
LEMMA VenueFits ==
    ASSUME NEW row, NEW order \in VenueOrder, NEW next \in VenueOrder, NEW sending, NEW sending2,
           NEW rash, Fits(row, order, sending, rash), sending2 => sending,
           Booked(row, order), row \in Saga(Lots),
           \/ next = order
           \/ /\ sending /\ ~sending2 /\ next.rec
              /\ \/ next.st = "open" /\ next.fills < Lots
                 \/ next.st = "filled" /\ next.fills = Lots
                 \/ next.st = "rejected" /\ next.fills = 0
           \/ /\ order.st = "open" /\ next.rec = order.rec /\ next.fills = order.fills + 1
              /\ next.st = IF order.fills + 1 = Lots THEN "filled" ELSE "open"
           \/ /\ order.st = "open" /\ next.rec = order.rec /\ next.fills = order.fills
              /\ next.st = "cancelled"
           \/ /\ order.st \in {"filled", "cancelled", "rejected"} /\ ~next.rec
              /\ next.st = order.st /\ next.fills = order.fills
    PROVE  Fits(row, next, sending2, rash) /\ Goes(order, next, sending)
<1>1. order.fills \in 0..Lots /\ next.fills \in 0..Lots /\ Lots \in Nat \ {0}
  BY SagaEngineAssumption DEF VenueOrder
<1>2. CASE next = order
  BY <1>2 DEF Fits, TrueEnd, Goes
<1>3. CASE /\ sending /\ ~sending2 /\ next.rec
           /\ \/ next.st = "open" /\ next.fills < Lots
              \/ next.st = "filled" /\ next.fills = Lots
              \/ next.st = "rejected" /\ next.fills = 0
  <2>1. /\ order.st = "absent" /\ ~Landed(order)
        /\ IsTerminal(row) => row.st = "FAILED" /\ rash
    BY <1>3 DEF Fits, TrueEnd, Landed
  <2>2. Goes(order, next, sending)
    BY <1>3, <2>1 DEF Goes, Gone
  <2>3. OrderSane(next)
    BY <1>1, <1>3 DEF OrderSane
  <2>4. RowSane(row, next)
    BY <2>1 DEF Fits, RowSane
  <2>5. Healed(row, next) /\ TrueEnd(row, next, sending2, rash)
    BY <2>1 DEF Healed, TrueEnd, IsTerminal, TerminalStates
  <2> QED BY <1>3, <2>2, <2>3, <2>4, <2>5 DEF Fits
<1>4. CASE /\ order.st = "open" /\ next.rec = order.rec
           /\ \/ /\ next.fills = order.fills + 1
                 /\ next.st = IF order.fills + 1 = Lots THEN "filled" ELSE "open"
              \/ next.fills = order.fills /\ next.st = "cancelled"
  <2>1. /\ order.rec /\ ~sending /\ ~sending2 /\ Landed(next) /\ order.fills < Lots
        /\ IsTerminal(row) => row.st = "FAILED" /\ rash
    BY <1>1, <1>4 DEF Fits, TrueEnd, Landed, OrderSane
  <2>2. Goes(order, next, sending)
    BY <1>4, <2>1 DEF Goes, Gone
  <2>3. OrderSane(next)
    BY <1>1, <1>4, <2>1 DEF OrderSane
  <2>4. RowSane(row, next)
    BY <2>1 DEF Fits, RowSane
  <2>5. Healed(row, next) /\ TrueEnd(row, next, sending2, rash)
    BY <2>1 DEF Healed, TrueEnd, IsTerminal, TerminalStates
  <2> QED BY <2>1, <2>2, <2>3, <2>4, <2>5 DEF Fits
<1>5. CASE /\ order.st \in {"filled", "cancelled", "rejected"} /\ ~next.rec
           /\ next.st = order.st /\ next.fills = order.fills
  <2>1. ~sending /\ ~sending2
    BY <1>5 DEF Fits
  <2>2. Goes(order, next, sending)
    BY <1>5, <2>1 DEF Goes, Gone, Landed
  <2>3. OrderSane(next) /\ RowSane(row, next)
    BY <1>5 DEF Fits, OrderSane, RowSane, Landed
  <2>4. Healed(row, next)
    <3>1. order.rec \/ row.oid => Healed(row, next)
      BY <1>5 DEF Fits, Healed
    <3>2. ~row.oid => Healed(row, next)
      BY <1>5 DEF Healed
    <3> QED BY <3>1, <3>2
  <2>5. TrueEnd(row, next, sending2, rash)
    <3> SUFFICES ASSUME IsTerminal(row), ~(row.st = "FAILED" /\ rash), next.rec \/ row.oid
                 PROVE  EndedAs(row.st, next)
      BY <1>5, <2>1 DEF TrueEnd
    <3>1. EndedAs(row.st, order)
      BY <1>5 DEF Fits, TrueEnd
    <3> QED BY <1>5, <3>1 DEF EndedAs, IsTerminal, TerminalStates
  <2> QED BY <2>1, <2>2, <2>3, <2>4, <2>5 DEF Fits
<1> QED BY <1>2, <1>3, <1>4, <1>5

-------------------------------------------------------------------------------
\* The invariant.

Rows == \A c \in Cloids : Fits(store[c], venue[c], Sending(c), Hasty(c))

\* An answer on its way back says what the venue did.
Replied ==
    /\ handler = Idle => reply = "none"
    /\ \A c \in Cloids :
        /\ handler = [at |-> "place", c |-> c] =>
              /\ reply \in {"resting", "filled"} => Landed(venue[c])
              /\ reply = "rejected" => venue[c].st = "rejected"
        /\ handler = [at |-> "cancel", c |-> c] =>
              /\ store[c].cancel
              /\ reply = "cancelled" => venue[c].st = "cancelled"

\* What a read may still say when it is answered.  sure: an absence would end the
\* in-flight budget, if it has one to end, and no placement was racing the read;
\* grace: the ghost clock runs.
Seen(d, view, row, order, sending, sure, grace) ==
    /\ row.st # "none"
    /\ view.st # "none" => view.history
    /\ view.st = "LIVE" => Landed(order)
    /\ view.st = "CANCELLED" => order.st = "cancelled" /\ view.fills = order.fills
    /\ view.st = "REJECTED" => order.st = "rejected"
    /\ view.st = "none" /\ view.history => Gone(order) /\ view.fills = order.fills
    /\ view.st = "none" /\ ~view.history =>
          /\ view.fills = 0
          /\ sure => ~sending /\ ~order.rec
          /\ \/ d = "inflight"
             \/ Past(row) /\ (~row.oid \/ IsTerminal(row)) /\ ~sending /\ ~order.rec
             \/ d = "startup" /\ ~grace

Sure(d) == (d # "inflight" \/ misses[reads[d].c] + 1 >= MissLimit) /\ ~reads[d].racing

SeenNow(d) ==
    LET c == reads[d].c
    IN  Seen(d, reads[d].view, store[c], venue[c], Sending(c), Sure(d), armed[c])

Reading ==
    /\ \A d \in Cadences : reads[d] # NoRead =>
          /\ SeenNow(d)
          /\ phase = IF d = "startup" THEN "starting" ELSE "up"
    /\ \A c \in Cloids : armed[c] => Past(store[c])

\* Only a cadence leaves something to publish behind a drain, and none does while
\* the startup pass reads.
Drains ==
    /\ reads["startup"] # NoRead => outbox = <<>>
    /\ drainer = "feed" => outbox = <<>>
    /\ phase # "up" => drainer \in {"feed", "startup"}

VInv == PipeHonest /\ Rows /\ Replied /\ Reading /\ Drains

\* Every row and every order moves as Follows and Goes allow.
World ==
    \A c \in Cloids :
        /\ Follows(store[c], store'[c])
        /\ Goes(venue[c], venue'[c], Sending(c))
        /\ <<"place", c>> \in wire' => Sending(c) \/ store[c].st = "none"
        /\ Hasty(c) => c \in hasty'

LEMMA WorldKeeps ==
    ASSUME World
    PROVE  /\ Keeps
           /\ \A m \in Message : \A T, U :
                 HonestNow(m, T) /\ T \subseteq U \cup store'[m.c].fills => After(m, U)
<1>1. ASSUME NEW m \in Message, NEW T, NEW U, HonestNow(m, T), T \subseteq U \cup store'[m.c].fills
      PROVE  After(m, U)
  <2>1. m.c \in Cloids
    BY DEF Message
  <2>2. /\ Follows(store[m.c], store'[m.c]) /\ Goes(venue[m.c], venue'[m.c], Sending(m.c))
        /\ <<"place", m.c>> \in wire' => Sending(m.c) \/ store[m.c].st = "none"
        /\ Hasty(m.c) => m.c \in hasty'
    BY <2>1 DEF World
  <2>3. PICK row, row2, order, order2 : /\ row = store[m.c] /\ row2 = store'[m.c]
                                        /\ order = venue[m.c] /\ order2 = venue'[m.c]
    OBVIOUS
  <2>4. PICK sending \in BOOLEAN, sending2 \in BOOLEAN, rash \in BOOLEAN, rash2 \in BOOLEAN :
           /\ (sending <=> Sending(m.c)) /\ (sending2 <=> <<"place", m.c>> \in wire')
           /\ (rash <=> Hasty(m.c)) /\ (rash2 <=> m.c \in hasty')
    OBVIOUS
  <2>5. Honest(m, T, row, order, sending, rash)
    BY <1>1, <2>3, <2>4 DEF HonestNow, Honest
  <2>6. /\ Follows(row, row2) /\ Goes(order, order2, sending)
        /\ (sending2 => sending \/ row.st = "none") /\ (rash => rash2)
    BY <2>2, <2>3, <2>4 DEF Goes
  <2>7. Honest(m, U, row2, order2, sending2, rash2)
    BY <1>1, <2>3, <2>5, <2>6, HonestStays
  <2> QED BY <2>3, <2>4, <2>7 DEF After, Honest
<1>2. Keeps
  BY <1>1 DEF Keeps
<1> QED BY <1>1, <1>2

LEMMA SeenStays ==
    ASSUME NEW d, NEW view, NEW row, NEW row2, NEW order, NEW order2, NEW sending, NEW sending2,
           NEW sure, NEW grace, Seen(d, view, row, order, sending, sure, grace),
           Follows(row, row2), Goes(order, order2, sending), sending2 => sending \/ row.st = "none"
    PROVE  Seen(d, view, row2, order2, sending2, sure, grace)
<1>1. Gone(order) => Gone(order2) /\ order2.fills = order.fills
  BY DEF Gone, Goes
<1>2. Past(row) /\ (~row.oid \/ IsTerminal(row)) => Past(row2) /\ (~row2.oid \/ IsTerminal(row2))
  BY DEF Follows
<1>3. row2.st # "none"
  BY DEF Seen, Follows
<1>4. view.st = "none" /\ ~view.history =>
         /\ view.fills = 0
         /\ sure => ~sending2 /\ ~order2.rec
         /\ \/ d = "inflight"
            \/ Past(row2) /\ (~row2.oid \/ IsTerminal(row2)) /\ ~sending2 /\ ~order2.rec
            \/ d = "startup" /\ ~grace
  BY <1>2 DEF Seen, Goes
<1> QED BY <1>1, <1>3, <1>4 DEF Seen, Goes

LEMMA ReadsKept ==
    ASSUME IInv, Reading, World, UNCHANGED <<reads, misses, armed, phase>>
    PROVE  Reading'
<1>1. ASSUME NEW d \in Cadences, reads[d] # NoRead
      PROVE  SeenNow(d)' /\ phase = IF d = "startup" THEN "starting" ELSE "up"
  <2>1. PICK c \in Cloids : c = reads[d].c
    BY <1>1 DEF IInv, TypeOK
  <2>2. Seen(d, reads[d].view, store[c], venue[c], Sending(c), Sure(d), armed[c])
    BY <1>1, <2>1 DEF Reading, SeenNow
  <2>3. /\ Follows(store[c], store'[c]) /\ Goes(venue[c], venue'[c], Sending(c))
        /\ Sending(c)' => Sending(c) \/ store[c].st = "none"
    BY <2>1 DEF World, Sending
  <2>4. Seen(d, reads[d].view, store'[c], venue'[c], Sending(c)', Sure(d), armed[c])
    BY <2>2, <2>3, SeenStays, Zenon
  <2>5. SeenNow(d)'
    BY <2>1, <2>4 DEF SeenNow, Sure
  <2> QED BY <1>1, <2>5 DEF Reading
<1>2. \A c \in Cloids : armed[c] => Past(store'[c])
  BY DEF Reading, World, Follows
<1> QED BY <1>1, <1>2 DEF Reading

LEMMA PipeKept ==
    ASSUME IInv, PipeHonest, Keeps, PipeAfter,
           delivered' \subseteq delivered \cup (IF queue # <<>> THEN {Head(queue)} ELSE {})
    PROVE  PipeHonest'
<1>1. ASSUME NEW m \in delivered' PROVE After(m, {})
  <2>1. m \in Message
    BY Queues DEF IInv, TypeOK, Traffic, Mail
  <2>2. HonestNow(m, {})
    <3>1. CASE m \in delivered
      BY <3>1 DEF PipeHonest
    <3>2. CASE queue # <<>> /\ m = Head(queue)
      <4>1. Head(queue) = queue[1] /\ 1 \in DOMAIN queue /\ 1 - 1 = 0
        BY <3>2, EmptySeq, LenProperties DEF IInv, TypeOK
      <4> QED BY <3>2, <4>1, BeforeNothing DEF PipeHonest
    <3> QED BY <3>1, <3>2
  <2> QED BY <2>1, <2>2 DEF Keeps
<1>2. \A m, T : After(m, T) <=> HonestNow(m, T)'
  BY Zenon DEF After, HonestNow, Sending, Hasty
<1> HIDE DEF After
<1> QED BY <1>1, <1>2, Zenon DEF PipeAfter, PipeHonest

-------------------------------------------------------------------------------
\* Every step keeps the invariant.

\* A step that leaves rows, venue and wire alone moves the world nowhere.
LEMMA WorldStands ==
    ASSUME UNCHANGED <<store, venue, wire>>, hasty \subseteq hasty'
    PROVE  World
BY DEF World, Follows, Goes, Past, Sending, Hasty

LEMMA RowsStand ==
    ASSUME VInv, UNCHANGED <<store, venue, wire>>, hasty \subseteq hasty'
    PROVE  Rows'
<1>1. ASSUME NEW c \in Cloids PROVE Fits(store[c], venue[c], Sending(c), Hasty(c)')
  <2>1. Fits(store[c], venue[c], Sending(c), Hasty(c)) /\ (Hasty(c) => Hasty(c)')
    BY DEF VInv, Rows, Hasty
  <2> QED BY <2>1 DEF Fits, TrueEnd
<1> QED BY <1>1 DEF Rows, Sending

\* What it leaves besides.
LEMMA StandsKept ==
    ASSUME IInv, VInv, UNCHANGED <<store, venue, wire, handler, reply>>,
           hasty \subseteq hasty'
    PROVE  World /\ Keeps /\ Rows' /\ Replied'
<1>1. World /\ Keeps
  BY WorldStands, WorldKeeps
<1>2. Rows'
  BY RowsStand
<1>3. Replied'
  BY DEF VInv, Replied
<1> QED BY <1>1, <1>2, <1>3

\* What messages say.
Says(m, c, st) == m.kind = "status" /\ m.c = c /\ m.st = st

LEMMA Fields ==
    ASSUME NEW c
    PROVE  /\ PlaceSignal(c).kind = "place" /\ CancelSignal(c).kind = "cancel"
           /\ JudgeGhost(c).kind = "judge" /\ JudgeGhost(c).c = c
           /\ \A t : /\ FillReport(c, t).kind = "fill" /\ FillReport(c, t).c = c
                   /\ FillReport(c, t).t = t
           /\ \A st, t : OrderEvent(c, st, t).kind = "event"
<1>1. /\ PlaceSignal(c).kind = "place" /\ CancelSignal(c).kind = "cancel"
      /\ JudgeGhost(c).kind = "judge" /\ JudgeGhost(c).c = c
  BY DEF PlaceSignal, CancelSignal, JudgeGhost, Bare
<1>2. \A t : /\ FillReport(c, t).kind = "fill" /\ FillReport(c, t).c = c
            /\ FillReport(c, t).t = t
  BY DEF FillReport, Bare
<1>3. \A st, t : OrderEvent(c, st, t).kind = "event"
  BY DEF OrderEvent, Bare
<1> QED BY <1>1, <1>2, <1>3

LEMMA StatusFields ==
    ASSUME NEW c, NEW st
    PROVE  /\ Says(Status(c, st, TRUE), c, st) /\ Status(c, st, TRUE).oid
           /\ Says(Status(c, st, FALSE), c, st) /\ ~Status(c, st, FALSE).oid
BY DEF Status, Bare, Says

LEMMA SignalsHonest ==
    ASSUME NEW m, m.kind \notin {"status", "judge"}, NEW T
    PROVE  After(m, T)
BY DEF After, Honest

LEMMA OneHonest ==
    ASSUME NEW m, After(m, {})
    PROVE  AllHonest(<<m>>)
<1>1. DOMAIN <<m>> = {1} /\ <<m>>[1] = m
  OBVIOUS
<1> QED BY <1>1, AfterGrows DEF AllHonest

\* A signal, new or again.
LEMMA SignalKeeps ==
    ASSUME IInv, VInv, NEW m \in Message, After(m, {}), PublishAll("feed", <<m>>),
           UNCHANGED <<store, venue, wire, hasty, handler, reply, phase, misses, armed, reads,
                       delivered>>
    PROVE  VInv'
<1>1. World /\ Keeps /\ Rows' /\ Replied'
  BY StandsKept
<1>2. PipeAfter
  <2>1. queue \in Seq(Message) /\ outbox \in Seq(Message) /\ <<m>> \in Seq(Message)
    BY DEF IInv, TypeOK
  <2> QED BY <1>1, <2>1, OneHonest, PipePublish DEF VInv
<1>3. PipeHonest'
  BY <1>1, <1>2, PipeKept DEF VInv
<1>4. Reading'
  BY <1>1, ReadsKept DEF VInv
<1>5. Drains'
  <2>1. Tail(<<m>>) = <<>>
    OBVIOUS
  <2> QED BY <2>1 DEF VInv, Drains, PublishAll
<1> QED BY <1>1, <1>3, <1>4, <1>5 DEF VInv

LEMMA EmitKeeps ==
    ASSUME IInv, VInv, NEW c \in Cloids, EmitPlace(c) \/ EmitCancel(c)
    PROVE  VInv'
<1>1. PICK m \in {PlaceSignal(c), CancelSignal(c)} : Emit(m)
  BY DEF EmitPlace, EmitCancel
<1>2. m \in Message /\ m.kind \notin {"status", "judge"}
  <2>1. m \in Message
    BY MailTyped DEF Mail
  <2>2. m.kind \in {"place", "cancel"}
    BY Fields
  <2> QED BY <2>1, <2>2
<1>3. After(m, {})
  BY <1>2, SignalsHonest
<1> QED BY <1>1, <1>2, <1>3, SignalKeeps DEF Emit, reconciler

LEMMA RedeliverKeeps ==
    ASSUME IInv, VInv, NEW m \in delivered, Redeliver(m)
    PROVE  VInv'
<1>1. m \in Message
  BY DEF IInv, TypeOK
<1>2. UNCHANGED <<store, venue, wire, hasty, handler, reply, phase, misses, armed, reads, delivered>>
  BY DEF Redeliver, reconciler, history
<1>3. After(m, {})
  <2>1. HonestNow(m, {})
    BY DEF VInv, PipeHonest
  <2>2. Keeps
    BY <1>2, StandsKept
  <2> QED BY <1>1, <2>1, <2>2 DEF Keeps
<1> QED BY <1>1, <1>2, <1>3, SignalKeeps DEF Redeliver

\* A dispatch that reports no trade, or one that the row holds behind it.
LEMMA DispatchKeeps ==
    ASSUME IInv, VInv, NEW kind, Dispatching(kind), World, Rows',
           NEW msgs \in Seq(Message), \A i \in DOMAIN msgs : After(msgs[i], {}),
           queue' = Tail(queue) \o msgs,
           Head(queue).kind = "fill" => Head(queue).t \in store'[Head(queue).c].fills,
           UNCHANGED <<outbox, drainer, phase, misses, armed, reads>>
    PROVE  PipeHonest' /\ Reading' /\ Drains'
<1>1. /\ queue \in Seq(Message) /\ outbox \in Seq(Message) /\ queue # <<>>
      /\ delivered' \subseteq delivered \cup {Head(queue)}
  BY DEF Dispatching, IInv, TypeOK
<1>2. \A m \in Message : \A T, U :
         HonestNow(m, T) /\ T \subseteq U \cup Reported(queue, m.c) => After(m, U)
  <2>1. \A m \in Message : Reported(queue, m.c) \subseteq store'[m.c].fills
    BY DEF Reported
  <2>2. \A m \in Message : \A T, U :
           HonestNow(m, T) /\ T \subseteq U \cup store'[m.c].fills => After(m, U)
    BY WorldKeeps
  <2>3. ASSUME NEW m \in Message, NEW T, NEW U, HonestNow(m, T),
               T \subseteq U \cup Reported(queue, m.c)
        PROVE  After(m, U)
    <3>1. T \subseteq U \cup store'[m.c].fills
      BY <2>1, <2>3
    <3> QED BY <2>2, <2>3, <3>1
  <2> QED BY <2>3
<1>3. PipeAfter
  BY <1>1, <1>2, PipeDispatch DEF VInv
<1>4. PipeHonest'
  BY <1>1, <1>3, WorldKeeps, PipeKept DEF VInv
<1>5. Reading'
  BY ReadsKept DEF VInv
<1>6. Drains'
  BY DEF VInv, Drains
<1> QED BY <1>4, <1>5, <1>6

LEMMA TailJoined ==
    ASSUME NEW q \in Seq(Message), q # <<>>, NEW m \in Message
    PROVE  Tail(q) = Tail(q) \o <<>> /\ Append(Tail(q), m) = Tail(q) \o <<m>>
BY HeadTailProperties, ConcatEmptySeq, AppendIsConcat

LEMMA HandleEventKeeps ==
    ASSUME IInv, VInv, HandleEvent
    PROVE  VInv'
<1> DEFINE cancel == CancelSignal(Head(queue).c)
<1>1. /\ cancel \in Message /\ cancel.kind \notin {"status", "judge"}
      /\ queue \in Seq(Message) /\ queue # <<>> /\ Head(queue).kind = "event"
      /\ UNCHANGED <<store, venue, wire, hasty, handler, reply, outbox, drainer, phase, misses, armed,
                     reads>>
  BY Dispatched, MailTyped DEF HandleEvent, Mail, CancelSignal, Bare, Dispatching, reconciler, IInv,
     TypeOK
<1> HIDE DEF cancel
<1>2. PICK msgs \in {<<>>, <<cancel>>} : queue' = Tail(queue) \o msgs
  <2>1. queue' = Tail(queue) \/ queue' = Append(Tail(queue), cancel)
    BY DEF HandleEvent, cancel
  <2> QED BY <1>1, <2>1, TailJoined
<1>3. msgs \in Seq(Message) /\ \A i \in DOMAIN msgs : After(msgs[i], {})
  <2>1. After(cancel, {}) /\ <<cancel>> \in Seq(Message) /\ <<>> \in Seq(Message)
    BY <1>1, SignalsHonest
  <2>2. DOMAIN <<cancel>> = {1} /\ <<cancel>>[1] = cancel /\ DOMAIN <<>> = {}
    OBVIOUS
  <2> QED BY <2>1, <2>2
<1>4. World /\ Rows' /\ Replied'
  BY <1>1, StandsKept
<1>5. Dispatching("event")
  BY DEF HandleEvent
<1>6. PipeHonest' /\ Reading' /\ Drains'
  BY <1>1, <1>2, <1>3, <1>4, <1>5, DispatchKeeps
<1> QED BY <1>4, <1>6 DEF VInv

\* A step that moves one row along.
LEMMA RowMoves ==
    ASSUME IInv, VInv, NEW c \in Cloids, NEW order,
           Fits(order, venue[c], <<"place", c>> \in wire', c \in hasty'), Follows(store[c], order),
           store' = [store EXCEPT ![c] = order], UNCHANGED venue,
           \A d \in Cloids \ {c} : <<"place", d>> \in wire' <=> Sending(d),
           <<"place", c>> \in wire' => Sending(c) \/ store[c].st = "none",
           hasty \subseteq hasty'
    PROVE  World /\ Rows'
<1>1. /\ store'[c] = order /\ \A d \in Cloids \ {c} : store'[d] = store[d]
      /\ \A d \in Cloids : venue'[d] = venue[d]
  BY DEF IInv, TypeOK
<1>2. \A row : Follows(row, row)
  BY DEF Follows
<1>3. World
  <2>1. \A d \in Cloids : Follows(store[d], store'[d])
    BY <1>1, <1>2
  <2>2. \A d \in Cloids : Goes(venue[d], venue'[d], Sending(d))
    BY <1>1 DEF Goes
  <2>3. \A d \in Cloids : <<"place", d>> \in wire' => Sending(d) \/ store[d].st = "none"
    OBVIOUS
  <2>4. \A d \in Cloids : Hasty(d) => d \in hasty'
    BY DEF Hasty
  <2> QED BY <2>1, <2>2, <2>3, <2>4 DEF World
<1>4. ASSUME NEW d \in Cloids PROVE Fits(store'[d], venue'[d], <<"place", d>> \in wire', d \in hasty')
  <2>1. CASE d = c
    BY <1>1, <2>1
  <2>2. CASE d # c
    <3>1. Fits(store[d], venue[d], Sending(d), Hasty(d))
      BY DEF VInv, Rows
    <3>2. Hasty(d) => d \in hasty'
      BY DEF Hasty
    <3> QED BY <1>1, <2>2, <3>1, <3>2 DEF Fits, TrueEnd
  <2> QED BY <2>1, <2>2
<1> QED BY <1>3, <1>4 DEF Rows, Sending, Hasty

LEMMA IdleReplied ==
    ASSUME VInv, handler = Idle, UNCHANGED <<handler, reply>>
    PROVE  Replied'
BY DEF VInv, Replied, Idle

\* A stop empties the bus and ends the reads.
LEMMA StopKeeps ==
    ASSUME IInv, VInv, Stop, UNCHANGED <<store, venue, wire, hasty>>,
           delivered' \subseteq delivered \cup (IF queue # <<>> THEN {Head(queue)} ELSE {})
    PROVE  VInv'
<1>1. World /\ Keeps
  BY WorldStands, WorldKeeps
<1>2. Rows'
  BY RowsStand
<1>3. PipeAfter
  BY DEF Stop, PipeAfter
<1>4. PipeHonest'
  BY <1>1, <1>3, PipeKept DEF VInv
<1>5. Replied'
  BY DEF Stop, Replied, Idle
<1>6. Reading' /\ Drains'
  BY DEF Stop, Reading, Drains, Cadences
<1> QED BY <1>2, <1>4, <1>5, <1>6 DEF VInv

\* A dispatch that changes nothing.
LEMMA DispatchIgnored ==
    ASSUME IInv, VInv, NEW kind, Dispatching(kind), queue' = Tail(queue),
           Head(queue).kind = "fill" => Head(queue).t \in store[Head(queue).c].fills,
           UNCHANGED <<store, venue, wire, hasty, handler, reply, outbox, drainer, phase,
                       misses, armed, reads>>
    PROVE  VInv'
<1>1. queue \in Seq(Message) /\ queue # <<>>
  BY DEF Dispatching, IInv, TypeOK
<1>2. <<>> \in Seq(Message) /\ queue' = Tail(queue) \o <<>>
      /\ \A i \in DOMAIN <<>> : After(<<>>[i], {})
  BY <1>1, HeadTailProperties, ConcatEmptySeq
<1>3. World /\ Rows' /\ Replied'
  BY StandsKept
<1>4. PipeHonest' /\ Reading' /\ Drains'
  BY <1>2, <1>3, DispatchKeeps
<1> QED BY <1>3, <1>4 DEF VInv

\* A dispatch that moves one row along and announces it.
LEMMA DispatchCommits ==
    ASSUME IInv, VInv, NEW kind, Dispatching(kind), NEW c \in Cloids, NEW order,
           Fits(order, venue[c], Sending(c), Hasty(c)), Follows(store[c], order),
           store' = [store EXCEPT ![c] = order],
           NEW event \in Message, event.kind = "event", queue' = Append(Tail(queue), event),
           Head(queue).kind = "fill" => Head(queue).c = c /\ Head(queue).t \in order.fills,
           UNCHANGED <<venue, wire, hasty, handler, reply, outbox, drainer, phase, misses, armed,
                       reads>>
    PROVE  VInv'
<1>1. queue \in Seq(Message) /\ queue # <<>> /\ handler = Idle
  BY DEF Dispatching, IInv, TypeOK
<1>2. \A d \in Cloids : <<"place", d>> \in wire' <=> Sending(d)
  BY DEF Sending
<1>3. Fits(order, venue[c], <<"place", c>> \in wire', c \in hasty')
  BY <1>2 DEF Fits, TrueEnd, Hasty
<1>4. World /\ Rows'
  BY <1>2, <1>3, RowMoves
<1>5. /\ <<event>> \in Seq(Message) /\ queue' = Tail(queue) \o <<event>>
      /\ DOMAIN <<event>> = {1} /\ <<event>>[1] = event
  BY <1>1, TailJoined
<1>6. \A i \in DOMAIN <<event>> : After(<<event>>[i], {})
  BY <1>5, SignalsHonest
<1>7. Head(queue).kind = "fill" => Head(queue).t \in store'[Head(queue).c].fills
  BY DEF IInv, TypeOK
<1>8. PipeHonest' /\ Reading' /\ Drains'
  BY <1>4, <1>5, <1>6, <1>7, DispatchKeeps
<1>9. Replied'
  BY <1>1, IdleReplied
<1> QED BY <1>4, <1>8, <1>9 DEF VInv

LEMMA HandleStatusKeeps ==
    ASSUME IInv, VInv, HandleStatus
    PROVE  VInv'
<1> DEFINE m == Head(queue)
           order == cache[m.c]
           next == ApplyStatus(order, m.st, m.oid)
           ignored == ~IsOpen(order) \/ m.st \notin StatusMoves \/ SeenStatus(order, m.st)
<1>1. /\ m.c \in Cloids /\ m \in Message /\ m.kind = "status" /\ phase # "down" /\ handler = Idle
      /\ queue \in Seq(Message) /\ queue # <<>> /\ Dispatching("status")
      /\ delivered' \subseteq delivered \cup {m}
  BY Dispatched DEF HandleStatus, Dispatching, IInv, TypeOK
<1>2. order = store[m.c] /\ order \in Saga(Lots) /\ venue[m.c] \in VenueOrder
  BY <1>1, IdleMemory DEF IInv, TypeOK
<1>3. CASE ignored /\ queue' = Tail(queue)
           /\ UNCHANGED <<store, cache, venue, wire, handler, reply, outbox,
                          drainer, phase, reconciler, history, bounds>>
  BY <1>1, <1>3, DispatchIgnored DEF reconciler, history
<1>4. CASE ~ignored /\ MayEnter(order, m.st)
           /\ Commit(m.c, next, m.st, 0)
           /\ UNCHANGED <<venue, wire, handler, reply, outbox, drainer, phase,
                          reconciler, asked, sends, hasty, fault, bounds>>
  <2>1. Fits(order, venue[m.c], Sending(m.c), Hasty(m.c)) /\ Booked(order, venue[m.c])
    BY <1>1, <1>2 DEF VInv, Rows, IInv, BookedOnce, Booked
  <2>2. HonestNow(m, {})
    <3>1. m = queue[1] /\ 1 \in DOMAIN queue /\ 1 - 1 = 0
      BY <1>1, EmptySeq, LenProperties
    <3> QED BY <3>1, BeforeNothing DEF VInv, PipeHonest
  <2>3. PICK sending \in BOOLEAN, rash \in BOOLEAN :
           (sending <=> Sending(m.c)) /\ (rash <=> Hasty(m.c))
    OBVIOUS
  <2>4. Fits(order, venue[m.c], sending, rash) /\ Honest(m, {}, order, venue[m.c], sending, rash)
    BY <1>2, <2>1, <2>2, <2>3 DEF Fits, TrueEnd, HonestNow, Honest
  <2> DEFINE event == OrderEvent(m.c, m.st, 0)
  <2>5. event \in Message /\ event.kind = "event"
    BY <1>1, <1>4, MessagesTyped, SagaEngineAssumption DEF StatusMoves, OrderStates
  <2>6. /\ store' = [store EXCEPT ![m.c] = next] /\ queue' = Append(Tail(queue), event)
        /\ UNCHANGED <<venue, wire, hasty, handler, reply, outbox, drainer, phase, misses, armed,
                       reads>>
    BY <1>4 DEF Commit, Checkpointed, reconciler
  <2> HIDE DEF order, m, event
  <2>7. Fits(next, venue[m.c], sending, rash) /\ Follows(order, next)
    BY <1>1, <1>2, <1>4, <2>1, <2>4, StatusFits
  <2> HIDE DEF next
  <2>8. Fits(next, venue[m.c], Sending(m.c), Hasty(m.c))
    BY <2>3, <2>7 DEF Fits, TrueEnd
  <2> QED BY <1>1, <1>2, <2>5, <2>6, <2>7, <2>8, DispatchCommits DEF m
<1>5. CASE ~ignored /\ Fault(order, m.st)
  BY <1>1, <1>5, StopKeeps DEF Fault
<1> QED BY <1>3, <1>4, <1>5, Zenon DEF HandleStatus

LEMMA HandleFillKeeps ==
    ASSUME IInv, VInv, HandleFill
    PROVE  VInv'
<1> DEFINE m == Head(queue)
           order == cache[m.c]
           target == FillTarget(order, Lots)
           next == ApplyFill(order, m.t, Lots)
           ignored == ~Known(m.c) \/ SeenFill(order, m.t)
<1>1. /\ m.c \in Cloids /\ m \in Message /\ m.kind = "fill" /\ phase # "down" /\ handler = Idle
      /\ queue # <<>> /\ Dispatching("fill") /\ m.t \in 1..venue[m.c].fills
      /\ delivered' \subseteq delivered \cup {m}
  BY Dispatched DEF HandleFill, Dispatching, Mail
<1>2. order = store[m.c] /\ order \in Saga(Lots) /\ venue[m.c] \in VenueOrder
  BY <1>1, IdleMemory DEF IInv, TypeOK
<1>3. CASE ignored /\ queue' = Tail(queue)
           /\ UNCHANGED <<store, cache, venue, wire, handler, reply, outbox,
                          drainer, phase, reconciler, history, bounds>>
  <2>1. Known(m.c)
    <3>1. store[m.c] = NoSaga => venue[m.c].fills = 0
      BY <1>1, UnknownUnsent DEF IInv, VenueSound
    <3> QED BY <1>1, <1>2, <3>1 DEF Known
  <2>2. m.t \in store[m.c].fills
    BY <1>2, <1>3, <2>1 DEF SeenFill
  <2> QED BY <1>1, <1>3, <2>2, DispatchIgnored DEF reconciler, history
<1>4. CASE ~ignored /\ MayEnter(order, target)
           /\ Commit(m.c, next, target, m.t)
           /\ UNCHANGED <<venue, wire, handler, reply, outbox, drainer, phase,
                          reconciler, asked, sends, hasty, fault, bounds>>
  <2>1. Fits(order, venue[m.c], Sending(m.c), Hasty(m.c)) /\ Booked(order, venue[m.c])
    BY <1>1, <1>2 DEF VInv, Rows, IInv, BookedOnce, Booked
  <2>2. PICK sending \in BOOLEAN, rash \in BOOLEAN :
           (sending <=> Sending(m.c)) /\ (rash <=> Hasty(m.c))
    OBVIOUS
  <2>3. Fits(order, venue[m.c], sending, rash)
    BY <2>1, <2>2 DEF Fits, TrueEnd
  <2> DEFINE event == OrderEvent(m.c, target, m.t)
  <2>4. event \in Message /\ event.kind = "event"
    <3>1. target \in OrderStates /\ m.t \in 0..Lots
      BY <1>1, <1>2, SagasTyped DEF Message
    <3> QED BY <1>1, <3>1, MessagesTyped
  <2>5. /\ store' = [store EXCEPT ![m.c] = next] /\ queue' = Append(Tail(queue), event)
        /\ UNCHANGED <<venue, wire, hasty, handler, reply, outbox, drainer, phase, misses, armed,
                       reads>>
    BY <1>4 DEF Commit, Checkpointed, reconciler
  <2>6. m.t \in next.fills
    BY <1>1, <1>2, <1>4, <2>1, FillExtends
  <2> HIDE DEF order, m, event
  <2>7. Fits(next, venue[m.c], sending, rash) /\ Follows(order, next)
    BY <1>1, <1>2, <1>4, <2>1, <2>3, FillFits
  <2> HIDE DEF next
  <2>8. Fits(next, venue[m.c], Sending(m.c), Hasty(m.c))
    BY <2>2, <2>7 DEF Fits, TrueEnd
  <2> QED BY <1>1, <1>2, <2>4, <2>5, <2>6, <2>7, <2>8, DispatchCommits DEF m
<1>5. CASE ~ignored /\ Fault(order, target)
  BY <1>1, <1>5, StopKeeps DEF Fault
<1> QED BY <1>3, <1>4, <1>5, Zenon DEF HandleFill

LEMMA HandlePlaceKeeps ==
    ASSUME IInv, VInv, HandlePlace
    PROVE  VInv'
<1> DEFINE c == Head(queue).c
<1>1. /\ c \in Cloids /\ Head(queue).kind = "place" /\ phase # "down" /\ handler = Idle
      /\ queue \in Seq(Message) /\ queue # <<>> /\ Dispatching("place")
      /\ UNCHANGED <<venue, hasty, reply, outbox, drainer, phase, misses, armed, reads>>
  BY Dispatched DEF HandlePlace, Dispatching, reconciler, IInv, TypeOK
<1>2. cache[c] = store[c] /\ venue[c] \in VenueOrder
  BY <1>1, IdleMemory DEF IInv, TypeOK
<1>3. CASE PlaceKnown(c)
  BY <1>1, <1>3, DispatchIgnored DEF PlaceKnown
<1>4. ASSUME ~Known(c)
      PROVE  /\ store[c] = NoSaga /\ store[c].st = "none" /\ venue[c].st = "absent"
             /\ ~venue[c].rec /\ ~Sending(c)
             /\ Follows(store[c], NewOrder) /\ Follows(store[c], Submitted)
             /\ Follows(store[c], Denied)
             /\ \A sending, rash : /\ Fits(NewOrder, venue[c], sending, rash)
                                   /\ Fits(Submitted, venue[c], sending, rash)
             /\ \A rash : Fits(Denied, venue[c], FALSE, rash)
  <2>1. store[c] = NoSaga /\ store[c].st = "none"
    BY <1>2, <1>4, NewRows DEF Known
  <2>2. venue[c].st = "absent" /\ ~Sending(c) /\ ~venue[c].rec
    BY <1>1, <2>1, UnknownUnsent DEF IInv, Sent, VenueSound, Sending
  <2>3. OrderSane(venue[c])
    BY <1>1 DEF VInv, Rows, Fits
  <2> QED BY <1>2, <2>1, <2>2, <2>3, NewFits
<1> DEFINE placed == Placed(c)
<1>5. /\ placed \in Seq(Message) /\ Len(placed) = 2 /\ DOMAIN placed = 1..2
      /\ \A i \in 1..2 : placed[i].kind = "event"
  <2>1. PICK e1 : e1 = OrderEvent(c, "PENDING", 0)
    OBVIOUS
  <2>2. PICK e2 : e2 = OrderEvent(c, "SUBMITTED", 0)
    OBVIOUS
  <2>3. /\ e1 \in Message /\ e2 \in Message /\ e1.kind = "event" /\ e2.kind = "event"
    BY <1>1, <2>1, <2>2, MessagesTyped, StatesNamed, SagaEngineAssumption
  <2>4. placed = <<e1, e2>>
    BY <2>1, <2>2 DEF Placed
  <2> HIDE DEF placed
  <2> QED BY <2>3, <2>4
<1> HIDE DEF placed
<1>6. CASE PlaceDenied(c)
  <2>1. /\ store' = [store EXCEPT ![c] = Denied] /\ UNCHANGED <<wire, handler>>
        /\ queue' = Append(Tail(queue), OrderEvent(c, "DENIED", 0)) /\ ~Known(c)
    BY <1>6 DEF PlaceDenied, Commit, Checkpointed, Denied
  <2> DEFINE event == OrderEvent(c, "DENIED", 0)
  <2>2. event \in Message /\ event.kind = "event"
    BY <1>1, MessagesTyped, StatesNamed, SagaEngineAssumption
  <2>3. Fits(Denied, venue[c], Sending(c), Hasty(c))
    BY <1>4, <2>1 DEF Fits, TrueEnd
  <2> HIDE DEF event, c
  <2> QED BY <1>1, <1>4, <2>1, <2>2, <2>3, DispatchCommits DEF event
<1>7. CASE PlaceUnpriced(c)
  <2> DEFINE failed == Status(c, "FAILED", FALSE)
             msgs == placed \o <<failed>>
  <2>1. /\ store' = [store EXCEPT ![c] = Submitted] /\ UNCHANGED <<wire, handler>> /\ ~Known(c)
        /\ queue' = Tail(queue) \o placed \o <<failed>>
    BY <1>7 DEF PlaceUnpriced, Checkpointed, Submitted, placed
  <2>2. /\ failed \in Message /\ failed.kind = "status" /\ failed.c = c /\ failed.st = "FAILED"
    <3>1. failed \in Mail
      BY <1>1, MailTyped, StatesNamed, Zenon
    <3>2. failed \in Message
      BY <3>1 DEF Mail
    <3>3. Says(failed, c, "FAILED")
      BY StatusFields
    <3> QED BY <3>2, <3>3 DEF Says
  <2> HIDE DEF failed
  <2>3. \A d \in Cloids : <<"place", d>> \in wire' <=> Sending(d)
    BY <2>1 DEF Sending
  <2>4. Fits(Submitted, venue[c], <<"place", c>> \in wire', c \in hasty')
    BY <1>4, <2>1 DEF Fits, TrueEnd
  <2>5. World /\ Rows'
    BY <1>1, <1>4, <2>1, <2>3, <2>4, RowMoves
  <2>6. After(failed, {})
    <3>1. store'[c].st = "SUBMITTED"
      BY <1>1, <2>1, NewRows DEF IInv, TypeOK
    <3> QED BY <1>1, <1>4, <2>1, <2>2, <2>3, <3>1 DEF After, Honest
  <2>7. /\ msgs \in Seq(Message) /\ queue' = Tail(queue) \o msgs
    <3>1. Tail(queue) \in Seq(Message) /\ <<failed>> \in Seq(Message)
      BY <1>1, <2>2
    <3>2. Tail(queue) \o placed \o <<failed>> = Tail(queue) \o msgs
      BY <1>5, <3>1, ConcatAssociative
    <3> QED BY <1>5, <2>1, <3>1, <3>2, ConcatProperties
  <2>8. \A i \in DOMAIN msgs : After(msgs[i], {})
    <3>1. <<failed>> \in Seq(Message) /\ DOMAIN <<failed>> = {1} /\ <<failed>>[1] = failed
      BY <2>2
    <3>2. \A i \in DOMAIN msgs : (\E j \in 1..2 : msgs[i] = placed[j]) \/ msgs[i] = failed
      BY <1>5, <3>1, EachJoined
    <3> QED BY <1>5, <2>6, <3>2, SignalsHonest
  <2> HIDE DEF msgs
  <2>9. PipeHonest' /\ Reading' /\ Drains'
    BY <1>1, <2>5, <2>7, <2>8, DispatchKeeps
  <2>10. Replied'
    BY <1>1, <2>1, IdleReplied
  <2> QED BY <2>5, <2>9, <2>10 DEF VInv
<1>8. CASE PlaceSent(c)
  <2>1. /\ store' = [store EXCEPT ![c] = NewOrder] /\ ~Known(c)
        /\ wire' = wire \cup {<<"place", c>>} /\ handler' = [at |-> "place", c |-> c]
        /\ queue' = Tail(queue) \o placed
    BY <1>8 DEF PlaceSent, WriteAhead, Checkpointed, placed
  <2>2. \A d \in Cloids \ {c} : <<"place", d>> \in wire' <=> Sending(d)
    BY <2>1 DEF Sending
  <2>3. Fits(NewOrder, venue[c], <<"place", c>> \in wire', c \in hasty')
    BY <1>4, <2>1 DEF Fits, TrueEnd
  <2>4. World /\ Rows'
    BY <1>1, <1>4, <2>1, <2>2, <2>3, RowMoves
  <2>5. \A i \in DOMAIN placed : After(placed[i], {})
    BY <1>5, SignalsHonest
  <2>6. PipeHonest' /\ Reading' /\ Drains'
    BY <1>1, <1>5, <2>1, <2>4, <2>5, DispatchKeeps
  <2>7. Replied'
    <3>1. reply' = "none"
      BY <1>1 DEF VInv, Replied
    <3> QED BY <2>1, <3>1 DEF Replied, Idle
  <2> QED BY <2>4, <2>6, <2>7 DEF VInv
<1> QED BY <1>3, <1>6, <1>7, <1>8 DEF HandlePlace

LEMMA HandleCancelKeeps ==
    ASSUME IInv, VInv, HandleCancel
    PROVE  VInv'
<1> DEFINE c == Head(queue).c
           order == RequestCancel(cache[c])
<1>1. /\ c \in Cloids /\ Head(queue).kind = "cancel" /\ phase # "down" /\ handler = Idle
      /\ queue \in Seq(Message) /\ queue # <<>> /\ Dispatching("cancel") /\ queue' = Tail(queue)
      /\ UNCHANGED <<venue, hasty, reply, outbox, drainer, phase, misses, armed, reads>>
  BY Dispatched DEF HandleCancel, Dispatching, reconciler, history, IInv, TypeOK
<1>2. /\ cache[c] = store[c] /\ store[c] \in Saga(Lots) /\ venue[c] \in VenueOrder
      /\ store \in [Cloids -> Saga(Lots)]
  BY <1>1, IdleMemory DEF IInv, TypeOK
<1>3. CASE ~(Known(c) /\ MayRequestCancel(cache[c]))
  BY <1>1, <1>3, DispatchIgnored DEF HandleCancel
<1>4. CASE Known(c) /\ MayRequestCancel(cache[c])
  <2>1. /\ store' = [store EXCEPT ![c] = order]
        /\ wire' = wire \cup {<<"cancel", c>>}
        /\ handler' = [at |-> "cancel", c |-> c]
    BY <1>4 DEF HandleCancel, Checkpointed
  <2>2. \A d \in Cloids : <<"place", d>> \in wire' <=> Sending(d)
    BY <2>1 DEF Sending
  <2>3. PICK sending \in BOOLEAN, rash \in BOOLEAN :
           (sending <=> Sending(c)) /\ (rash <=> Hasty(c))
    OBVIOUS
  <2>4. Fits(store[c], venue[c], sending, rash)
    BY <1>1, <2>3 DEF VInv, Rows, Fits, TrueEnd
  <2>5. Fits(order, venue[c], sending, rash) /\ Follows(store[c], order) /\ order.cancel
    BY <1>2, <1>4, <2>4, CancelFits, CancelExtends
  <2> HIDE DEF order
  <2>6. Fits(order, venue[c], <<"place", c>> \in wire', c \in hasty')
    BY <1>1, <2>2, <2>3, <2>5 DEF Fits, TrueEnd, Hasty
  <2>7. World /\ Rows'
    BY <1>1, <2>1, <2>2, <2>5, <2>6, RowMoves
  <2>8. <<>> \in Seq(Message) /\ queue' = Tail(queue) \o <<>>
        /\ \A i \in DOMAIN <<>> : After(<<>>[i], {})
    BY <1>1, HeadTailProperties, ConcatEmptySeq
  <2>9. PipeHonest' /\ Reading' /\ Drains'
    BY <1>1, <2>7, <2>8, DispatchKeeps
  <2>10. Replied'
    <3>1. reply' = "none" /\ store'[c].cancel
      BY <1>1, <1>2, <2>1, <2>5 DEF VInv, Replied
    <3> QED BY <2>1, <3>1 DEF Replied, Idle
  <2> QED BY <2>7, <2>9, <2>10 DEF VInv
<1> QED BY <1>3, <1>4

\* A handler resumes on its answer: the checkpoint after the send moves one row.
LEMMA ResumeKeeps ==
    ASSUME IInv, VInv, NEW c \in Cloids, NEW msgs \in Seq(Message),
           NEW next \in {Idle, [at |-> "fills", c |-> c]},
           handler \in [at : {"place", "fills", "cancel"}, c : {c}],
           handler.at # "place" => next = Idle,
           Resume(c, msgs, next),
           \A i \in DOMAIN msgs : After(msgs[i], {})
    PROVE  VInv'
<1>1. /\ UNCHANGED <<venue, wire, hasty, outbox, drainer, phase, misses, armed, reads, delivered>>
      /\ handler' = next /\ reply' = "none" /\ queue' = queue \o msgs
      /\ store' = AfterSend(c, next)
  BY DEF Resume, reconciler, history
<1>2. \A d \in Cloids : \/ store'[d] = store[d]
                        \/ d = c /\ store[d] = NewOrder /\ store'[d] = Submitted
  BY <1>1, AfterSendMoves
<1>3. /\ NewOrder.st = "PENDING" /\ NewOrder.fills = {} /\ NewOrder.cum = 0
      /\ ~NewOrder.cancel /\ ~NewOrder.oid
  BY DEF NoSaga, NewOrder
<1>4. /\ Submitted.st = "SUBMITTED" /\ Submitted.fills = {} /\ Submitted.cum = 0
      /\ ~Submitted.cancel /\ ~Submitted.oid
  BY DEF NoSaga, NewOrder, ApplyStatus, Submitted
<1>5. Follows(NewOrder, Submitted) /\ \A row : Follows(row, row)
  BY <1>3, <1>4 DEF Follows, Past, IsTerminal, TerminalStates
<1>6. World
  <2>1. \A d \in Cloids : Follows(store[d], store'[d])
    BY <1>2, <1>5
  <2> QED BY <1>1, <2>1 DEF World, Goes, Sending, Hasty
<1>7. Rows'
  <2>1. ASSUME NEW d \in Cloids PROVE Fits(store'[d], venue[d], Sending(d), Hasty(d))
    <3>1. Fits(store[d], venue[d], Sending(d), Hasty(d))
      BY DEF VInv, Rows
    <3>2. ASSUME store[d] = NewOrder, store'[d] = Submitted
          PROVE  Fits(store'[d], venue[d], Sending(d), Hasty(d))
      BY <1>3, <1>4, <3>1, <3>2, SagaEngineAssumption
         DEF Fits, RowSane, Healed, TrueEnd, IsTerminal, TerminalStates
    <3> QED BY <1>2, <3>1, <3>2
  <2> QED BY <1>1, <2>1 DEF Rows, Sending, Hasty
<1>8. PipeHonest'
  <2>1. queue \in Seq(Message) /\ outbox \in Seq(Message)
    BY DEF IInv, TypeOK
  <2>2. AllHonest(msgs)
    BY AfterGrows DEF AllHonest
  <2>3. Keeps
    BY <1>6, WorldKeeps
  <2>4. PipeAfter
    BY <1>1, <2>1, <2>2, <2>3, PipeAppend DEF VInv
  <2> QED BY <1>1, <2>3, <2>4, PipeKept DEF VInv
<1>9. Replied'
  BY <1>1 DEF Replied, Idle
<1>10. Reading' /\ Drains'
  BY <1>1, <1>6, ReadsKept DEF VInv, Drains
<1> QED BY <1>7, <1>8, <1>9, <1>10 DEF VInv

\* One status a handler publishes.
LEMMA StatusAlone ==
    ASSUME NEW c \in Cloids, NEW st \in {"LIVE", "CANCELLED", "REJECTED", "FAILED"},
           NEW oid \in BOOLEAN, After(Status(c, st, oid), {})
    PROVE  LET msgs == <<Status(c, st, oid)>>
           IN  msgs \in Seq(Message) /\ \A i \in DOMAIN msgs : After(msgs[i], {})
<1> DEFINE m == Status(c, st, oid)
<1>1. m \in Message
  BY MessagesTyped DEF OrderStates
<1> HIDE DEF m
<1>2. <<m>> \in Seq(Message) /\ DOMAIN <<m>> = {1} /\ <<m>>[1] = m
  BY <1>1
<1> QED BY <1>2 DEF m

LEMMA FillReportsHonest ==
    ASSUME NEW c \in Cloids, NEW n \in 0..Lots
    PROVE  /\ FillReports(c, n) \in Seq(Message) /\ Len(FillReports(c, n)) = n
           /\ \A i \in DOMAIN FillReports(c, n) : After(FillReports(c, n)[i], {})
           /\ 1..n \subseteq Before(FillReports(c, n), n, c)
<1>1. n \in Nat /\ \A t \in 1..n : t \in 0..Lots /\ t \in 1..Lots
  BY SagaEngineAssumption
<1>2. \A t \in 1..n : FillReport(c, t) \in Message
  BY <1>1, MessagesTyped
<1>3. /\ DOMAIN FillReports(c, n) = 1..n
      /\ \A t \in 1..n : FillReports(c, n)[t] = FillReport(c, t)
  BY DEF FillReports
<1>4. FillReports(c, n) \in Seq(Message)
  BY <1>1, <1>2 DEF FillReports
<1>5. Len(FillReports(c, n)) = n
  BY <1>1, <1>3, <1>4, LenProperties
<1>6. \A i \in DOMAIN FillReports(c, n) : After(FillReports(c, n)[i], {})
  <2>1. PICK q : q = FillReports(c, n)
    OBVIOUS
  <2>2. ASSUME NEW t \in 1..n PROVE q[t].kind = "fill"
    <3>1. q[t] = FillReport(c, t)
      BY <1>3, <2>1
    <3> QED BY <3>1, Fields
  <2>3. \A t \in 1..n : After(q[t], {})
    BY <2>2, SignalsHonest
  <2> QED BY <1>3, <2>1, <2>3
<1>7. 1..n \subseteq Before(FillReports(c, n), n, c)
  <2>1. PICK q : q = FillReports(c, n)
    OBVIOUS
  <2>2. \A t \in 1..n : q[t].kind = "fill" /\ q[t].c = c /\ q[t].t = t
    BY <1>3, <2>1, Fields
  <2> QED BY <1>1, <2>1, <2>2 DEF Before
<1> QED BY <1>4, <1>5, <1>6, <1>7

LEMMA AdapterKeeps ==
    ASSUME IInv, VInv, NEW c \in Cloids,
           PlaceAnswered(c) \/ PlaceFillsRead(c) \/ CancelAnswered(c) \/ Unanswered(c)
    PROVE  VInv'
<1>1. TRUE \in BOOLEAN /\ FALSE \in BOOLEAN /\ <<>> \in Seq(Message)
      /\ \A i \in DOMAIN <<>> : After(<<>>[i], {})
  OBVIOUS
<1>2. CASE PlaceAnswered(c)
  <2>1. handler = [at |-> "place", c |-> c] /\ venue' = venue
    BY <1>2 DEF PlaceAnswered, Resume
  <2>2. CASE reply \in {"resting", "filled"}
    <3>1. PICK next \in {Idle, [at |-> "fills", c |-> c]} : Resume(c, <<Status(c, "LIVE", TRUE)>>, next)
      BY <1>2, <2>2 DEF PlaceAnswered
    <3>2. Landed(venue[c])
      BY <2>1, <2>2 DEF VInv, Replied
    <3>3. After(Status(c, "LIVE", TRUE), {})
      <4>1. PICK m : m = Status(c, "LIVE", TRUE)
        OBVIOUS
      <4>2. Says(m, c, "LIVE") /\ m.oid
        BY <4>1, StatusFields, Zenon
      <4> QED BY <2>1, <3>2, <4>1, <4>2 DEF After, Honest, Says
    <3>4. LET msgs == <<Status(c, "LIVE", TRUE)>>
          IN  msgs \in Seq(Message) /\ \A i \in DOMAIN msgs : After(msgs[i], {})
      BY <1>1, <3>3, StatusAlone
    <3> QED BY <2>1, <3>1, <3>4, ResumeKeeps
  <2>3. CASE reply = "rejected"
    <3>1. Resume(c, <<Status(c, "REJECTED", FALSE)>>, Idle)
      BY <1>2, <2>3 DEF PlaceAnswered
    <3>2. venue[c].st = "rejected"
      BY <2>1, <2>3 DEF VInv, Replied
    <3>3. After(Status(c, "REJECTED", FALSE), {})
      <4>1. PICK m : m = Status(c, "REJECTED", FALSE)
        OBVIOUS
      <4>2. Says(m, c, "REJECTED") /\ ~m.oid
        BY <4>1, StatusFields, Zenon
      <4> QED BY <2>1, <3>2, <4>1, <4>2 DEF After, Honest, Says
    <3>4. LET msgs == <<Status(c, "REJECTED", FALSE)>>
          IN  msgs \in Seq(Message) /\ \A i \in DOMAIN msgs : After(msgs[i], {})
      BY <1>1, <3>3, StatusAlone
    <3> QED BY <2>1, <3>1, <3>4, ResumeKeeps
  <2>4. CASE reply = "refused"
    <3>1. Resume(c, <<>>, Idle)
      BY <1>2, <2>4 DEF PlaceAnswered
    <3> QED BY <1>1, <2>1, <3>1, ResumeKeeps
  <2> QED BY <1>2, <2>2, <2>3, <2>4 DEF PlaceAnswered
<1>3. CASE PlaceFillsRead(c)
  <2>1. handler = [at |-> "fills", c |-> c]
    BY <1>3 DEF PlaceFillsRead
  <2>2. PICK n \in 0..venue[c].fills : Resume(c, FillReports(c, n), Idle)
    BY <1>3 DEF PlaceFillsRead
  <2>3. n \in 0..Lots
    BY SagaEngineAssumption DEF IInv, TypeOK, VenueOrder
  <2> QED BY <2>1, <2>2, <2>3, FillReportsHonest, ResumeKeeps
<1>4. CASE CancelAnswered(c)
  <2>1. handler = [at |-> "cancel", c |-> c]
    BY <1>4 DEF CancelAnswered
  <2>2. CASE reply = "cancelled"
    <3>1. Resume(c, <<Status(c, "CANCELLED", FALSE)>>, Idle)
      BY <1>4, <2>2 DEF CancelAnswered
    <3>2. venue[c].st = "cancelled" /\ store[c].cancel /\ UNCHANGED <<store, venue>>
      BY <2>1, <2>2, <3>1 DEF VInv, Replied, Resume, AfterSend
    <3>3. After(Status(c, "CANCELLED", FALSE), {})
      <4>1. PICK m : m = Status(c, "CANCELLED", FALSE)
        OBVIOUS
      <4>2. Says(m, c, "CANCELLED") /\ ~m.oid
        BY <4>1, StatusFields, Zenon
      <4> QED BY <3>2, <4>1, <4>2 DEF After, Honest, Says
    <3>4. LET msgs == <<Status(c, "CANCELLED", FALSE)>>
          IN  msgs \in Seq(Message) /\ \A i \in DOMAIN msgs : After(msgs[i], {})
      BY <1>1, <3>3, StatusAlone
    <3> QED BY <2>1, <3>1, <3>4, ResumeKeeps
  <2>3. CASE reply = "gone"
    <3>1. Resume(c, <<>>, Idle)
      BY <1>4, <2>3 DEF CancelAnswered
    <3> QED BY <1>1, <2>1, <3>1, ResumeKeeps
  <2> QED BY <1>4, <2>2, <2>3 DEF CancelAnswered
<1>5. CASE Unanswered(c)
  <2>1. handler.at \in {"place", "cancel"} /\ handler.c = c /\ Resume(c, <<>>, Idle)
    BY <1>5 DEF Unanswered
  <2>2. handler \in [at : {"place", "fills", "cancel"}, c : {c}]
    BY <2>1 DEF IInv, TypeOK, Idle
  <2> QED BY <1>1, <2>1, <2>2, ResumeKeeps
<1> QED BY <1>2, <1>3, <1>4, <1>5

\* What a venue step does to one order and its request.
LEMMA VenueDoes ==
    ASSUME IInv, NEW c \in Cloids,
           \/ VenueTakesPlace(c) \/ VenueTakesCancel(c)
           \/ \E op \in {"place", "cancel"} : WireLoses(op, c)
           \/ VenueFills(c) \/ VenueCancels(c) \/ VenueForgets(c)
    PROVE  /\ \A d \in Cloids \ {c} : venue'[d] = venue[d] /\ (<<"place", d>> \in wire' <=> Sending(d))
           /\ <<"place", c>> \in wire' => Sending(c)
           /\ LET order == venue[c]
                  next == venue'[c]
              IN  \/ next = order
                  \/ /\ Sending(c) /\ <<"place", c>> \notin wire' /\ next.rec
                     /\ \/ next.st = "open" /\ next.fills < Lots
                        \/ next.st = "filled" /\ next.fills = Lots
                        \/ next.st = "rejected" /\ next.fills = 0
                  \/ /\ order.st = "open" /\ next.rec = order.rec /\ next.fills = order.fills + 1
                     /\ next.st = IF order.fills + 1 = Lots THEN "filled" ELSE "open"
                  \/ /\ order.st = "open" /\ next.rec = order.rec /\ next.fills = order.fills
                     /\ next.st = "cancelled"
                  \/ /\ order.st \in {"filled", "cancelled", "rejected"} /\ ~next.rec
                     /\ next.st = order.st /\ next.fills = order.fills
           /\ \/ UNCHANGED reply
              \/ handler = [at |-> "place", c |-> c] /\ reply' = "refused"
              \/ handler = [at |-> "place", c |-> c] /\ reply' = "rejected" /\ venue'[c].st = "rejected"
              \/ /\ handler = [at |-> "place", c |-> c] /\ reply' \in {"resting", "filled"}
                 /\ venue'[c].st \in {"open", "filled"}
              \/ handler = [at |-> "cancel", c |-> c] /\ reply' = "gone"
              \/ handler = [at |-> "cancel", c |-> c] /\ reply' = "cancelled" /\ venue'[c].st = "cancelled"
<1>1. venue \in [Cloids -> VenueOrder] /\ venue[c] \in VenueOrder
  BY DEF IInv, TypeOK
<1>2. CASE VenueTakesPlace(c)
  <2>1. /\ Sending(c) /\ <<"place", c>> \notin wire'
        /\ \A d \in Cloids \ {c} : venue'[d] = venue[d] /\ (<<"place", d>> \in wire' <=> Sending(d))
    BY <1>1, <1>2 DEF VenueTakesPlace, Sending
  <2>2. \/ venue'[c] = venue[c] /\ Answer("place", c, "refused")
        \/ /\ venue'[c].st = "open" /\ venue'[c].fills \in 0..(Lots - 1) /\ venue'[c].rec
           /\ Answer("place", c, "resting")
        \/ /\ venue'[c].st = "filled" /\ venue'[c].fills = Lots /\ venue'[c].rec
           /\ Answer("place", c, "filled")
        \/ /\ venue'[c].st = "rejected" /\ venue'[c].fills = 0 /\ venue'[c].rec
           /\ Answer("place", c, "rejected")
    BY <1>1, <1>2 DEF VenueTakesPlace
  <2>3. \A n \in 0..(Lots - 1) : n < Lots
    BY SagaEngineAssumption
  <2> QED BY <2>1, <2>2, <2>3 DEF Answer
<1>3. CASE VenueTakesCancel(c)
  <2>1. /\ \A d \in Cloids \ {c} : venue'[d] = venue[d]
        /\ \A d \in Cloids : <<"place", d>> \in wire' <=> Sending(d)
    BY <1>1, <1>3 DEF VenueTakesCancel, Sending
  <2>2. \/ venue'[c] = venue[c] /\ Answer("cancel", c, "gone")
        \/ /\ venue[c].st = "open" /\ venue'[c].st = "cancelled"
           /\ venue'[c].rec = venue[c].rec /\ venue'[c].fills = venue[c].fills
           /\ Answer("cancel", c, "cancelled")
    BY <1>1, <1>3 DEF VenueTakesCancel, VenueOrder
  <2> QED BY <2>1, <2>2 DEF Answer
<1>4. CASE \E op \in {"place", "cancel"} : WireLoses(op, c)
  BY <1>1, <1>4 DEF WireLoses, Sending
<1>5. CASE VenueFills(c)
  BY <1>1, <1>5 DEF VenueFills, Sending, VenueOrder
<1>6. CASE VenueCancels(c)
  BY <1>1, <1>6 DEF VenueCancels, Sending, VenueOrder
<1>7. CASE VenueForgets(c)
  BY <1>1, <1>7 DEF VenueForgets, Sending, VenueOrder
<1> QED BY <1>2, <1>3, <1>4, <1>5, <1>6, <1>7

LEMMA VenueKeeps ==
    ASSUME IInv, VInv, NEW c \in Cloids,
           \/ VenueTakesPlace(c) \/ VenueTakesCancel(c)
           \/ \E op \in {"place", "cancel"} : WireLoses(op, c)
           \/ VenueFills(c) \/ VenueCancels(c) \/ VenueForgets(c)
    PROVE  VInv'
<1>1. VenueUnchanged
  BY DEF VenueTakesPlace, VenueTakesCancel, WireLoses, VenueFills, VenueCancels, VenueForgets
<1>2. UNCHANGED <<store, hasty, handler, queue, outbox, drainer, phase, misses, armed, reads, delivered>>
  BY <1>1 DEF VenueUnchanged, bus, reconciler, history
<1>3. /\ venue \in [Cloids -> VenueOrder] /\ venue' \in [Cloids -> VenueOrder]
      /\ store \in [Cloids -> Saga(Lots)]
  BY VenueGrows DEF IInv, TypeOK
<1>4. /\ Fits(store[c], venue'[c], <<"place", c>> \in wire', c \in hasty')
      /\ Goes(venue[c], venue'[c], Sending(c))
  <2>1. Fits(store[c], venue[c], Sending(c), Hasty(c)) /\ Booked(store[c], venue[c])
    BY DEF VInv, Rows, IInv, BookedOnce, Booked
  <2>2. PICK order \in VenueOrder, next \in VenueOrder : order = venue[c] /\ next = venue'[c]
    BY <1>3
  <2>3. PICK sending \in BOOLEAN, sending2 \in BOOLEAN, rash \in BOOLEAN :
           /\ (sending <=> Sending(c)) /\ (sending2 <=> <<"place", c>> \in wire')
           /\ (rash <=> Hasty(c))
    OBVIOUS
  <2>4. /\ Fits(store[c], order, sending, rash) /\ Booked(store[c], order) /\ store[c] \in Saga(Lots)
        /\ sending2 => sending
    BY <1>3, <2>1, <2>2, <2>3, VenueDoes DEF Fits, TrueEnd
  <2>5. \/ next = order
        \/ /\ sending /\ ~sending2 /\ next.rec
           /\ \/ next.st = "open" /\ next.fills < Lots
              \/ next.st = "filled" /\ next.fills = Lots
              \/ next.st = "rejected" /\ next.fills = 0
        \/ /\ order.st = "open" /\ next.rec = order.rec /\ next.fills = order.fills + 1
           /\ next.st = IF order.fills + 1 = Lots THEN "filled" ELSE "open"
        \/ /\ order.st = "open" /\ next.rec = order.rec /\ next.fills = order.fills
           /\ next.st = "cancelled"
        \/ /\ order.st \in {"filled", "cancelled", "rejected"} /\ ~next.rec
           /\ next.st = order.st /\ next.fills = order.fills
    BY <2>2, <2>3, VenueDoes
  <2>6. Fits(store[c], next, sending2, rash) /\ Goes(order, next, sending)
    BY <2>4, <2>5, VenueFits
  <2>7. rash <=> c \in hasty'
    BY <1>2, <2>3 DEF Hasty
  <2> QED BY <2>2, <2>3, <2>6, <2>7 DEF Fits, TrueEnd, Goes
<1>5. ASSUME NEW d \in Cloids \ {c}
      PROVE  /\ venue'[d] = venue[d] /\ (<<"place", d>> \in wire' <=> Sending(d))
             /\ Goes(venue[d], venue'[d], Sending(d))
  BY VenueDoes DEF Goes
<1>6. World
  <2>1. \A d \in Cloids : Follows(store[d], store'[d])
    BY <1>2 DEF Follows
  <2>2. \A d \in Cloids : Hasty(d) => d \in hasty'
    BY <1>2 DEF Hasty
  <2> QED BY <1>4, <1>5, <2>1, <2>2, VenueDoes DEF World
<1>7. Rows'
  <2>1. ASSUME NEW d \in Cloids PROVE Fits(store[d], venue'[d], <<"place", d>> \in wire', d \in hasty')
    <3>1. CASE d = c
      BY <1>4, <3>1
    <3>2. CASE d # c
      BY <1>2, <1>5, <3>2 DEF VInv, Rows, Fits, TrueEnd, Hasty
    <3> QED BY <3>1, <3>2
  <2> QED BY <1>2, <2>1 DEF Rows, Sending, Hasty
<1>8. PipeHonest'
  <2>1. queue \in Seq(Message) /\ outbox \in Seq(Message)
    BY DEF IInv, TypeOK
  <2>2. Keeps
    BY <1>6, WorldKeeps
  <2>3. PipeAfter
    BY <1>2, <2>1, <2>2, PipeSame DEF VInv
  <2> QED BY <1>2, <2>2, <2>3, PipeKept DEF VInv
<1>9. Replied'
  <2>1. \A d \in Cloids : /\ Landed(venue[d]) => Landed(venue'[d])
                          /\ venue[d].st \in {"cancelled", "rejected"} => venue'[d].st = venue[d].st
    BY <1>6 DEF World, Goes
  <2>2. CASE UNCHANGED reply
    BY <1>2, <2>1, <2>2 DEF VInv, Replied
  <2>3. CASE handler = [at |-> "place", c |-> c] /\ reply' # reply
    BY <1>2, <2>3, VenueDoes DEF Replied, Idle, Landed
  <2>4. CASE handler = [at |-> "cancel", c |-> c] /\ reply' # reply
    BY <1>2, <2>4, VenueDoes DEF VInv, Replied, Idle
  <2> QED BY <2>2, <2>3, <2>4, VenueDoes
<1>10. Reading' /\ Drains'
  BY <1>2, <1>6, ReadsKept DEF VInv, Drains
<1> QED BY <1>7, <1>8, <1>9, <1>10 DEF VInv

-------------------------------------------------------------------------------
\* The reads.

\* A step that moves only reads and what comes with them.
LEMMA QuietKeeps ==
    ASSUME IInv, VInv, UNCHANGED <<store, venue, wire, hasty, handler, reply, queue, outbox, delivered>>,
           Reading', Drains'
    PROVE  VInv'
<1>1. World /\ Keeps /\ Rows' /\ Replied'
  BY StandsKept
<1>2. PipeAfter
  BY <1>1, PipeSame DEF VInv, IInv, TypeOK
<1>3. PipeHonest'
  BY <1>1, <1>2, PipeKept DEF VInv
<1> QED BY <1>1, <1>3 DEF VInv

LEMMA ReadFailedKeeps ==
    ASSUME IInv, VInv, NEW d \in Cadences, ReadFailed(d)
    PROVE  VInv'
<1>1. /\ UNCHANGED <<store, venue, wire, hasty, handler, reply, queue, outbox, drainer, phase,
                     misses, armed, delivered>>
      /\ reads' = [reads EXCEPT ![d] = NoRead]
      /\ reads \in [Cadences -> [c : Cloids, view : Views, racing : BOOLEAN] \cup {NoRead}]
  BY DEF ReadFailed, bus, history, IInv, TypeOK
<1>2. Reading'
  <2>1. ASSUME NEW e \in Cadences, reads'[e] # NoRead
        PROVE  SeenNow(e)' /\ phase' = IF e = "startup" THEN "starting" ELSE "up"
    <3>1. reads'[e] = reads[e]
      BY <1>1, <2>1
    <3> QED BY <1>1, <2>1, <3>1 DEF VInv, Reading, SeenNow, Sure, Sending
  <2> QED BY <1>1, <2>1 DEF VInv, Reading
<1>3. Drains'
  BY <1>1 DEF VInv, Drains, Cadences
<1> QED BY <1>1, <1>2, <1>3, QuietKeeps

\* What the venue answers is true of the order when it is read.
LEMMA ViewSeen ==
    ASSUME NEW order \in VenueOrder, NEW oid \in BOOLEAN, OrderSane(order),
           ~order.rec /\ oid => Landed(order)
    PROVE  LET view == ViewOf(order, oid)
           IN  /\ view.st # "none" => view.history
               /\ view.st = "LIVE" => Landed(order)
               /\ view.st = "CANCELLED" => order.st = "cancelled" /\ view.fills = order.fills
               /\ view.st = "REJECTED" => order.st = "rejected"
               /\ view.st = "none" /\ view.history => Gone(order) /\ view.fills = order.fills
               /\ view.st = "none" /\ ~view.history => view.fills = 0 /\ ~order.rec /\ ~oid
<1>1. CASE order.rec
  <2>1. order.st \in {"open", "filled", "cancelled", "rejected"}
    BY <1>1 DEF OrderSane, VenueOrder
  <2>2. ViewOf(order, oid) = Record(order)
    BY <1>1 DEF ViewOf
  <2>3. /\ Record(order).history /\ Record(order).fills = order.fills
        /\ order.st = "open" => Record(order).st = "LIVE"
        /\ order.st = "filled" => Record(order).st = "FILLED"
        /\ order.st = "cancelled" => Record(order).st = "CANCELLED"
        /\ order.st = "rejected" => Record(order).st = "REJECTED"
    BY DEF Record
  <2> QED BY <2>1, <2>2, <2>3 DEF Landed
<1>2. CASE ~order.rec /\ oid
  <2>1. ViewOf(order, oid) = [NoView EXCEPT !.history = TRUE, !.fills = order.fills]
    BY <1>2 DEF ViewOf
  <2>2. /\ ViewOf(order, oid).st = "none" /\ ViewOf(order, oid).history
        /\ ViewOf(order, oid).fills = order.fills
    BY <2>1 DEF NoView
  <2>3. Gone(order)
    BY <1>2 DEF Gone, Landed, OrderSane, VenueOrder
  <2> QED BY <2>2, <2>3
<1>3. CASE ~order.rec /\ ~oid
  BY <1>3 DEF ViewOf, NoView
<1> QED BY <1>1, <1>2, <1>3

\* The row behind the saga a cadence reads.
LEMMA MemoryRow ==
    ASSUME IInv, phase # "down", NEW c \in Cloids, IsOpen(cache[c])
    PROVE  /\ store[c].st # "none" /\ store[c].oid = cache[c].oid
           /\ store[c] = cache[c] \/ cache[c] = Submitted
           /\ cache[c].st \notin {"SUBMITTED"} => store[c] = cache[c]
<1>1. cache[c] = store[c] \/ (store[c] = NewOrder /\ cache[c] = Submitted)
  BY DEF IInv, MemoryIsDurable, SendWindow, Submitted
<1>2. ~NewOrder.oid /\ ~Submitted.oid /\ NewOrder.st # "none" /\ Submitted.st = "SUBMITTED"
  BY NewRows DEF NoSaga, NewOrder, ApplyStatus, Submitted
<1>3. NewOrder.oid = FALSE /\ Submitted.oid = FALSE
  BY DEF NoSaga, NewOrder, ApplyStatus, Submitted
<1> QED BY <1>1, <1>2, <1>3 DEF IsOpen

LEMMA ReadStartKeeps ==
    ASSUME IInv, VInv, NEW d \in Cadences, NEW c \in Cloids, ReadStart(d, c)
    PROVE  VInv'
<1> PICK view : view = ViewOf(venue[c], cache[c].oid)
  OBVIOUS
<1>1. /\ UNCHANGED <<store, venue, wire, hasty, handler, reply, queue, outbox, drainer, phase,
                     misses, armed, delivered>>
      /\ reads' = [reads EXCEPT ![d] = [c |-> c, view |-> view, racing |-> Sending(c)]]
      /\ reads \in [Cadences -> [c : Cloids, view : Views, racing : BOOLEAN] \cup {NoRead}]
  BY DEF ReadStart, Racing, Sending, bus, history, IInv, TypeOK
<1>2. /\ phase # "down" /\ CadenceReads(d, c) /\ IsOpen(cache[c])
      /\ phase = IF d = "startup" THEN "starting" ELSE "up"
  BY DEF ReadStart, TaskMayRun, CadenceReads, Cadences, WorkingStates, IsOpen, IsTerminal,
         TerminalStates
<1>3. /\ store[c].st # "none" /\ store[c].oid = cache[c].oid
      /\ cache[c].st # "SUBMITTED" => store[c] = cache[c]
  BY <1>2, MemoryRow
<1>4. /\ Fits(store[c], venue[c], Sending(c), Hasty(c)) /\ venue[c] \in VenueOrder
      /\ store[c] \in Saga(Lots) /\ cache[c] \in Saga(Lots)
      /\ armed[c] => Past(store[c])
  BY DEF VInv, Rows, Reading, IInv, TypeOK
<1>5. store[c].oid => Past(store[c]) /\ ~IsTerminal(store[c])
  <2>1. store[c].oid => Past(store[c])
    BY <1>4 DEF Fits, RowSane, Past
  <2>2. cache[c].st = "SUBMITTED" /\ store[c].oid => ~IsTerminal(store[c])
    <3>1. store[c] = cache[c] \/ cache[c] = Submitted
      BY <1>2, MemoryRow
    <3>2. ~Submitted.oid
      BY DEF NoSaga, NewOrder, ApplyStatus, Submitted
    <3> QED BY <1>2, <1>3, <3>1, <3>2 DEF IsOpen
  <2> QED BY <1>2, <1>3, <2>1, <2>2 DEF IsOpen
<1>6. store[c].oid => Landed(venue[c])
  <2>1. store[c].oid => store[c].st \in {"LIVE", "PARTIALLY_FILLED"}
    BY <1>4, <1>5 DEF Past, IsTerminal, TerminalStates, Saga, OrderStates
  <2> QED BY <1>4, <2>1 DEF Fits, RowSane
<1>7. /\ view.st # "none" => view.history
      /\ view.st = "LIVE" => Landed(venue[c])
      /\ view.st = "CANCELLED" => venue[c].st = "cancelled" /\ view.fills = venue[c].fills
      /\ view.st = "REJECTED" => venue[c].st = "rejected"
      /\ view.st = "none" /\ view.history => Gone(venue[c]) /\ view.fills = venue[c].fills
      /\ view.st = "none" /\ ~view.history => view.fills = 0 /\ ~venue[c].rec /\ ~store[c].oid
  <2>1. cache[c].oid \in BOOLEAN /\ OrderSane(venue[c])
    BY <1>4 DEF Saga, Fits
  <2> QED BY <1>3, <1>4, <1>6, <2>1, ViewSeen
<1>8. view.st = "none" /\ ~view.history =>
         \/ d = "inflight"
         \/ /\ Past(store[c]) /\ (~store[c].oid \/ IsTerminal(store[c]))
            /\ ~Sending(c) /\ ~venue[c].rec
         \/ d = "startup" /\ ~armed[c]
  <2>1. store[c].st \in WorkingStates => Past(store[c]) /\ Landed(venue[c])
    BY <1>4 DEF WorkingStates, Past, Fits, RowSane
  <2>2. store[c].st \in WorkingStates => ~Sending(c)
    BY <1>4, <2>1 DEF Fits, Landed
  <2>3. d = "open" => store[c].st \in WorkingStates
    BY <1>2, <1>3 DEF CadenceReads, WorkingStates
  <2>4. d = "startup" /\ armed[c] => store[c].st \in WorkingStates
    <3>1. store[c] = cache[c] \/ (cache[c] = Submitted /\ store[c] = NewOrder)
      BY <1>2 DEF IInv, MemoryIsDurable, SendWindow, Submitted
    <3>2. ~Past(NewOrder)
      BY DEF NoSaga, NewOrder, Past
    <3>3. Past(store[c]) /\ ~IsTerminal(store[c]) => store[c].st \in WorkingStates
      BY <1>4 DEF Past, IsTerminal, TerminalStates, WorkingStates, Saga, OrderStates
    <3> QED BY <1>2, <1>4, <3>1, <3>2, <3>3 DEF IsOpen
  <2>5. d \in {"startup", "inflight", "open"}
    BY DEF Cadences
  <2> QED BY <1>7, <2>1, <2>2, <2>3, <2>4, <2>5
<1>9. ASSUME NEW sure, sure => ~Sending(c)
      PROVE  Seen(d, view, store[c], venue[c], Sending(c), sure, armed[c])
  BY <1>3, <1>7, <1>8, <1>9 DEF Seen
<1>10. Reading'
  <2>1. ASSUME NEW e \in Cadences, reads'[e] # NoRead
        PROVE  SeenNow(e)' /\ phase' = IF e = "startup" THEN "starting" ELSE "up"
    <3>1. CASE e = d
      <4>1. reads'[e].c = c /\ reads'[e].view = view /\ reads'[e].racing = Sending(c)
        BY <1>1, <3>1
      <4>2. Sure(e)' => ~Sending(c)
        BY <4>1 DEF Sure
      <4>3. Seen(d, view, store[c], venue[c], Sending(c), Sure(e)', armed[c])
        BY <1>9, <4>2, Zenon
      <4> QED BY <1>1, <1>2, <3>1, <4>1, <4>3 DEF SeenNow, Sending
    <3>2. CASE e # d
      <4>1. reads'[e] = reads[e]
        BY <1>1, <3>2
      <4> QED BY <1>1, <2>1, <4>1 DEF VInv, Reading, SeenNow, Sure, Sending
    <3> QED BY <3>1, <3>2
  <2> QED BY <1>1, <2>1 DEF VInv, Reading
<1>11. Drains'
  <2>1. d = "startup" => outbox = <<>>
    BY <1>2 DEF VInv, Drains, ReadStart, Draining
  <2>2. reads'["startup"] # NoRead => outbox = <<>>
    BY <1>1, <2>1 DEF VInv, Drains, Cadences
  <2> QED BY <1>1, <2>2 DEF VInv, Drains
<1> QED BY <1>1, <1>10, <1>11, QuietKeeps

LEMMA BarrierKeeps ==
    ASSUME IInv, VInv, BarrierClears
    PROVE  VInv'
<1>1. /\ UNCHANGED <<store, venue, wire, hasty, handler, reply, queue, outbox, drainer,
                     misses, armed, reads, delivered>>
      /\ phase = "starting" /\ phase' = "up" /\ reads["startup"] = NoRead
  BY DEF BarrierClears, bus, history
<1>2. \A d \in Cadences : reads[d] = NoRead
  BY <1>1 DEF VInv, Reading
<1>3. Reading'
  BY <1>1, <1>2 DEF VInv, Reading, Cadences
<1>4. Drains'
  BY <1>1 DEF VInv, Drains
<1> QED BY <1>1, <1>3, <1>4, QuietKeeps

LEMMA RestartKeeps ==
    ASSUME IInv, VInv, Restart
    PROVE  VInv'
<1>1. /\ UNCHANGED <<store, venue, wire, hasty, handler, reply, queue, outbox, drainer,
                     misses, armed, reads, delivered>>
      /\ phase = "down" /\ phase' = "starting"
  BY DEF Restart, bus, reconciler, history
<1>2. \A d \in Cadences : reads[d] = NoRead
  BY <1>1 DEF VInv, Reading
<1>3. Reading'
  BY <1>1, <1>2 DEF VInv, Reading
<1>4. Drains'
  BY <1>1 DEF VInv, Drains
<1> QED BY <1>1, <1>3, <1>4, QuietKeeps

LEMMA StutterKeeps ==
    ASSUME IInv, VInv, UNCHANGED vars
    PROVE  VInv'
<1>1. UNCHANGED <<store, venue, wire, hasty, handler, reply, queue, outbox, drainer, phase,
                  misses, armed, reads, delivered>>
  BY DEF vars, bus, reconciler, history
<1>2. Reading'
  BY <1>1 DEF VInv, Reading, SeenNow, Sure, Sending
<1>3. Drains'
  BY <1>1 DEF VInv, Drains
<1> QED BY <1>1, <1>2, <1>3, QuietKeeps

\* A judged ghost: the verdict is honest, and only a working order's grace runs on.
LEMMA GhostKeeps ==
    ASSUME IInv, VInv, phase # "down", NEW c \in Cloids, NEW msgs \in Verdicts(c),
           GhostJudged(c, msgs), UNCHANGED <<store, venue, wire>>, hasty \subseteq hasty', NEW T,
           armed[c] => \/ Gone(venue[c]) /\ Counted(venue[c], store[c], T)
                       \/ ~venue[c].rec /\ (~store[c].oid \/ IsTerminal(store[c]))
    PROVE  /\ \A i \in DOMAIN msgs : After(msgs[i], T)
           /\ \A d \in Cloids : armed'[d] => Past(store'[d])
           /\ \A d \in Cloids : armed'[d] = armed[d] \/ d = c
           /\ msgs \in Seq(Message) /\ Len(msgs) \in {0, 1}
<1>1. /\ armed \in [Cloids -> BOOLEAN] /\ store[c] \in Saga(Lots) /\ venue[c] \in VenueOrder
      /\ cache[c] \in Saga(Lots)
  BY DEF IInv, TypeOK
<1>2. cache[c].st \in WorkingStates => store[c] = cache[c] /\ Past(store[c]) /\ ~IsTerminal(store[c])
  <2>1. cache[c].st \in WorkingStates => IsOpen(cache[c]) /\ cache[c].st # "SUBMITTED"
    BY DEF WorkingStates, IsOpen, IsTerminal, TerminalStates
  <2>2. cache[c].st \in WorkingStates => store[c] = cache[c]
    BY <2>1, MemoryRow
  <2> QED BY <2>1, <2>2 DEF WorkingStates, Past, IsOpen
<1>3. /\ armed' \in [Cloids -> BOOLEAN] /\ \A d \in Cloids : armed'[d] = armed[d] \/ d = c
      /\ armed'[c] => cache[c].st \in WorkingStates
  BY <1>1 DEF GhostJudged
<1>4. \A d \in Cloids : armed'[d] => Past(store'[d])
  BY <1>2, <1>3 DEF VInv, Reading
<1>5. CASE msgs = <<>>
  BY <1>3, <1>4, <1>5
<1>6. CASE msgs # <<>>
  <2>1. /\ cache[c].st \in WorkingStates /\ armed[c]
        /\ msgs = <<Status(c, GhostVerdict(cache[c]), FALSE)>>
    BY <1>6 DEF GhostJudged
  <2>2. PICK m : m = Status(c, GhostVerdict(cache[c]), FALSE)
    OBVIOUS
  <2>3. /\ Says(m, c, GhostVerdict(store[c])) /\ ~m.oid /\ m \in Message
        /\ GhostVerdict(store[c]) = IF store[c].cancel \/ store[c].st = "PARTIALLY_FILLED"
                                     THEN "CANCELLED" ELSE "REJECTED"
    <3>1. GhostVerdict(cache[c]) \in OrderStates
      BY StatesNamed DEF GhostVerdict
    <3>2. m \in Mail
      BY <2>2, <3>1, MailTyped, Zenon
    <3>3. Says(m, c, GhostVerdict(cache[c])) /\ ~m.oid
      BY <2>2, StatusFields, Zenon
    <3> QED BY <1>2, <2>1, <3>2, <3>3 DEF Mail, GhostVerdict
  <2>4. Fits(store[c], venue[c], Sending(c), Hasty(c)) /\ store[c].st \in {"LIVE", "PARTIALLY_FILLED"}
    BY <1>2, <2>1 DEF VInv, Rows, WorkingStates
  <2>5. Honest(m, T, store[c], venue[c], Sending(c), Hasty(c))
    <3>1. CASE Gone(venue[c]) /\ Counted(venue[c], store[c], T)
      BY <2>3, <3>1 DEF Honest, Says
    <3>2. CASE ~venue[c].rec /\ (~store[c].oid \/ IsTerminal(store[c]))
      <4>1. store[c].st = "PARTIALLY_FILLED" /\ Gone(venue[c])
        BY <1>1, <1>2, <2>1, <2>4, <3>2 DEF Fits, RowSane, OrderSane, Landed, Gone, VenueOrder
      <4> QED BY <1>2, <2>1, <2>3, <3>2, <4>1 DEF Honest, Says
    <3> QED BY <2>1, <3>1, <3>2
  <2>6. After(m, T)
    BY <2>3, <2>5 DEF After, Says, Sending, Hasty, Honest
  <2>7. msgs = <<m>>
    BY <2>1, <2>2, Zenon
  <2>8. DOMAIN msgs = {1} /\ msgs[1] = m /\ Len(msgs) = 1 /\ msgs \in Seq(Message)
    BY <2>3, <2>7
  <2> QED BY <1>3, <1>4, <2>6, <2>8
<1> QED BY <1>5, <1>6

\* The reads that go on while a grace clock is set or reset.
LEMMA ReadsGraced ==
    ASSUME IInv, VInv, UNCHANGED <<store, venue, wire, phase>>, armed \in [Cloids -> BOOLEAN],
           \A d \in Cadences : reads'[d] = reads[d] \/ reads'[d] = NoRead,
           \A d \in Cadences : d = "inflight" /\ reads'[d] # NoRead => misses' = misses,
           reads'["startup"] # NoRead => \A c \in Cloids : armed'[c] => armed[c],
           \A c \in Cloids : armed'[c] => Past(store'[c])
    PROVE  Reading'
<1>1. ASSUME NEW d \in Cadences, reads'[d] # NoRead
      PROVE  SeenNow(d)' /\ phase' = IF d = "startup" THEN "starting" ELSE "up"
  <2>1. reads'[d] = reads[d] /\ reads[d].c \in Cloids /\ SeenNow(d)
        /\ phase = IF d = "startup" THEN "starting" ELSE "up"
    BY <1>1 DEF VInv, Reading, IInv, TypeOK
  <2> DEFINE c == reads[d].c
             view == reads[d].view
  <2>2. PICK sure \in BOOLEAN, sure2 \in BOOLEAN, grace \in BOOLEAN, grace2 \in BOOLEAN,
             sending \in BOOLEAN :
           /\ sure <=> Sure(d)
           /\ sure2 <=> Sure(d)'
           /\ grace <=> armed[c]
           /\ grace2 <=> armed'[c]
           /\ sending <=> Sending(c)
    OBVIOUS
  <2>3. Seen(d, view, store[c], venue[c], sending, sure, grace)
    BY <2>1, <2>2 DEF SeenNow, Seen
  <2>4. (sure <=> sure2) /\ (d = "startup" => (grace2 => grace))
    BY <1>1, <2>1, <2>2 DEF Sure
  <2>5. Seen(d, view, store[c], venue[c], sending, sure2, grace2)
    BY <2>3, <2>4 DEF Seen
  <2>6. Seen(d, reads'[d].view, store'[c], venue'[c], <<"place", c>> \in wire', Sure(d)', armed'[c])
    BY <2>1, <2>2, <2>5 DEF Seen, Sending
  <2> QED BY <2>1, <2>6 DEF SeenNow, Sending
<1> QED BY <1>1 DEF Reading

LEMMA PublishNextKeeps ==
    ASSUME IInv, VInv, PublishNext
    PROVE  VInv'
<1> DEFINE m == Head(outbox)
<1>1. /\ phase # "down" /\ queue = <<>> /\ outbox # <<>> /\ outbox \in Seq(Message)
      /\ m \in Message /\ m.c \in Cloids /\ outbox' = Tail(outbox)
      /\ UNCHANGED <<store, venue, wire, hasty, handler, reply, drainer, phase, misses, reads, delivered>>
      /\ armed \in [Cloids -> BOOLEAN]
  <2>1. /\ phase # "down" /\ queue = <<>> /\ outbox # <<>> /\ outbox' = Tail(outbox)
    BY DEF PublishNext
  <2>2. UNCHANGED <<store, venue, wire, hasty, handler, reply, drainer, phase, misses, reads, delivered>>
    BY DEF PublishNext, history
  <2>3. outbox \in Seq(Message) /\ armed \in [Cloids -> BOOLEAN]
    BY DEF IInv, TypeOK
  <2>4. m \in Message
    <3>1. m = outbox[1] /\ 1 \in DOMAIN outbox
      BY <2>1, <2>3, EmptySeq, LenProperties
    <3> QED BY <2>3, <3>1
  <2> QED BY <2>1, <2>2, <2>3, <2>4 DEF Message
<1>2. World /\ Keeps /\ Rows' /\ Replied'
  BY <1>1, StandsKept
<1>3. After(m, {}) /\ HonestNow(m, {})
  <2>1. m = outbox[1] /\ 1 \in DOMAIN outbox /\ 1 - 1 = 0 /\ Len(queue) = 0
    BY <1>1, EmptySeq, LenProperties
  <2>2. HonestNow(m, Before(queue, Len(queue), m.c) \cup Before(outbox, 0, m.c))
    BY <2>1 DEF VInv, PipeHonest
  <2>3. HonestNow(m, {})
    BY <2>1, <2>2, BeforeNothing
  <2> QED BY <1>1, <1>2, <2>3 DEF Keeps
<1>4. /\ queue' \in Seq(Message) /\ AllHonest(queue')
      /\ m.kind = "fill" => queue' = <<m>>
      /\ \A c \in Cloids : armed'[c] => Past(store'[c])
  <2>1. CASE m.kind = "judge"
    <3>1. PICK msgs \in Verdicts(m.c) : GhostJudged(m.c, msgs) /\ queue' = msgs
      BY <2>1 DEF PublishNext
    <3>2. Gone(venue[m.c]) /\ Counted(venue[m.c], store[m.c], {})
      BY <1>3, <2>1 DEF HonestNow, Honest
    <3>3. /\ \A i \in DOMAIN msgs : After(msgs[i], {})
          /\ \A d \in Cloids : armed'[d] => Past(store'[d])
          /\ msgs \in Seq(Message)
      BY <1>1, <3>1, <3>2, GhostKeeps
    <3>4. AllHonest(msgs)
      BY <3>3, AfterGrows DEF AllHonest
    <3> QED BY <2>1, <3>1, <3>3, <3>4
  <2>2. CASE m.kind # "judge"
    <3>1. queue' = <<m>> /\ armed' = armed
      BY <2>2 DEF PublishNext
    <3> QED BY <1>1, <1>3, <3>1, OneHonest DEF VInv, Reading
  <2> QED BY <2>1, <2>2
<1>5. PipeHonest'
  <2>1. PipeAfter
    BY <1>1, <1>2, <1>4, PipeNext DEF VInv
  <2> QED BY <1>1, <1>2, <2>1, PipeKept DEF VInv
<1>6. reads["startup"] = NoRead
  BY <1>1 DEF VInv, Drains
<1>7. Reading'
  BY <1>1, <1>4, <1>6, ReadsGraced
<1>8. Drains'
  BY <1>1, <1>6 DEF VInv, Drains
<1> QED BY <1>2, <1>5, <1>7, <1>8 DEF VInv

\* What a pass replays of an order, and what it concludes behind it.
LEMMA HealingHonest ==
    ASSUME NEW c \in Cloids, NEW view, view.fills \in 0..Lots,
           NEW tail \in Seq(Message),
           \A i \in DOMAIN tail : tail[i].c = c /\ After(tail[i], 1..view.fills)
    PROVE  /\ Healing(c, view) \in Seq(Message)
           /\ Healing(c, view) \o tail \in Seq(Message) /\ AllHonest(Healing(c, view) \o tail)
<1> PICK n \in 0..Lots : n = view.fills
  OBVIOUS
<1> PICK bridge : bridge = IF cache[c].st = "PENDING" THEN <<Status(c, "SUBMITTED", FALSE)>> ELSE <<>>
  OBVIOUS
<1> PICK reports : reports = FillReports(c, n)
  OBVIOUS
<1> PICK healing : healing = bridge \o reports
  OBVIOUS
<1>1. healing = Healing(c, view)
  BY Zenon DEF Healing
<1>2. bridge \in Seq(Message) /\ \A i \in DOMAIN bridge : After(bridge[i], {})
  <2>1. CASE cache[c].st = "PENDING"
    <3>1. PICK m : m = Status(c, "SUBMITTED", FALSE)
      OBVIOUS
    <3>2. Says(m, c, "SUBMITTED") /\ ~m.oid
      BY <3>1, StatusFields, Zenon
    <3>3. m \in Message
      <4>1. "SUBMITTED" \in OrderStates /\ FALSE \in BOOLEAN
        BY DEF OrderStates
      <4> QED BY <3>1, <4>1, MessagesTyped, Zenon
    <3>4. bridge = <<m>>
      BY <2>1, <3>1, Zenon
    <3>5. After(m, {})
      BY <3>2 DEF After, Honest, Says
    <3>6. <<m>> \in Seq(Message) /\ \A i \in DOMAIN <<m>> : <<m>>[i] = m
      BY <3>3
    <3>7. \A i \in DOMAIN <<m>> : After(<<m>>[i], {})
      BY <3>5, <3>6, Zenon
    <3> QED BY <3>4, <3>6, <3>7, Zenon
  <2>2. CASE cache[c].st # "PENDING"
    <3>1. bridge = <<>>
      BY <2>2, Zenon
    <3>2. <<>> \in Seq(Message) /\ \A i \in DOMAIN <<>> : After(<<>>[i], {})
      OBVIOUS
    <3> QED BY <3>1, <3>2, Zenon
  <2> QED BY <2>1, <2>2
<1>3. /\ reports \in Seq(Message) /\ Len(reports) = n
      /\ \A i \in DOMAIN reports : After(reports[i], {})
      /\ 1..n \subseteq Before(reports, n, c)
  BY FillReportsHonest, Zenon
<1>4. AllHonest(bridge)
  <2>1. \A m, T : After(m, {}) => After(m, T)
    BY AfterGrows
  <2> QED BY <1>2, <2>1, Zenon DEF AllHonest
<1>5. AllHonest(healing) /\ healing \in Seq(Message)
  <2>1. \A j \in DOMAIN reports :
           After(reports[j], Before(bridge, Len(bridge), reports[j].c) \cup Before(reports, j - 1, reports[j].c))
    BY <1>3, AfterGrows
  <2> QED BY <1>2, <1>3, <1>4, <2>1, AllJoined, ConcatProperties, Zenon
<1>6. 1..n \subseteq Before(healing, Len(healing), c)
  <2>1. bridge \in Seq(Message) /\ reports \in Seq(Message) /\ healing = bridge \o reports
    BY <1>2, <1>3, Zenon
  <2>2. Before(reports, Len(reports), c) \subseteq Before(healing, Len(healing), c)
    BY <2>1, BeforeAppended, Zenon
  <2> QED BY <1>3, <2>2, Zenon
<1>7. \A j \in DOMAIN tail :
         After(tail[j], Before(healing, Len(healing), tail[j].c) \cup Before(tail, j - 1, tail[j].c))
  <2>1. \A m, T, U : After(m, T) /\ T \subseteq U => After(m, U)
    BY AfterGrows
  <2>2. ASSUME NEW j \in DOMAIN tail, NEW U
        PROVE  After(tail[j], Before(healing, Len(healing), tail[j].c) \cup U)
    <3>1. tail[j].c = c /\ After(tail[j], 1..n)
      OBVIOUS
    <3>2. PICK V : V = Before(healing, Len(healing), tail[j].c) \cup U
      OBVIOUS
    <3>3. 1..n \subseteq V
      BY <1>6, <3>1, <3>2
    <3>4. After(tail[j], V)
      BY <2>1, <3>1, <3>3
    <3> QED BY <3>2, <3>4, Zenon
  <2> QED BY <2>2
<1> QED BY <1>1, <1>5, <1>7, AllJoined, ConcatProperties, Zenon

\* A read is answered, and its task publishes what the pass concludes.
LEMMA AnswerKeeps ==
    ASSUME IInv, VInv, NEW d \in Cadences, reads[d] # NoRead,
           NEW msgs \in Seq(Message), AllHonest(msgs), PublishAll(d, msgs),
           reads' = [reads EXCEPT ![d] = NoRead], d # "inflight" => misses' = misses,
           \A c \in Cloids : armed'[c] => Past(store'[c]),
           UNCHANGED <<store, venue, wire, handler, reply, phase, delivered>>, hasty \subseteq hasty'
    PROVE  VInv'
<1>1. World /\ Keeps /\ Rows' /\ Replied'
  BY StandsKept
<1>2. /\ queue \in Seq(Message) /\ outbox \in Seq(Message) /\ armed \in [Cloids -> BOOLEAN]
      /\ \A e \in Cadences : reads'[e] = IF e = d THEN NoRead ELSE reads[e]
  BY DEF IInv, TypeOK
<1>3. PipeAfter
  BY <1>1, <1>2, PipePublish DEF VInv
<1>4. PipeHonest'
  <2>1. delivered' \subseteq delivered
    OBVIOUS
  <2> QED BY <1>1, <1>3, <2>1, PipeKept DEF VInv
<1>5. phase = IF d = "startup" THEN "starting" ELSE "up"
  BY DEF VInv, Reading
<1>6. reads'["startup"] = NoRead
  <2>1. reads["startup"] # NoRead => phase = "starting"
    BY DEF VInv, Reading, Cadences
  <2> QED BY <1>2, <1>5, <2>1 DEF Cadences
<1>7. Reading'
  BY <1>2, <1>6, ReadsGraced
<1>8. Drains'
  <2>1. \/ outbox' = outbox /\ drainer' = drainer
        \/ drainer' = d
    BY DEF PublishAll
  <2>2. d # "feed"
    BY DEF Cadences
  <2> QED BY <1>5, <1>6, <2>1, <2>2 DEF VInv, Drains
<1> QED BY <1>1, <1>4, <1>7, <1>8 DEF VInv

\* The answer adds younger trades to a read that holds a key to the fill history.
LEMMA AnswerSeen ==
    ASSUME IInv, VInv, NEW d \in Cadences, reads[d] # NoRead, NEW view \in Answered(d),
           NEW c, c = reads[d].c
    PROVE  /\ c \in Cloids /\ view \in Views /\ view.fills \in 0..venue[c].fills
           /\ Seen(d, view, store[c], venue[c], Sending(c), Sure(d), armed[c])
<1>1. c \in Cloids /\ reads[d].view \in Views
  BY DEF IInv, TypeOK
<1>2. PICK old \in Views : old = reads[d].view
  BY <1>1
<1>3. Seen(d, old, store[c], venue[c], Sending(c), Sure(d), armed[c])
  BY <1>2 DEF VInv, Reading, SeenNow
<1>4. venue[c].fills \in 0..Lots /\ Lots \in Nat
  BY <1>1, SagaEngineAssumption DEF IInv, TypeOK, VenueOrder
<1>5. CASE old.history
  <2>1. PICK n \in old.fills..venue[c].fills : view = [old EXCEPT !.fills = n]
    BY <1>2, <1>5 DEF Answered
  <2>2. /\ view.st = old.st /\ view.history = old.history /\ view.fills = n /\ view \in Views
        /\ n \in 0..venue[c].fills
    BY <1>4, <2>1 DEF Views
  <2>3. old.fills = venue[c].fills => n = venue[c].fills
    BY <1>4, <2>1 DEF Views
  <2> QED BY <1>1, <1>3, <1>5, <2>2, <2>3 DEF Seen
<1>6. CASE ~old.history
  <2>1. view = old
    BY <1>2, <1>6 DEF Answered
  <2>2. view.fills = 0
    BY <1>3, <1>6, <2>1 DEF Seen
  <2> QED BY <1>1, <1>3, <1>4, <2>1, <2>2
<1> QED BY <1>5, <1>6

\* What an answer that finds nothing says of an order that never met the market.
LEMMA FailedHonest ==
    ASSUME IInv, VInv, NEW c \in Cloids, store[c].st # "none", UNCHANGED <<store, venue, wire>>,
           c \in hasty' \/ (~venue[c].rec /\ ~Sending(c))
    PROVE  <<Status(c, "FAILED", FALSE)>> \in Seq(Message) /\ AllHonest(<<Status(c, "FAILED", FALSE)>>)
<1>1. PICK m : m = Status(c, "FAILED", FALSE)
  OBVIOUS
<1>2. Says(m, c, "FAILED") /\ ~m.oid
  BY <1>1, StatusFields, Zenon
<1>3. m \in Message
  <2>1. "FAILED" \in OrderStates /\ FALSE \in BOOLEAN
    BY DEF OrderStates
  <2> QED BY <1>1, <2>1, MessagesTyped, Zenon
<1>4. After(m, {})
  BY <1>2 DEF After, Honest, Says, Sending
<1>5. <<m>> \in Seq(Message) /\ AllHonest(<<m>>)
  BY <1>3, <1>4, OneHonest
<1> QED BY <1>1, <1>5, Zenon

\* An order that is gone, or that the read left no trace of, is on no wire.
LEMMA NoTrace ==
    ASSUME VInv, NEW c \in Cloids, NEW d, NEW view, view.st = "none", NEW sure, NEW grace,
           Seen(d, view, store[c], venue[c], Sending(c), sure, grace),
           sure \/ view.history
    PROVE  store[c].st # "none" /\ ~venue[c].rec /\ ~Sending(c)
<1>1. Fits(store[c], venue[c], Sending(c), Hasty(c))
  BY DEF VInv, Rows
<1>2. CASE view.history
  BY <1>1, <1>2 DEF Seen, Gone, Fits
<1>3. CASE ~view.history
  BY <1>3 DEF Seen
<1> QED BY <1>2, <1>3

\* The status a record gives is what the venue did.
LEMMA RecordHonest ==
    ASSUME IInv, VInv, NEW c \in Cloids, NEW d, NEW view \in Views, view.st # "none", NEW sure, NEW grace,
           Seen(d, view, store[c], venue[c], Sending(c), sure, grace),
           UNCHANGED <<store, venue, wire>>, hasty \subseteq hasty'
    PROVE  LET status == <<Status(c, view.st, TRUE)>>
           IN  /\ status \in Seq(Message)
               /\ \A i \in DOMAIN status : status[i].c = c /\ After(status[i], 1..view.fills)
<1>1. PICK m : m = Status(c, view.st, TRUE)
  OBVIOUS
<1>2. Says(m, c, view.st) /\ m.oid
  BY <1>1, StatusFields, Zenon
<1>3. m \in Message
  <2>1. view.st \in OrderStates /\ TRUE \in BOOLEAN
    BY DEF Views, OrderStates
  <2> QED BY <1>1, <2>1, MessagesTyped, Zenon
<1>4. view.st \in {"LIVE", "FILLED", "CANCELLED", "REJECTED"}
  BY DEF Views
<1>5. view.st = "CANCELLED" => Counted(venue[c], store[c], 1..view.fills)
  BY DEF Seen, Counted
<1>6. Honest(m, 1..view.fills, store[c], venue[c], Sending(c), Hasty(c))
  BY <1>2, <1>4, <1>5 DEF Honest, Says, Seen
<1>7. m.c = c /\ After(m, 1..view.fills)
  BY <1>2, <1>4, <1>6 DEF After, Says, Sending, Hasty, Honest
<1>8. <<m>> \in Seq(Message) /\ \A i \in DOMAIN <<m>> : <<m>>[i] = m
  BY <1>3
<1>9. \A i \in DOMAIN <<m>> : <<m>>[i].c = c /\ After(<<m>>[i], 1..view.fills)
  BY <1>7, <1>8, Zenon
<1> QED BY <1>1, <1>8, <1>9, Zenon

LEMMA AdoptKeeps ==
    ASSUME IInv, VInv, phase # "down", NEW d \in Cadences, reads[d] # NoRead,
           NEW view \in Answered(d), NEW c, c = reads[d].c,
           ~(d = "inflight" /\ view.st = "none" /\ view.fills = 0),
           Adopt(d, c, view),
           reads' = [reads EXCEPT ![d] = NoRead], d # "inflight" => misses' = misses,
           UNCHANGED <<store, venue, wire, handler, reply, phase, delivered>>
    PROVE  VInv'
<1>1. /\ c \in Cloids /\ view \in Views /\ view.fills \in 0..venue[c].fills
      /\ Seen(d, view, store[c], venue[c], Sending(c), Sure(d), armed[c])
  BY AnswerSeen
<1>2. /\ venue[c].fills \in 0..Lots /\ view.fills \in 0..Lots
      /\ armed \in [Cloids -> BOOLEAN] /\ \A e \in Cloids : armed[e] => Past(store'[e])
  BY <1>1, SagaEngineAssumption DEF IInv, TypeOK, VenueOrder, VInv, Reading
<1>0. hasty \subseteq hasty'
  BY DEF Adopt, Hastened
<1> DEFINE healing == Healing(c, view)
           status  == IF view.st = "LIVE" /\ view.fills # 0
                      THEN <<>> ELSE <<Status(c, view.st, TRUE)>>
<1>3. CASE NeverLanded(c, view)
  <2>1. view.st = "none" /\ PublishAll(d, <<Status(c, "FAILED", FALSE)>>) /\ armed' = armed
    BY <1>3 DEF NeverLanded, Adopt
  <2>2. store[c].st # "none"
    BY <1>1 DEF Seen
  <2>3. c \in hasty' \/ (~venue[c].rec /\ ~Sending(c))
    <3>1. CASE reads[d].racing
      BY <1>3, <3>1 DEF Adopt, Hastened
    <3>2. CASE ~reads[d].racing
      <4>1. Sure(d) \/ view.history
        BY <1>3, <2>1, <3>2 DEF NeverLanded, Sure
      <4> QED BY <1>1, <2>1, <4>1, NoTrace
    <3> QED BY <3>1, <3>2
  <2> QED BY <1>0, <1>1, <1>2, <2>1, <2>2, <2>3, FailedHonest, AnswerKeeps
<1>4. CASE ~NeverLanded(c, view) /\ view.st # "none"
  <2>1. PublishAll(d, healing \o status) /\ armed' = [armed EXCEPT ![c] = FALSE]
    BY <1>4, Zenon DEF Adopt
  <2>2. status \in Seq(Message) /\ \A i \in DOMAIN status : status[i].c = c /\ After(status[i], 1..view.fills)
    <3>1. CASE view.st = "LIVE" /\ view.fills # 0
      <4>1. status = <<>>
        BY <3>1
      <4>2. /\ <<>> \in Seq(Message)
            /\ \A i \in DOMAIN <<>> : <<>>[i].c = c /\ After(<<>>[i], 1..view.fills)
        OBVIOUS
      <4> QED BY <4>1, <4>2, Zenon
    <3>2. CASE ~(view.st = "LIVE" /\ view.fills # 0)
      <4>1. status = <<Status(c, view.st, TRUE)>>
        BY <3>2, Zenon
      <4>2. PICK sure, grace : sure = Sure(d) /\ grace = armed[c]
        OBVIOUS
      <4>3. Seen(d, view, store[c], venue[c], Sending(c), sure, grace)
        BY <1>1, <4>2, Zenon
      <4>4. LET s == <<Status(c, view.st, TRUE)>>
            IN  /\ s \in Seq(Message)
                /\ \A i \in DOMAIN s : s[i].c = c /\ After(s[i], 1..view.fills)
        BY <1>0, <1>1, <1>4, <4>3, RecordHonest
      <4> QED BY <4>1, <4>4, Zenon
    <3> QED BY <3>1, <3>2
  <2>3. healing \o status \in Seq(Message) /\ AllHonest(healing \o status)
    BY <1>1, <1>2, <2>2, HealingHonest
  <2>4. \A e \in Cloids : armed'[e] => Past(store'[e])
    BY <1>2, <2>1
  <2> QED BY <1>0, <2>1, <2>3, <2>4, AnswerKeeps
<1>5. CASE ~NeverLanded(c, view) /\ view.st = "none" /\ (Draining \/ healing = <<>>)
  <2>1. PICK msgs \in Verdicts(c) : GhostJudged(c, msgs) /\ PublishAll(d, healing \o msgs)
    BY <1>5, Zenon DEF Adopt
  <2>2. armed[c] => \/ Gone(venue[c]) /\ Counted(venue[c], store[c], 1..view.fills)
                    \/ ~venue[c].rec /\ (~store[c].oid \/ IsTerminal(store[c]))
    <3>1. CASE view.history
      BY <1>1, <1>5, <3>1 DEF Seen, Counted
    <3>2. CASE ~view.history
      <4>1. d = "inflight" => FALSE
        BY <1>1, <1>5, <3>2 DEF Seen
      <4> QED BY <1>1, <1>5, <3>2, <4>1 DEF Seen
    <3> QED BY <3>1, <3>2
  <2>3. /\ \A i \in DOMAIN msgs : After(msgs[i], 1..view.fills)
        /\ \A e \in Cloids : armed'[e] => Past(store'[e])
        /\ msgs \in Seq(Message)
    BY <1>0, <1>1, <2>1, <2>2, GhostKeeps
  <2>4. \A i \in DOMAIN msgs : msgs[i].c = c
    <3>0. \A st : Says(Status(c, st, FALSE), c, st)
      BY StatusFields, Zenon
    <3>1. \A st : Status(c, st, FALSE).c = c
      BY <3>0, Zenon DEF Says
    <3>2. msgs = <<>> \/ \E st : msgs = <<Status(c, st, FALSE)>>
      BY DEF Verdicts
    <3>3. CASE msgs = <<>>
      BY <3>3
    <3>4. ASSUME NEW st, msgs = <<Status(c, st, FALSE)>> PROVE \A i \in DOMAIN msgs : msgs[i].c = c
      <4>1. PICK m : m = Status(c, st, FALSE)
        OBVIOUS
      <4>2. msgs = <<m>>
        BY <3>4, <4>1, Zenon
      <4>3. m.c = c
        BY <3>1, <4>1, Zenon
      <4>4. \A i \in DOMAIN <<m>> : <<m>>[i] = m
        OBVIOUS
      <4> QED BY <4>2, <4>3, <4>4, Zenon
    <3> QED BY <3>2, <3>3, <3>4
  <2>5. healing \o msgs \in Seq(Message) /\ AllHonest(healing \o msgs)
    BY <1>1, <1>2, <2>3, <2>4, HealingHonest
  <2> QED BY <1>0, <2>1, <2>3, <2>5, AnswerKeeps
<1>6. CASE ~NeverLanded(c, view) /\ view.st = "none" /\ ~(Draining \/ healing = <<>>)
  <2>1. PublishAll(d, Append(healing, JudgeGhost(c))) /\ armed' = armed
    BY <1>6, Zenon DEF Adopt
  <2>2. view.history
    <3>1. SUFFICES ASSUME ~view.history PROVE FALSE
      OBVIOUS
    <3>2. view.fills = 0
      BY <1>1, <1>6, <3>1 DEF Seen
    <3>3. cache[c].st \in WorkingStates
      BY <1>6, <3>2 DEF NeverLanded
    <3>4. cache[c].st # "PENDING"
      BY <3>3 DEF WorkingStates
    <3>5. FillReports(c, 0) = <<>>
      <4>1. 0 \in 0..Lots
        BY SagaEngineAssumption
      <4> QED BY <1>1, <4>1, FillReportsHonest, EmptySeq
    <3>6. healing = <<>> \o <<>>
      BY <3>2, <3>4, <3>5, Zenon DEF Healing
    <3>7. <<>> \o <<>> = <<>>
      OBVIOUS
    <3> QED BY <1>6, <3>6, <3>7, Zenon
  <2>3. PICK m : m = JudgeGhost(c)
    OBVIOUS
  <2>4. m.kind = "judge" /\ m.c = c /\ m \in Message
    <3>1. m.kind = "judge" /\ m.c = c
      BY <2>3, Fields, Zenon
    <3>2. m \in Message
      BY <1>1, <2>3, MailTyped, Zenon DEF Mail
    <3> QED BY <3>1, <3>2
  <2>5. After(m, 1..view.fills)
    BY <1>1, <1>6, <2>2, <2>4 DEF After, Honest, Seen, Counted
  <2>6. <<m>> \in Seq(Message) /\ \A i \in DOMAIN <<m>> : <<m>>[i] = m
    BY <2>4
  <2>7. \A i \in DOMAIN <<m>> : <<m>>[i].c = c /\ After(<<m>>[i], 1..view.fills)
    BY <2>4, <2>5, <2>6, Zenon
  <2>8. healing \o <<m>> \in Seq(Message) /\ AllHonest(healing \o <<m>>)
    BY <1>1, <1>2, <2>6, <2>7, HealingHonest
  <2>9. Append(healing, m) = healing \o <<m>>
    <3>1. healing \in Seq(Message)
      BY <1>1, <1>2, <2>6, <2>7, HealingHonest
    <3> QED BY <2>4, <3>1, AppendIsConcat
  <2>10. PublishAll(d, healing \o <<m>>)
    BY <2>1, <2>3, <2>9, Zenon
  <2> QED BY <1>0, <1>2, <2>1, <2>8, <2>10, AnswerKeeps
<1> QED BY <1>3, <1>4, <1>5, <1>6

LEMMA ReadAnsweredKeeps ==
    ASSUME IInv, VInv, NEW d \in Cadences, ReadAnswered(d)
    PROVE  VInv'
<1> DEFINE c == reads[d].c
<1>1. /\ phase # "down" /\ reads[d] # NoRead /\ reads' = [reads EXCEPT ![d] = NoRead]
      /\ UNCHANGED <<store, venue, wire, handler, reply, phase, delivered>>
  BY DEF ReadAnswered, TaskMayRun
<1>2. PICK view \in Answered(d) :
         LET absent == d = "inflight" /\ view.st = "none" /\ view.fills = 0
             spent == BudgetSpent(misses[c] + 1)
         IN  \/ /\ absent /\ ~spent
                /\ misses' = [misses EXCEPT ![c] = @ + 1]
                /\ UNCHANGED <<bus, armed, hasty>>
             \/ /\ absent /\ spent
                /\ misses' = [misses EXCEPT ![c] = 0]
                /\ PublishAll(d, <<Status(c, "FAILED", FALSE)>>)
                /\ hasty' = Hastened(d)
                /\ UNCHANGED armed
             \/ /\ ~absent
                /\ misses' = IF d = "inflight" THEN [misses EXCEPT ![c] = 0] ELSE misses
                /\ Adopt(d, c, view)
  BY Zenon DEF ReadAnswered
<1>3. /\ c \in Cloids /\ view \in Views /\ view.fills \in 0..venue[c].fills
      /\ Seen(d, view, store[c], venue[c], Sending(c), Sure(d), armed[c])
  BY <1>1, AnswerSeen
<1>4. \A e \in Cloids : armed[e] => Past(store'[e])
  BY <1>1 DEF VInv, Reading
<1>5. CASE d = "inflight" /\ view.st = "none" /\ view.fills = 0
           /\ UNCHANGED <<bus, armed, hasty>>
  <2>1. <<>> \in Seq(Message) /\ AllHonest(<<>>)
    BY DEF AllHonest
  <2>2. PublishAll(d, <<>>)
    <3>1. queue \o <<>> = queue
      BY ConcatEmptySeq DEF IInv, TypeOK
    <3> QED BY <1>5, <3>1 DEF PublishAll, bus
  <2> QED BY <1>1, <1>4, <1>5, <2>1, <2>2, AnswerKeeps
<1>6. CASE /\ d = "inflight" /\ view.st = "none" /\ view.fills = 0 /\ BudgetSpent(misses[c] + 1)
           /\ PublishAll(d, <<Status(c, "FAILED", FALSE)>>) /\ hasty' = Hastened(d) /\ UNCHANGED armed
  <2>1. store[c].st # "none"
    BY <1>3 DEF Seen
  <2>2. c \in hasty' \/ (~venue[c].rec /\ ~Sending(c))
    <3>1. CASE reads[d].racing
      BY <1>6, <3>1 DEF Hastened
    <3>2. CASE ~reads[d].racing
      <4>1. Sure(d)
        BY <1>6, <3>2 DEF BudgetSpent, Sure
      <4> QED BY <1>3, <1>6, <4>1, NoTrace
    <3> QED BY <3>1, <3>2
  <2>3. hasty \subseteq hasty'
    BY <1>6 DEF Hastened
  <2> QED BY <1>1, <1>3, <1>4, <1>6, <2>1, <2>2, <2>3, FailedHonest, AnswerKeeps
<1>7. CASE /\ ~(d = "inflight" /\ view.st = "none" /\ view.fills = 0)
           /\ misses' = IF d = "inflight" THEN [misses EXCEPT ![c] = 0] ELSE misses
           /\ Adopt(d, c, view)
  BY <1>1, <1>7, AdoptKeeps
<1> QED BY <1>2, <1>5, <1>6, <1>7

-------------------------------------------------------------------------------
\* The invariant holds from the start, and every step keeps it.

LEMMA VerdictInit == Init => VInv
<1> SUFFICES ASSUME Init PROVE VInv
  OBVIOUS
<1>1. PipeHonest
  BY DEF Init, PipeHonest
<1>2. ASSUME NEW c \in Cloids PROVE Fits(store[c], venue[c], Sending(c), Hasty(c))
  <2>1. /\ store[c].st = "none" /\ store[c].fills = {} /\ store[c].cum = 0 /\ ~store[c].oid
        /\ venue[c].st = "absent" /\ venue[c].fills = 0 /\ ~venue[c].rec /\ ~Sending(c)
    BY DEF Init, NoSaga, Sending
  <2> QED BY <2>1, SagaEngineAssumption DEF Fits, RowSane, OrderSane, Healed, TrueEnd, IsTerminal,
            TerminalStates
<1>3. Rows
  BY <1>2 DEF Rows
<1>4. Replied /\ Reading
  BY DEF Init, Replied, Reading, Idle
<1>5. Drains
  BY DEF Init, Drains
<1> QED BY <1>1, <1>3, <1>4, <1>5 DEF VInv

LEMMA VerdictStep ==
    ASSUME IInv, VInv, [Next]_vars
    PROVE  VInv'
<1>1. CASE Strategy
  BY <1>1, EmitKeeps DEF Strategy
<1>2. CASE Dispatch
  BY <1>2, HandleEventKeeps, HandlePlaceKeeps, HandleCancelKeeps, HandleStatusKeeps, HandleFillKeeps,
     PublishNextKeeps DEF Dispatch
<1>3. CASE Adapter
  BY <1>3, AdapterKeeps DEF Adapter
<1>4. CASE Venue
  BY <1>4, VenueKeeps DEF Venue
<1>5. CASE Reconcile
  BY <1>5, ReadStartKeeps, ReadAnsweredKeeps, ReadFailedKeeps DEF Reconcile
<1>6. CASE BarrierClears
  BY <1>6, BarrierKeeps
<1>7. CASE Crash
  <2>1. Stop /\ UNCHANGED <<store, venue, wire, hasty, delivered>>
    BY <1>7 DEF Crash, history
  <2> QED BY <2>1, StopKeeps
<1>8. CASE Restart
  BY <1>8, RestartKeeps
<1>9. CASE \E m \in delivered : Redeliver(m)
  BY <1>9, RedeliverKeeps
<1>10. CASE UNCHANGED vars
  BY <1>10, StutterKeeps
<1> QED BY <1>1, <1>2, <1>3, <1>4, <1>5, <1>6, <1>7, <1>8, <1>9, <1>10 DEF Next

LEMMA VerdictInvariance == Spec => [](IInv /\ VInv)
<1>1. IInv /\ VInv /\ [Next]_vars => VInv'
  BY VerdictStep
<1> QED BY <1>1, VerdictInit, Invariance, PTL DEF Spec

\* However stale reads, lost answers and verdicts cross, and however long a send
\* takes, a row ends only when the order can trade no more, and as it ended there
\* while the venue can still be asked; but for a row failed on a read that began
\* while its placement was still on the wire.
THEOREM VerdictsAreTrue == Spec => []TerminalAgreesWithVenue
<1>1. IInv /\ VInv => TerminalAgreesWithVenue
  BY DEF VInv, Rows, Fits, TrueEnd, TerminalAgreesWithVenue, Sending, Hasty, Traceable
<1> QED BY <1>1, VerdictInvariance, PTL

\* An order that ends on its own, and can still be asked of the venue, ends with
\* every trade booked, for orders of any size.
THEOREM EndedWithEveryTrade == Spec => []EndedOrdersAreHealed
<1>1. IInv /\ VInv => EndedOrdersAreHealed
  BY DEF VInv, Rows, Fits, Healed, EndedOrdersAreHealed, Traceable
<1> QED BY <1>1, VerdictInvariance, PTL

-------------------------------------------------------------------------------
\* The rows implement the contract: what each step is to it.

\* The rows alone move: the market and the overdue orders stay.
MarketStands ==
    /\ UNCHANGED venue
    /\ \A c \in Cloids : Racing(c)' = Racing(c) /\ (Overdue(c)' <=> Overdue(c))

LEMMA MarketSame ==
    ASSUME UNCHANGED <<venue, hasty, reads>>,
           \A c \in Cloids : <<"place", c>> \in wire' <=> <<"place", c>> \in wire
    PROVE  MarketStands
<1>1. ASSUME NEW c \in Cloids PROVE Racing(c)' = Racing(c)
  <2>1. Racing(c)' <=> Racing(c)
    BY DEF Racing
  <2>2. Racing(c) \in BOOLEAN /\ Racing(c)' \in BOOLEAN
    BY DEF Racing
  <2> QED BY <2>1, <2>2
<1>2. \A c \in Cloids : Overdue(c)' <=> Overdue(c)
  BY DEF Overdue
<1> QED BY <1>1, <1>2 DEF MarketStands

\* No row changes its state or its count.
LEMMA ContractStutters ==
    ASSUME \A c \in Cloids : store'[c].st = store[c].st /\ store'[c].cum = store[c].cum,
           MarketStands
    PROVE  UNCHANGED Contract!vars
BY DEF Contract!vars, MarketStands

\* A question that came too early is dropped, by its answer or with the process.
LEMMA ContractRelents ==
    ASSUME UNCHANGED <<store, venue, wire>>, \A c \in Cloids : Overdue(c)' => Overdue(c)
    PROVE  Contract!Next
<1>1. \A c \in Cloids : Racing(c)' = Racing(c)
  BY DEF Racing
<1>2. Contract!Relent
  BY <1>1 DEF Contract!Relent
<1> QED BY <1>2 DEF Contract!Next

LEMMA ContractEnters ==
    ASSUME NEW c \in Cloids, NEW st, store'[c].st = st,
           \A d \in Cloids : store'[d].cum = store[d].cum,
           \A d \in Cloids \ {c} : store'[d].st = store[d].st
    PROVE  Contract!Enter(c, st)
BY DEF Contract!Enter

\* A row is written for an order that stays, or for one that sets out.
LEMMA ContractIntends ==
    ASSUME NEW c \in Cloids, store[c].st = "none",
           \/ store'[c].st \in {"SUBMITTED", "DENIED"} /\ UNCHANGED wire
           \/ store'[c].st = "PENDING" /\ wire' = wire \cup {<<"place", c>>},
           UNCHANGED <<venue, hasty, reads>>,
           \A d \in Cloids : store'[d].cum = store[d].cum,
           \A d \in Cloids \ {c} : store'[d].st = store[d].st
    PROVE  Contract!Next
<1>1. CASE store'[c].st \in {"SUBMITTED", "DENIED"} /\ UNCHANGED wire
  <2>1. PICK st \in {"SUBMITTED", "DENIED"} : st = store'[c].st
    BY <1>1
  <2>2. Contract!Enter(c, st)
    BY <2>1, ContractEnters
  <2>3. MarketStands
    BY <1>1, MarketSame
  <2>4. Contract!Withhold(c)
    BY <2>2, <2>3 DEF Contract!Withhold, MarketStands
  <2> QED BY <2>4 DEF Contract!Next
<1>2. CASE store'[c].st = "PENDING" /\ wire' = wire \cup {<<"place", c>>}
  <2>1. Contract!Enter(c, "PENDING")
    BY <1>2, ContractEnters
  <2>2. Racing(c)' = TRUE /\ \A d \in Cloids \ {c} : Racing(d)' = Racing(d)
    BY <1>2 DEF Racing
  <2>3. \A d \in Cloids : Overdue(d)' <=> Overdue(d)
    BY DEF Overdue
  <2>4. Contract!SetOut(c)
    BY <2>1, <2>2, <2>3 DEF Contract!SetOut
  <2> QED BY <2>4 DEF Contract!Next
<1> QED BY <1>1, <1>2

\* A status is the market's own word.
LEMMA ContractMoves ==
    ASSUME NEW c \in Cloids, NEW st \in StatusMoves, MayEnter(store[c], st),
           NEW m, m.kind = "status", m.st = st,
           Honest(m, {}, store[c], venue[c], Sending(c), Hasty(c)),
           venue[c] \in VenueOrder, store'[c].st = st, MarketStands,
           \A d \in Cloids : store'[d].cum = store[d].cum,
           \A d \in Cloids \ {c} : store'[d].st = store[d].st
    PROVE  Contract!Next
<1>1. Contract!Enter(c, st)
  BY ContractEnters
<1>2. Contract!Proof(c, st)
  <2>1. ~IsTerminal(store[c])
    BY DEF MayEnter, LegalTransitions, IsTerminal, TerminalStates
  <2>2. CASE st = "SUBMITTED"
    BY <2>2 DEF Contract!Proof
  <2>3. CASE st = "FAILED"
    <3>1. Overdue(c) \/ ~venue[c].rec
      BY <2>1, <2>3 DEF Honest, Hasty, Overdue
    <3> QED BY <2>3, <3>1 DEF Contract!Proof, Contract!Forgotten
  <2>4. CASE st \in {"LIVE", "CANCELLED", "REJECTED"}
    BY <2>1, <2>4 DEF Contract!Proof, Contract!Forgotten, Honest, Landed, Gone
  <2> QED BY <2>2, <2>3, <2>4 DEF StatusMoves
<1>3. st \in Contract!OrderStates
  BY DEF Contract!OrderStates, StatusMoves
<1>4. Contract!MayEnter([st |-> store[c].st, booked |-> store[c].cum], st)
  BY DEF Contract!MayEnter, Contract!LegalTransitions, MayEnter, LegalTransitions
<1>5. Contract!Move(c)
  BY <1>1, <1>2, <1>3, <1>4 DEF Contract!Move, MarketStands
<1> QED BY <1>5 DEF Contract!Next

\* A fill books one trade of those the market has seen.
LEMMA ContractBooks ==
    ASSUME NEW c \in Cloids, NEW t, store[c] \in Saga(Lots),
           Fits(store[c], venue[c], Sending(c), Hasty(c)), MayEnter(store[c], FillTarget(store[c], Lots)),
           store' = [store EXCEPT ![c] = ApplyFill(store[c], t, Lots)],
           store \in [Cloids -> Saga(Lots)], venue \in [Cloids -> VenueOrder],
           BookedOnce', MarketStands
    PROVE  Contract!Next
<1> DEFINE booked == store[c].cum + 1
           target == FillTarget(store[c], Lots)
<1>1. /\ store'[c].st = target /\ store'[c].cum = booked
      /\ \A d \in Cloids \ {c} : store'[d] = store[d]
  BY DEF ApplyFill, Saga
<1>2. store[c].cum \in Nat /\ store[c].cum < Lots /\ Lots \in Nat
  <2>1. ~IsTerminal(store[c])
    BY DEF MayEnter, LegalTransitions, IsTerminal, TerminalStates
  <2>2. store[c].st # "FILLED"
    BY <2>1 DEF IsTerminal, TerminalStates
  <2> QED BY <2>2, SagaEngineAssumption DEF Fits, RowSane, Saga
<1>3. target = IF booked = Lots THEN "FILLED" ELSE "PARTIALLY_FILLED"
  BY <1>2 DEF FillTarget
<1>4. booked <= venue[c].fills
  <2>1. venue[c].fills \in Nat /\ store'[c].fills \subseteq 1..venue[c].fills
        /\ booked = Cardinality(store'[c].fills)
    BY <1>1, SagaEngineAssumption DEF BookedOnce, VenueOrder, MarketStands
  <2>2. IsFiniteSet(1..venue[c].fills) /\ Cardinality(1..venue[c].fills) = venue[c].fills
    <3>1. 1 \in Int /\ venue[c].fills \in Int
      BY <2>1
    <3>2. PICK n \in Nat : n = venue[c].fills
      BY <2>1
    <3>3. IsFiniteSet(1..n) /\ Cardinality(1..n) = IF 1 > n THEN 0 ELSE n - 1 + 1
      BY FS_Interval
    <3> QED BY <3>2, <3>3
  <2>3. Cardinality(store'[c].fills) <= Cardinality(1..venue[c].fills)
    BY <2>1, <2>2, FS_Subset, Zenon
  <2> QED BY <2>1, <2>2, <2>3
<1> HIDE DEF target, booked
<1>5. Contract!MayEnter([st |-> store[c].st, booked |-> store[c].cum], target)
  BY DEF Contract!MayEnter, Contract!LegalTransitions, MayEnter, LegalTransitions, target
<1>6. Contract!Book(c)
  BY <1>1, <1>3, <1>4, <1>5 DEF Contract!Book, booked, MarketStands
<1> QED BY <1>6 DEF Contract!Next

\* What the venue does, the market does.
LEMMA ContractTrades ==
    ASSUME IInv, VInv, NEW c \in Cloids,
           \/ VenueTakesPlace(c) \/ VenueTakesCancel(c)
           \/ \E op \in {"place", "cancel"} : WireLoses(op, c)
           \/ VenueFills(c) \/ VenueCancels(c) \/ VenueForgets(c)
    PROVE  Contract!Next \/ UNCHANGED Contract!vars
<1>1. /\ venue \in [Cloids -> VenueOrder] /\ UNCHANGED <<store, hasty, reads>>
      /\ Fits(store[c], venue[c], Sending(c), Hasty(c)) /\ store[c] \in Saga(Lots)
      /\ \A d \in Cloids : Overdue(d)' <=> Overdue(d)
  <2>1. UNCHANGED <<store, hasty, reads>>
    BY DEF VenueTakesPlace, VenueTakesCancel, WireLoses, VenueFills, VenueCancels, VenueForgets,
           VenueUnchanged, history, reconciler
  <2>2. \A d \in Cloids : Overdue(d)' <=> Overdue(d)
    BY <2>1 DEF Overdue
  <2> QED BY <2>1, <2>2 DEF VInv, Rows, IInv, TypeOK
<1>2. ASSUME UNCHANGED venue, NEW request, wire' = wire \ {request}
      PROVE  Contract!Next \/ UNCHANGED Contract!vars
  <2>1. CASE request \in wire /\ \E d \in Cloids : request = <<"place", d>>
    <3>1. PICK d \in Cloids : request = <<"place", d>>
      BY <2>1
    <3>2. Racing(d) /\ Racing(d)' = FALSE /\ \A e \in Cloids \ {d} : Racing(e)' = Racing(e)
      BY <1>2, <2>1, <3>1 DEF Racing
    <3>3. Contract!GoAstray(d)
      BY <1>1, <1>2, <3>2 DEF Contract!GoAstray
    <3> QED BY <3>3 DEF Contract!Next
  <2>2. CASE ~(request \in wire /\ \E d \in Cloids : request = <<"place", d>>)
    <3>1. MarketStands
      BY <1>1, <1>2, <2>2, MarketSame
    <3> QED BY <1>1, <3>1, ContractStutters
  <2> QED BY <2>1, <2>2
<1>3. ASSUME NEW order \in VenueOrder, Sending(c), wire' = wire \ {<<"place", c>>},
             venue' = [venue EXCEPT ![c] = order],
             order \in [st : {"open"}, fills : 0..(Lots - 1), rec : {TRUE}]
                       \cup {[st |-> "filled", fills |-> Lots, rec |-> TRUE],
                             [st |-> "rejected", fills |-> 0, rec |-> TRUE]}
      PROVE  Contract!Next
  <2>1. /\ venue[c].st = "absent"
        /\ store[c].st \in {"PENDING", "SUBMITTED"} \/ (store[c].st = "FAILED" /\ Overdue(c))
    <3>1. /\ venue[c].st = "absent" /\ ~Landed(venue[c])
          /\ IsTerminal(store[c]) => store[c].st = "FAILED" /\ Overdue(c)
      BY <1>1, <1>3 DEF Fits, TrueEnd, Landed, Hasty, Overdue
    <3>2. store[c].st # "none"
      BY <1>3 DEF IInv, Sent, Sending
    <3> QED BY <1>1, <3>1, <3>2 DEF Fits, RowSane, Saga, OrderStates, IsTerminal, TerminalStates
  <2>2. Racing(c) /\ Racing(c)' = FALSE /\ \A d \in Cloids \ {c} : Racing(d)' = Racing(d)
    BY <1>3 DEF Racing, Sending
  <2>3. /\ order = [st |-> order.st, fills |-> order.fills, rec |-> TRUE]
        /\ order.st \in {"open", "filled", "rejected"} /\ order.fills \in 0..Lots
        /\ order.st = "open" => order.fills < Lots
        /\ order.st = "filled" => order.fills = Lots
        /\ order.st = "rejected" => order.fills = 0
    <3>1. CASE order \in [st : {"open"}, fills : 0..(Lots - 1), rec : {TRUE}]
      <4>1. order.st = "open" /\ order.fills \in 0..(Lots - 1) /\ order.rec = TRUE
        BY <3>1
      <4>2. order.fills \in 0..Lots /\ order.fills < Lots
        BY <4>1, SagaEngineAssumption
      <4>3. order = [st |-> order.st, fills |-> order.fills, rec |-> TRUE]
        BY <3>1, <4>1
      <4> QED BY <4>1, <4>2, <4>3
    <3>2. CASE order = [st |-> "filled", fills |-> Lots, rec |-> TRUE]
      BY <3>2, SagaEngineAssumption
    <3>3. CASE order = [st |-> "rejected", fills |-> 0, rec |-> TRUE]
      BY <3>3, SagaEngineAssumption
    <3> QED BY <1>3, <3>1, <3>2, <3>3
  <2>4. \A d \in Cloids : venue'[d] = IF d = c THEN order ELSE venue[d]
    BY <1>1, <1>3
  <2>5. UNCHANGED store /\ \A d \in Cloids : Overdue(d)' <=> Overdue(d)
    BY <1>1
  <2>6. Contract!Land(c)
    <3> DEFINE market == [d \in Cloids |-> [st |-> venue[d].st, fills |-> venue[d].fills,
                                           kept |-> venue[d].rec, coming |-> Racing(d)]]
               Landing(st, n) == [st |-> st, fills |-> n, kept |-> TRUE, coming |-> FALSE]
    <3>1. market' = [market EXCEPT ![c] = Landing(order.st, order.fills)]
      <4>1. /\ venue'[c].st = order.st /\ venue'[c].fills = order.fills
            /\ venue'[c].rec = TRUE /\ Racing(c)' = FALSE
        BY <2>2, <2>3, <2>4
      <4>2. \A d \in Cloids \ {c} : venue'[d] = venue[d] /\ Racing(d)' = Racing(d)
        BY <2>2, <2>4
      <4> QED BY <4>1, <4>2
    <3>2. \E st \in {"open", "filled", "rejected"}, n \in 0..Lots :
             /\ st = "open" => n < Lots
             /\ st = "filled" => n = Lots
             /\ st = "rejected" => n = 0
             /\ market' = [market EXCEPT ![c] = Landing(st, n)]
      <4> HIDE DEF market
      <4> USE <2>3
      <4> WITNESS order.st \in {"open", "filled", "rejected"}, order.fills \in 0..Lots
      <4> QED BY <3>1
    <3> QED BY <2>1, <2>2, <2>5, <3>2 DEF Contract!Land
  <2> QED BY <2>6 DEF Contract!Next
<1>4. CASE VenueTakesPlace(c)
  <2>1. Sending(c) /\ wire' = wire \ {<<"place", c>>}
    BY <1>4 DEF VenueTakesPlace, Sending
  <2>2. \/ UNCHANGED venue
        \/ \E order \in [st : {"open"}, fills : 0..(Lots - 1), rec : {TRUE}]
                        \cup {[st |-> "filled", fills |-> Lots, rec |-> TRUE],
                              [st |-> "rejected", fills |-> 0, rec |-> TRUE]} :
              venue' = [venue EXCEPT ![c] = order]
    BY <1>4 DEF VenueTakesPlace
  <2>3. \A n \in 0..(Lots - 1) : n \in 0..Lots
    BY SagaEngineAssumption
  <2>4. [st : {"open"}, fills : 0..(Lots - 1), rec : {TRUE}]
        \cup {[st |-> "filled", fills |-> Lots, rec |-> TRUE],
              [st |-> "rejected", fills |-> 0, rec |-> TRUE]} \subseteq VenueOrder
    <3>1. [st : {"open"}, fills : 0..(Lots - 1), rec : {TRUE}] \subseteq VenueOrder
      BY <2>3 DEF VenueOrder
    <3>2. /\ [st |-> "filled", fills |-> Lots, rec |-> TRUE] \in VenueOrder
          /\ [st |-> "rejected", fills |-> 0, rec |-> TRUE] \in VenueOrder
      BY SagaEngineAssumption DEF VenueOrder
    <3> QED BY <3>1, <3>2
  <2> QED BY <1>2, <1>3, <2>1, <2>2, <2>4
<1>5. CASE VenueTakesCancel(c) \/ VenueCancels(c)
  <2>1. \/ UNCHANGED venue /\ wire' = wire \ {<<"cancel", c>>}
        \/ venue[c].st = "open" /\ venue' = [venue EXCEPT ![c].st = "cancelled"]
    BY <1>5 DEF VenueTakesCancel, VenueCancels
  <2>2. ASSUME venue[c].st = "open", venue' = [venue EXCEPT ![c].st = "cancelled"]
        PROVE  Contract!Next
    <3>1. wire' = wire \ {<<"cancel", c>>} \/ wire' = wire
      BY <1>5 DEF VenueTakesCancel, VenueCancels
    <3>2. \A d \in Cloids : Racing(d)' = Racing(d)
      BY <3>1 DEF Racing
    <3>3. Contract!End(c)
      BY <1>1, <2>2, <3>2 DEF Contract!End, VenueOrder
    <3> QED BY <3>3 DEF Contract!Next
  <2> QED BY <1>2, <2>1, <2>2
<1>6. CASE \E op \in {"place", "cancel"} : WireLoses(op, c)
  BY <1>2, <1>6 DEF WireLoses
<1>7. CASE VenueFills(c)
  <2>1. venue[c].st = "open"
        /\ venue' = [venue EXCEPT ![c].fills = @ + 1,
                                  ![c].st = IF venue[c].fills + 1 = Lots THEN "filled" ELSE "open"]
    BY <1>7 DEF VenueFills
  <2>2. /\ venue'[c].fills = venue[c].fills + 1 /\ venue'[c].rec = venue[c].rec
        /\ venue'[c].st = IF venue[c].fills + 1 = Lots THEN "filled" ELSE "open"
        /\ \A d \in Cloids \ {c} : venue'[d] = venue[d]
    BY <1>1, <2>1 DEF VenueOrder
  <2>3. \A d \in Cloids : Racing(d)' = Racing(d)
    BY <1>7 DEF VenueFills, Racing
  <2>4. Contract!Trade(c)
    BY <1>1, <2>1, <2>2, <2>3 DEF Contract!Trade
  <2> QED BY <2>4 DEF Contract!Next
<1>8. CASE VenueForgets(c)
  <2>1. \A d \in Cloids : Racing(d)' = Racing(d)
    BY <1>8 DEF VenueForgets, Racing
  <2>2. Contract!Forget(c)
    BY <1>1, <1>8, <2>1 DEF VenueForgets, Contract!Forget, VenueOrder
  <2> QED BY <2>2 DEF Contract!Next
<1> QED BY <1>4, <1>5, <1>6, <1>7, <1>8

\* A stop drops every question, and what was overdue by it alone.
LEMMA ContractStops ==
    ASSUME Stop, UNCHANGED <<store, venue, wire, hasty>>
    PROVE  Contract!Next
<1>1. \A c \in Cloids : Overdue(c)' => Overdue(c)
  BY DEF Stop, Overdue, NoRead
<1> QED BY <1>1, ContractRelents

\* A dispatch moves the row of its order, or none.
LEMMA ContractDispatches ==
    ASSUME IInv, VInv, BookedOnce',
           HandleEvent \/ HandlePlace \/ HandleCancel \/ HandleStatus \/ HandleFill
    PROVE  Contract!Next \/ UNCHANGED Contract!vars
<1> DEFINE m == Head(queue)
           c == m.c
<1>1. CASE HandleEvent
  <2>1. MarketStands
    BY <1>1, MarketSame DEF HandleEvent, reconciler
  <2> QED BY <1>1, <2>1, ContractStutters DEF HandleEvent
<1>2. ASSUME NEW kind, Dispatching(kind)
      PROVE  /\ c \in Cloids /\ m.kind = kind /\ cache[c] = store[c] /\ handler = Idle
             /\ queue \in Seq(Message) /\ queue # <<>>
             /\ store \in [Cloids -> Saga(Lots)] /\ store[c] \in Saga(Lots)
             /\ venue \in [Cloids -> VenueOrder] /\ venue[c] \in VenueOrder
             /\ Fits(store[c], venue[c], Sending(c), Hasty(c))
             /\ \A order : store' = [store EXCEPT ![c] = order] =>
                   store'[c] = order /\ \A d \in Cloids \ {c} : store'[d] = store[d]
  BY <1>2, Dispatched, IdleMemory DEF IInv, TypeOK, VInv, Rows, Dispatching
<1>3. CASE HandlePlace
  <2>1. Dispatching("place") /\ UNCHANGED <<venue, hasty, reads>>
    BY <1>3 DEF HandlePlace, reconciler
  <2>2. PlaceKnown(c) \/ PlaceDenied(c) \/ PlaceSent(c) \/ PlaceUnpriced(c)
    BY <1>3 DEF HandlePlace
  <2>3. CASE PlaceKnown(c)
    <3>1. UNCHANGED <<store, wire>>
      BY <2>3 DEF PlaceKnown
    <3> QED BY <2>1, <3>1, MarketSame, ContractStutters
  <2>4. CASE ~PlaceKnown(c)
    <3>1. /\ ~Known(c)
          /\ \E order \in {Denied, NewOrder, Submitted} :
                /\ store' = [store EXCEPT ![c] = order]
                /\ IF order = NewOrder THEN wire' = wire \cup {<<"place", c>>} ELSE UNCHANGED wire
      <4>1. NewOrder.st = "PENDING" /\ Denied.st = "DENIED" /\ Submitted.st = "SUBMITTED"
        BY DEF Denied, NewOrder, Submitted, ApplyStatus, NoSaga
      <4>2. Denied # NewOrder /\ Submitted # NewOrder
        BY <4>1
      <4> QED BY <2>2, <2>4, <4>2 DEF PlaceDenied, PlaceSent, PlaceUnpriced, Commit, WriteAhead,
                                     Checkpointed, Denied, Submitted
    <3>2. PICK order \in {Denied, NewOrder, Submitted} :
             /\ store' = [store EXCEPT ![c] = order]
             /\ IF order = NewOrder THEN wire' = wire \cup {<<"place", c>>} ELSE UNCHANGED wire
      BY <3>1
    <3>3. store[c] = NoSaga
      BY <1>2, <2>1, <3>1 DEF Known
    <3>4. /\ order.cum = 0
          /\ \/ order.st \in {"SUBMITTED", "DENIED"} /\ UNCHANGED wire
             \/ order.st = "PENDING" /\ wire' = wire \cup {<<"place", c>>}
      BY <3>2 DEF Denied, NewOrder, Submitted, ApplyStatus, NoSaga
    <3>5. store[c].st = "none" /\ store[c].cum = 0
      BY <3>3 DEF NoSaga
    <3>6. store'[c] = order /\ \A d \in Cloids \ {c} : store'[d] = store[d]
      BY <1>2, <2>1, <3>2
    <3>7. \A d \in Cloids : store'[d].cum = store[d].cum
      BY <3>4, <3>5, <3>6
    <3> QED BY <1>2, <2>1, <3>4, <3>5, <3>6, <3>7, ContractIntends
  <2> QED BY <2>3, <2>4
<1>4. CASE HandleCancel
  <2>1. Dispatching("cancel") /\ UNCHANGED <<venue, hasty, reads>>
    BY <1>4 DEF HandleCancel, reconciler, history
  <2>2. UNCHANGED store \/ store' = [store EXCEPT ![c] = RequestCancel(cache[c])]
    BY <1>4 DEF HandleCancel, Checkpointed
  <2>3. RequestCancel(store[c]).st = store[c].st /\ RequestCancel(store[c]).cum = store[c].cum
    BY <1>2, <2>1 DEF RequestCancel, Saga
  <2>4. \A d \in Cloids : store'[d].st = store[d].st /\ store'[d].cum = store[d].cum
    BY <1>2, <2>1, <2>2, <2>3
  <2>5. \A d \in Cloids : <<"place", d>> \in wire' <=> <<"place", d>> \in wire
    BY <1>4 DEF HandleCancel
  <2> QED BY <2>1, <2>4, <2>5, MarketSame, ContractStutters
<1>5. CASE HandleStatus
  <2>1. Dispatching("status")
    BY <1>5 DEF HandleStatus
  <2>2. \/ UNCHANGED <<store, venue, wire, hasty, reads>>
        \/ Stop /\ UNCHANGED <<store, venue, wire, hasty>>
        \/ /\ IsOpen(cache[c]) /\ m.st \in StatusMoves /\ MayEnter(cache[c], m.st)
           /\ store' = [store EXCEPT ![c] = ApplyStatus(cache[c], m.st, m.oid)]
           /\ UNCHANGED <<venue, wire, hasty, reads>>
    BY <1>5 DEF HandleStatus, Commit, Checkpointed, Fault, reconciler, history
  <2>3. CASE UNCHANGED <<store, venue, wire, hasty, reads>>
    BY <2>3, MarketSame, ContractStutters
  <2>4. CASE Stop /\ UNCHANGED <<store, venue, wire, hasty>>
    BY <2>4, ContractStops
  <2>5. CASE /\ IsOpen(cache[c]) /\ m.st \in StatusMoves /\ MayEnter(cache[c], m.st)
             /\ store' = [store EXCEPT ![c] = ApplyStatus(cache[c], m.st, m.oid)]
             /\ UNCHANGED <<venue, wire, hasty, reads>>
    <3>1. Honest(m, {}, store[c], venue[c], Sending(c), Hasty(c))
      <4>1. m = queue[1] /\ 1 \in DOMAIN queue /\ 1 - 1 = 0
        BY <1>2, <2>1, EmptySeq, LenProperties
      <4> QED BY <4>1, BeforeNothing DEF VInv, PipeHonest, HonestNow
    <3> DEFINE next == ApplyStatus(store[c], m.st, m.oid)
    <3>2. next.st = m.st /\ next.cum = store[c].cum
      BY <1>2, <2>1 DEF ApplyStatus, Saga
    <3>3. store'[c] = next /\ \A d \in Cloids \ {c} : store'[d] = store[d]
      BY <1>2, <2>1, <2>5
    <3> HIDE DEF next
    <3>4. \A d \in Cloids : store'[d].cum = store[d].cum
      BY <3>2, <3>3
    <3>5. MarketStands
      BY <2>5, MarketSame
    <3> QED BY <1>2, <2>1, <2>5, <3>1, <3>2, <3>3, <3>4, <3>5, ContractMoves
  <2> QED BY <2>2, <2>3, <2>4, <2>5
<1>6. CASE HandleFill
  <2>1. Dispatching("fill")
    BY <1>6 DEF HandleFill
  <2>2. \/ UNCHANGED <<store, venue, wire, hasty, reads>>
        \/ Stop /\ UNCHANGED <<store, venue, wire, hasty>>
        \/ /\ MayEnter(cache[c], FillTarget(cache[c], Lots))
           /\ store' = [store EXCEPT ![c] = ApplyFill(cache[c], m.t, Lots)]
           /\ UNCHANGED <<venue, wire, hasty, reads>>
    BY <1>6 DEF HandleFill, Commit, Checkpointed, Fault, reconciler, history
  <2>3. CASE UNCHANGED <<store, venue, wire, hasty, reads>>
    BY <2>3, MarketSame, ContractStutters
  <2>4. CASE Stop /\ UNCHANGED <<store, venue, wire, hasty>>
    BY <2>4, ContractStops
  <2>5. CASE /\ MayEnter(cache[c], FillTarget(cache[c], Lots))
             /\ store' = [store EXCEPT ![c] = ApplyFill(cache[c], m.t, Lots)]
             /\ UNCHANGED <<venue, wire, hasty, reads>>
    BY <1>2, <2>1, <2>5, MarketSame, ContractBooks
  <2> QED BY <2>2, <2>3, <2>4, <2>5
<1> QED BY <1>1, <1>3, <1>4, <1>5, <1>6

\* The checkpoint after the send is the row's own next state.
LEMMA ContractResumes ==
    ASSUME IInv, VInv, NEW c \in Cloids,
           PlaceAnswered(c) \/ PlaceFillsRead(c) \/ CancelAnswered(c) \/ Unanswered(c)
    PROVE  Contract!Next \/ UNCHANGED Contract!vars
<1>1. PICK next \in {Idle, [at |-> "fills", c |-> c]} :
         /\ store' = AfterSend(c, next) /\ UNCHANGED <<venue, wire, hasty, reads>>
         /\ handler.at = "cancel" => next = Idle
  BY DEF PlaceAnswered, PlaceFillsRead, CancelAnswered, Unanswered, Resume, reconciler, history
<1>2. \A d \in Cloids : \/ store'[d] = store[d]
                        \/ d = c /\ store[d] = NewOrder /\ store'[d] = Submitted
  <2>1. handler \in [at : {"place", "fills", "cancel"}, c : {c}]
    <3>1. handler.at \in {"place", "fills", "cancel"} /\ handler.c = c
      BY DEF PlaceAnswered, PlaceFillsRead, CancelAnswered, Unanswered
    <3> QED BY <3>1 DEF IInv, TypeOK, Idle
  <2> QED BY <1>1, <2>1, AfterSendMoves
<1>3. /\ NewOrder.st = "PENDING" /\ NewOrder.cum = 0 /\ Submitted.st = "SUBMITTED" /\ Submitted.cum = 0
  BY DEF NoSaga, NewOrder, ApplyStatus, Submitted
<1>4. MarketStands
  BY <1>1, MarketSame
<1>5. CASE store'[c] = store[c]
  BY <1>2, <1>4, <1>5, ContractStutters
<1>6. CASE store'[c] # store[c]
  <2>1. store[c] = NewOrder /\ store'[c] = Submitted
    BY <1>2, <1>6
  <2>2. PICK m : m = Status(c, "SUBMITTED", FALSE)
    OBVIOUS
  <2>3. Says(m, c, "SUBMITTED") /\ ~m.oid
    BY <2>2, StatusFields, Zenon
  <2>4. Honest(m, {}, store[c], venue[c], Sending(c), Hasty(c))
    BY <2>3 DEF Honest, Says
  <2>5. "SUBMITTED" \in StatusMoves /\ MayEnter(store[c], "SUBMITTED")
    BY <1>3, <2>1 DEF StatusMoves, MayEnter, LegalTransitions
  <2>6. /\ \A d \in Cloids : store'[d].cum = store[d].cum
        /\ \A d \in Cloids \ {c} : store'[d].st = store[d].st
        /\ store'[c].st = "SUBMITTED" /\ venue[c] \in VenueOrder
    BY <1>2, <1>3, <2>1 DEF IInv, TypeOK
  <2> QED BY <1>4, <2>3, <2>4, <2>5, <2>6, ContractMoves DEF Says
<1> QED BY <1>5, <1>6

\* A read that starts while the placement is on the wire makes the order overdue; its
\* answer makes it so for good, if it fails the order.
LEMMA ContractReads ==
    ASSUME IInv, NEW d \in Cadences,
           (\E c \in Cloids : ReadStart(d, c)) \/ ReadAnswered(d) \/ ReadFailed(d)
    PROVE  Contract!Next \/ UNCHANGED Contract!vars
<1>1. /\ UNCHANGED <<store, venue, wire>>
      /\ reads \in [Cadences -> [c : Cloids, view : Views, racing : BOOLEAN] \cup {NoRead}]
  BY DEF ReadStart, ReadAnswered, ReadFailed, IInv, TypeOK
<1>2. ASSUME NEW c \in Cloids, ReadStart(d, c)
      PROVE  Contract!Next \/ UNCHANGED Contract!vars
  <2>1. /\ UNCHANGED hasty /\ reads[d] = NoRead
        /\ reads'[d].c = c /\ reads'[d].racing = Racing(c)
        /\ \A e \in Cadences \ {d} : reads'[e] = reads[e]
    BY <1>1, <1>2 DEF ReadStart, history
  <2>2. \A o \in Cloids : Overdue(o)' <=> Overdue(o) \/ (o = c /\ Racing(c))
    BY <2>1 DEF Overdue, NoRead
  <2>3. \A o \in Cloids : Racing(o)' = Racing(o)
    BY <1>1 DEF Racing
  <2>4. CASE Racing(c)
    <3>1. Contract!FallDue(c)
      BY <1>1, <2>2, <2>3, <2>4 DEF Contract!FallDue
    <3> QED BY <3>1 DEF Contract!Next
  <2>5. CASE ~Racing(c)
    <3>1. MarketStands
      BY <1>1, <2>2, <2>3, <2>5 DEF MarketStands
    <3> QED BY <1>1, <3>1, ContractStutters
  <2> QED BY <2>4, <2>5
<1>3. ASSUME \A e \in Cadences : reads'[e] = reads[e] \/ reads'[e] = NoRead,
             hasty' = hasty \/ hasty' = Hastened(d)
      PROVE  Contract!Next
  <2>1. \A c \in Cloids : c \in hasty' => Overdue(c)
    BY <1>3 DEF Hastened, Overdue
  <2>2. \A c \in Cloids : Overdue(c)' => Overdue(c)
    BY <1>3, <2>1 DEF Overdue, NoRead
  <2> QED BY <1>1, <2>2, ContractRelents
<1>4. CASE ReadAnswered(d)
  <2>1. \A e \in Cadences : reads'[e] = reads[e] \/ reads'[e] = NoRead
    BY <1>1, <1>4 DEF ReadAnswered
  <2>2. hasty' = hasty \/ hasty' = Hastened(d)
    BY <1>4 DEF ReadAnswered, Adopt
  <2> QED BY <1>3, <2>1, <2>2
<1>5. CASE ReadFailed(d)
  <2>1. \A e \in Cadences : reads'[e] = reads[e] \/ reads'[e] = NoRead
    BY <1>1, <1>5 DEF ReadFailed
  <2> QED BY <1>3, <1>5, <2>1 DEF ReadFailed, history
<1> QED BY <1>2, <1>4, <1>5

LEMMA ContractStep ==
    ASSUME IInv, VInv, IInv', [Next]_vars
    PROVE  Contract!Next \/ UNCHANGED Contract!vars
<1>1. CASE Strategy \/ PublishNext \/ BarrierClears \/ Restart
           \/ (\E m \in delivered : Redeliver(m)) \/ UNCHANGED vars
  <2>1. UNCHANGED <<store, venue, wire, hasty, reads>>
    BY <1>1 DEF Strategy, EmitPlace, EmitCancel, Emit, PublishNext, BarrierClears, Restart, Redeliver,
                vars, history, reconciler
  <2> QED BY <2>1, MarketSame, ContractStutters
<1>2. CASE HandleEvent \/ HandlePlace \/ HandleCancel \/ HandleStatus \/ HandleFill
  BY <1>2, ContractDispatches DEF IInv
<1>3. CASE Adapter
  BY <1>3, ContractResumes DEF Adapter
<1>4. CASE Venue
  BY <1>4, ContractTrades DEF Venue
<1>5. CASE Reconcile
  BY <1>5, ContractReads DEF Reconcile
<1>6. CASE Crash
  BY <1>6, ContractStops DEF Crash, history
<1> QED BY <1>1, <1>2, <1>3, <1>4, <1>5, <1>6 DEF Next, Dispatch

\* The durable rows are a record of what became of the orders: whatever the bus, the
\* memory, the requests, the reads and the crashes do, they move as OrderContract says.
THEOREM RowsImplementContract == Spec => ImplementsContract
<1>1. Init => Contract!Init
  <2> SUFFICES ASSUME Init PROVE Contract!Init
    OBVIOUS
  <2>1. \A c \in Cloids : Racing(c) = FALSE /\ ~Overdue(c)
    BY DEF Init, Racing, Overdue, NoRead
  <2>2. \A c \in Cloids : /\ store[c].st = "none" /\ store[c].cum = 0
                        /\ venue[c].st = "absent" /\ venue[c].fills = 0 /\ venue[c].rec = FALSE
    BY DEF Init, NoSaga
  <2> QED BY <2>1, <2>2 DEF Contract!Init
<1>2. IInv /\ VInv /\ IInv' /\ [Next]_vars => [Contract!Next]_(Contract!vars)
  BY ContractStep
<1> QED BY <1>1, <1>2, VerdictInvariance, PTL DEF Spec, ImplementsContract, Contract!Spec

(***************************************************************************)
(* The startup barrier clears only over resolved intents, in every         *)
(* behaviour of SagaEngine: no order is PENDING once the strategies run.   *)
(* It takes two things: while the barrier is down no venue call suspends   *)
(* the drain, whatever signals are redelivered, and what the pass proved   *)
(* of a PENDING order is on the bus before the barrier may clear.          *)
(***************************************************************************)

Members(q) == {q[i] : i \in DOMAIN q}

\* A cancel that has been dispatched finds nothing to cancel if it comes again: the
\* row is marked or terminal, or the order was never met and no place of it comes.
Spent(c) ==
    \/ store[c] # NoSaga /\ ~MayRequestCancel(store[c])
    \/ store[c] = NoSaga /\ \A m \in Members(queue) : ~(m.kind = "place" /\ m.c = c)

\* A row met stays met, and one that takes no cancel takes none later.
Held(row, next) ==
    row # NoSaga => next # NoSaga /\ (~MayRequestCancel(row) => ~MayRequestCancel(next))

\* The strategy's signals: an order is placed before anything else is said of it.
Signals ==
    /\ \A c \in Cloids : store[c] # NoSaga => PlaceSignal(c) \in asked
    /\ \A m \in Members(queue) \cup delivered :
          m.kind \in {"place", "cancel", "event"} => PlaceSignal(m.c) \in asked
    /\ \A m \in Members(outbox) : m.kind \in {"status", "fill", "judge"}
    /\ \A m \in delivered : m.kind = "place" => store[m.c] # NoSaga
    /\ \A m \in delivered : m.kind = "cancel" => Spent(m.c)
    /\ \A i, j \in DOMAIN queue :
          i < j /\ queue[i].kind = "cancel" /\ queue[j].kind = "place" /\ queue[j].c = queue[i].c
              => store[queue[i].c] # NoSaga

\* While the barrier is down no handler calls the venue, and every cancel on the
\* bus has been there before.
Quiet ==
    /\ phase = "starting" =>
          handler = Idle /\ \A m \in Members(queue) : m.kind = "cancel" => m \in delivered
    /\ phase = "down" => queue = <<>> /\ proved = {}

\* A PENDING row has entered nothing yet.
Untouched == \A c \in Cloids : store[c].st = "PENDING" => store[c].entered = {}

Bridges(m, c) == m.kind = "status" /\ m.c = c /\ m.st \in {"SUBMITTED", "FAILED"}

\* What a pass concluded of a PENDING order is still on its way to the order.
Proving ==
    phase = "starting" => \A c \in proved :
        cache[c].st = "PENDING" => \E m \in Members(queue) \cup Members(outbox) : Bridges(m, c)

BInv == Signals /\ Quiet /\ Untouched /\ Proving /\ BarrierProvesAll

-------------------------------------------------------------------------------
\* The members of queues.

LEMMA MembersJoined ==
    ASSUME NEW q \in Seq(Message), NEW r \in Seq(Message)
    PROVE  Members(q \o r) = Members(q) \cup Members(r)
<1> PICK joined : joined = q \o r
  OBVIOUS
<1>1. \A i \in DOMAIN joined : joined[i] \in Members(q) \cup Members(r)
  BY EachJoined DEF Members
<1>2. /\ Len(q) \in Nat /\ Len(r) \in Nat /\ DOMAIN q = 1..Len(q) /\ DOMAIN r = 1..Len(r)
      /\ joined \in Seq(Message) /\ Len(joined) = Len(q) + Len(r)
      /\ DOMAIN joined = 1 .. Len(q) + Len(r)
  BY LenProperties, ConcatProperties
<1>3. \A i \in 1 .. Len(q) + Len(r) : joined[i] = IF i <= Len(q) THEN q[i] ELSE r[i - Len(q)]
  BY ConcatProperties, Zenon
<1> HIDE DEF Message
<1>4. \A i \in DOMAIN q : i \in DOMAIN joined /\ joined[i] = q[i]
  BY <1>2, <1>3
<1>5. ASSUME NEW i \in DOMAIN r PROVE \E j \in DOMAIN joined : joined[j] = r[i]
  <2>1. PICK j : j = Len(q) + i
    OBVIOUS
  <2>2. j \in 1 .. Len(q) + Len(r) /\ ~(j <= Len(q)) /\ j - Len(q) = i
    BY <1>2, <2>1
  <2>3. joined[j] = r[j - Len(q)]
    BY <1>3, <2>2, Zenon
  <2> QED BY <1>2, <2>2, <2>3
<1>6. Members(q) \subseteq Members(joined) /\ Members(r) \subseteq Members(joined)
  <2>1. ASSUME NEW m \in Members(q) PROVE m \in Members(joined)
    <3>1. PICK i \in DOMAIN q : m = q[i]
      BY Zenon DEF Members
    <3>2. i \in DOMAIN joined /\ joined[i] = m
      BY <1>4, <3>1, Zenon
    <3> QED BY <3>2, Zenon DEF Members
  <2>2. ASSUME NEW m \in Members(r) PROVE m \in Members(joined)
    <3>1. PICK i \in DOMAIN r : m = r[i]
      BY Zenon DEF Members
    <3>2. PICK j \in DOMAIN joined : joined[j] = m
      BY <1>5, <3>1, Zenon
    <3> QED BY <3>2, Zenon DEF Members
  <2> QED BY <2>1, <2>2, Zenon
<1>7. Members(joined) \subseteq Members(q) \cup Members(r)
  BY <1>1 DEF Members
<1> QED BY <1>6, <1>7

LEMMA OneMessage == \A m \in Message : <<m>> \in Seq(Message)
<1> HIDE DEF Message
<1> QED OBVIOUS

LEMMA MembersFew ==
    /\ Members(<<>>) = {}
    /\ \A m : Members(<<m>>) = {m}
<1>1. Members(<<>>) = {}
  BY DEF Members
<1>2. ASSUME NEW m PROVE Members(<<m>>) = {m}
  <2>1. DOMAIN <<m>> = {1} /\ <<m>>[1] = m
    OBVIOUS
  <2> QED BY <2>1 DEF Members
<1> QED BY <1>1, <1>2

LEMMA MembersTail ==
    ASSUME NEW q \in Seq(Message), q # <<>>
    PROVE  /\ Members(q) = Members(Tail(q)) \cup {Head(q)} /\ Tail(q) \in Seq(Message)
           /\ Head(q) = q[1] /\ 1 \in DOMAIN q
           /\ \A i \in DOMAIN Tail(q) : i + 1 \in DOMAIN q /\ Tail(q)[i] = q[i + 1]
           /\ Len(Tail(q)) = Len(q) - 1
<1>1. /\ Len(q) \in Nat \ {0} /\ DOMAIN q = 1..Len(q) /\ Head(q) = q[1] /\ Tail(q) \in Seq(Message)
      /\ DOMAIN Tail(q) = 1..(Len(q) - 1)
      /\ \A i \in 1..(Len(q) - 1) : Tail(q)[i] = q[i + 1]
      /\ Len(Tail(q)) = Len(q) - 1
  BY LenProperties, HeadTailProperties, EmptySeq
<1> PICK rest : rest = Tail(q)
  OBVIOUS
<1>2. \A i \in DOMAIN rest : i + 1 \in DOMAIN q /\ rest[i] = q[i + 1]
  BY <1>1
<1>3. \A i \in DOMAIN q : i = 1 \/ (i - 1 \in DOMAIN rest /\ rest[i - 1] = q[i])
  BY <1>1
<1>4. 1 \in DOMAIN q
  BY <1>1
<1>5. Members(rest) \subseteq Members(q)
  BY <1>2 DEF Members
<1>6. Members(q) \subseteq Members(rest) \cup {q[1]} /\ q[1] \in Members(q)
  <2>1. ASSUME NEW i \in DOMAIN q PROVE q[i] \in Members(rest) \cup {q[1]}
    <3>1. CASE i = 1
      BY <3>1
    <3>2. CASE i # 1
      BY <1>3, <3>2 DEF Members
    <3> QED BY <3>1, <3>2
  <2> QED BY <1>4, <2>1 DEF Members
<1> QED BY <1>1, <1>2, <1>4, <1>5, <1>6

\* What a task publishes is on the bus, and so is all that was.
LEMMA MembersPublished ==
    ASSUME queue \in Seq(Message), outbox \in Seq(Message), NEW msgs \in Seq(Message),
           NEW task, PublishAll(task, msgs)
    PROVE  /\ Members(queue') \cup Members(outbox') = Members(queue) \cup Members(outbox) \cup Members(msgs)
           /\ Members(queue) \subseteq Members(queue')
           /\ Members(queue') \subseteq Members(queue) \cup Members(msgs)
           /\ Members(outbox') \subseteq Members(outbox) \cup Members(msgs)
<1>1. CASE Draining \/ msgs = <<>>
  <2>1. queue' = queue \o msgs /\ outbox' = outbox
    BY <1>1 DEF PublishAll
  <2> QED BY <2>1, MembersJoined
<1>2. CASE ~(Draining \/ msgs = <<>>)
  <2>1. queue' = <<Head(msgs)>> /\ outbox' = Tail(msgs) /\ msgs # <<>> /\ queue = <<>> /\ outbox = <<>>
    BY <1>2 DEF PublishAll, Draining
  <2>2. Members(queue') = {Head(msgs)} /\ Members(queue) = {} /\ Members(outbox) = {}
    BY <2>1, MembersFew
  <2>3. Members(msgs) = Members(outbox') \cup {Head(msgs)}
    BY <2>1, MembersTail
  <2> QED BY <2>2, <2>3
<1> QED BY <1>1, <1>2

LEMMA HeldSame ==
    ASSUME NEW row, NEW next, next = row
    PROVE  Held(row, next) /\ (next # NoSaga => row # NoSaga)
BY DEF Held

-------------------------------------------------------------------------------
\* The queue moves on at its head and grows at its end.

Flows(New) ==
    \E k \in {0, 1} : \A j \in DOMAIN queue' :
        \/ j + k \in DOMAIN queue /\ queue'[j] = queue[j + k]
        \/ j + k \notin DOMAIN queue /\ queue'[j] \in New

LEMMA FlowsAppended ==
    ASSUME queue \in Seq(Message), NEW msgs \in Seq(Message),
           \/ queue' = queue \o msgs
           \/ queue # <<>> /\ queue' = Tail(queue) \o msgs
    PROVE  Flows(Members(msgs))
<1>1. ASSUME NEW q \in Seq(Message), NEW k \in {0, 1}, queue' = q \o msgs, Len(q) + k = Len(queue),
             \A i \in DOMAIN q : i + k \in DOMAIN queue /\ q[i] = queue[i + k]
      PROVE  Flows(Members(msgs))
  <2>1. Len(q) \in Nat /\ DOMAIN q = 1..Len(q) /\ Len(queue) \in Nat /\ DOMAIN queue = 1..Len(queue)
        /\ Len(msgs) \in Nat /\ DOMAIN msgs = 1..Len(msgs)
    BY LenProperties
  <2>2. ASSUME NEW j \in DOMAIN queue'
        PROVE  \/ j + k \in DOMAIN queue /\ queue'[j] = queue[j + k]
               \/ j + k \notin DOMAIN queue /\ queue'[j] \in Members(msgs)
    <3>1. CASE j \in DOMAIN q /\ queue'[j] = q[j]
      BY <1>1, <3>1
    <3>2. ASSUME NEW i \in DOMAIN msgs, queue'[j] = msgs[i], j - 1 = Len(q) + (i - 1)
          PROVE  j + k \notin DOMAIN queue /\ queue'[j] \in Members(msgs)
      <4>1. j \in Nat
        <5>1. queue' \in Seq(Message)
          BY <1>1, ConcatProperties
        <5> QED BY <5>1, LenProperties
      <4>2. j + k \notin DOMAIN queue
        BY <1>1, <2>1, <3>2, <4>1
      <4> QED BY <3>2, <4>2 DEF Members
    <3> QED BY <1>1, <3>1, <3>2, EachJoined
  <2> QED BY <2>2 DEF Flows
<1>2. CASE queue' = queue \o msgs
  <2>1. Len(queue) \in Nat /\ DOMAIN queue = 1..Len(queue)
    BY LenProperties
  <2>2. Len(queue) + 0 = Len(queue) /\ \A i \in DOMAIN queue : i + 0 = i
    BY <2>1
  <2>3. \A i \in DOMAIN queue : i + 0 \in DOMAIN queue /\ queue[i] = queue[i + 0]
    BY <2>2
  <2> QED BY <1>1, <1>2, <2>2, <2>3
<1>3. CASE queue # <<>> /\ queue' = Tail(queue) \o msgs
  <2>1. Len(queue) \in Nat
    BY LenProperties
  <2>2. Len(Tail(queue)) + 1 = Len(queue)
    BY <1>3, <2>1, MembersTail
  <2> QED BY <1>1, <1>3, <2>2, MembersTail
<1> QED BY <1>2, <1>3

LEMMA FlowsPublished ==
    ASSUME queue \in Seq(Message), outbox \in Seq(Message), NEW msgs \in Seq(Message),
           NEW task, PublishAll(task, msgs)
    PROVE  Flows(Members(msgs))
<1>1. CASE Draining \/ msgs = <<>>
  BY <1>1, FlowsAppended DEF PublishAll
<1>2. CASE ~(Draining \/ msgs = <<>>)
  <2>1. queue' = <<Head(msgs)>> /\ msgs # <<>> /\ queue = <<>>
    BY <1>2 DEF PublishAll, Draining
  <2>2. Head(msgs) \in Members(msgs)
    BY <2>1, MembersTail
  <2>3. DOMAIN queue' = {1} /\ queue'[1] = Head(msgs) /\ DOMAIN queue = {}
    BY <2>1
  <2> QED BY <2>2, <2>3 DEF Flows
<1> QED BY <1>1, <1>2

LEMMA FlowsInto ==
    ASSUME NEW New, Flows(New)
    PROVE  Members(queue') \subseteq Members(queue) \cup New
BY DEF Flows, Members

\* What keeps the signals in order, whichever step it is.
LEMMA SignalsKept ==
    ASSUME IInv, Signals, asked \subseteq asked', queue' \in Seq(Message),
           NEW New, New \subseteq Message, Flows(New),
           \A m \in New : m.kind \in {"place", "cancel", "event"} => PlaceSignal(m.c) \in asked',
           \A m \in New : m.kind = "place" => store'[m.c] # NoSaga \/ PlaceSignal(m.c) \notin asked,
           \A m, n \in New : ~(m.kind = "cancel" /\ n.kind = "place"),
           \A m \in Members(outbox') : m.kind \in {"status", "fill", "judge"},
           \A c \in Cloids :
              /\ Held(store[c], store'[c])
              /\ store'[c] # NoSaga =>
                    \/ store[c] # NoSaga
                    \/ \E m \in Members(queue) : m.kind = "place" /\ m.c = c,
           \A m \in delivered' \ delivered :
              /\ m \in Members(queue)
              /\ m.kind = "place" => store'[m.c] # NoSaga
              /\ m.kind = "cancel" => Spent(m.c)'
    PROVE  Signals'
<1> USE DEF Held
<1>1. /\ \A m \in Message : m.c \in Cloids
      /\ Members(queue) \subseteq Message /\ delivered \subseteq Message
      /\ queue \in Seq(Message)
  <2>1. queue \in Seq(Message) /\ delivered \subseteq Message
    BY DEF IInv, TypeOK
  <2>2. Members(queue) \subseteq Message
    BY <2>1 DEF Members
  <2>3. \A m \in Message : m.c \in Cloids
    BY DEF Message
  <2> QED BY <2>1, <2>2, <2>3
<1>2. Members(queue') \subseteq Members(queue) \cup New
  BY FlowsInto
<1> HIDE DEF Message
<1>3. \A c \in Cloids : store'[c] # NoSaga => PlaceSignal(c) \in asked'
  BY DEF Signals
<1>4. \A m \in Members(queue') \cup delivered' :
         m.kind \in {"place", "cancel", "event"} => PlaceSignal(m.c) \in asked'
  <2>1. \A m \in Members(queue) \cup delivered \cup New :
           m.kind \in {"place", "cancel", "event"} => PlaceSignal(m.c) \in asked'
    BY DEF Signals
  <2> QED BY <1>2, <2>1
<1>5. \A m \in delivered' : m.kind = "place" => store'[m.c] # NoSaga
  BY <1>1 DEF Signals
<1>6. ASSUME NEW m \in delivered, m.kind = "cancel" PROVE Spent(m.c)'
  <2>1. m.c \in Cloids /\ Spent(m.c) /\ PlaceSignal(m.c) \in asked
    BY <1>1, <1>6 DEF Signals
  <2>2. CASE store[m.c] # NoSaga /\ ~MayRequestCancel(store[m.c])
    BY <2>1, <2>2 DEF Spent
  <2>3. CASE store[m.c] = NoSaga /\ \A n \in Members(queue) : ~(n.kind = "place" /\ n.c = m.c)
    <3>1. store'[m.c] = NoSaga
      BY <2>1, <2>3
    <3>2. \A n \in New : ~(n.kind = "place" /\ n.c = m.c)
      BY <2>1, <3>1
    <3>3. \A n \in Members(queue') : ~(n.kind = "place" /\ n.c = m.c)
      BY <1>2, <2>3, <3>2
    <3> QED BY <3>1, <3>3 DEF Spent
  <2> QED BY <2>1, <2>2, <2>3 DEF Spent
<1>7. ASSUME NEW i \in DOMAIN queue', NEW j \in DOMAIN queue', i < j, queue'[i].kind = "cancel",
             queue'[j].kind = "place", queue'[j].c = queue'[i].c
      PROVE  store'[queue'[i].c] # NoSaga
  <2> DEFINE c == queue'[i].c
  <2>1. PICK k \in {0, 1} : \A n \in DOMAIN queue' :
           \/ n + k \in DOMAIN queue /\ queue'[n] = queue[n + k]
           \/ n + k \notin DOMAIN queue /\ queue'[n] \in New
    BY DEF Flows
  <2> i \in Int /\ j \in Int
    BY LenProperties
  <2>2. c \in Cloids
    <3>1. queue'[i] \in Members(queue')
      BY DEF Members
    <3> QED BY <1>1, <1>2, <3>1
  <2>3. CASE i + k \in DOMAIN queue /\ queue'[i] = queue[i + k]
    <3>1. queue'[i] \in Members(queue) /\ PlaceSignal(c) \in asked
      <4>1. queue'[i] \in Members(queue)
        BY <2>3 DEF Members
      <4> QED BY <1>7, <4>1 DEF Signals
    <3>2. CASE j + k \in DOMAIN queue /\ queue'[j] = queue[j + k]
      <4>1. i + k < j + k
        BY <1>7
      <4>2. store[c] # NoSaga
        BY <1>7, <2>3, <3>2, <4>1 DEF Signals
      <4> QED BY <2>2, <4>2
    <3>3. CASE queue'[j] \in New
      BY <1>7, <3>1, <3>3
    <3> QED BY <2>1, <3>2, <3>3
  <2>4. CASE i + k \notin DOMAIN queue /\ queue'[i] \in New
    <3>1. CASE queue'[j] \in New
      BY <1>7, <2>4, <3>1
    <3>2. CASE j + k \in DOMAIN queue
      <4>1. DOMAIN queue = 1..Len(queue) /\ Len(queue) \in Nat
        BY <1>1, LenProperties
      <4> QED BY <1>7, <2>4, <3>2, <4>1
    <3> QED BY <2>1, <3>1, <3>2
  <2> QED BY <2>1, <2>3, <2>4
<1> QED BY <1>3, <1>4, <1>5, <1>6, <1>7 DEF Signals

-------------------------------------------------------------------------------
\* What keeps the barrier sound, whichever step it is.

LEMMA BarrierKept ==
    ASSUME IInv, BInv, Signals', phase # "down", phase' = phase, Untouched',
           \A c \in Cloids : cache'[c].st = "PENDING" => cache[c].st = "PENDING",
           phase = "starting" =>
              handler' = Idle /\ \A m \in Members(queue') : m.kind = "cancel" => m \in delivered',
           \A c \in proved' : phase = "starting" /\ cache'[c].st = "PENDING" =>
              \/ c \in proved /\ \A m \in Members(queue) \cup Members(outbox) :
                    Bridges(m, c) => m \in Members(queue') \cup Members(outbox')
              \/ \E m \in Members(queue') \cup Members(outbox') : Bridges(m, c),
           proved' \subseteq Cloids
    PROVE  BInv'
<1>1. Quiet'
  BY DEF Quiet
<1>2. Proving'
  <2>1. ASSUME phase = "starting", NEW c \in proved', cache'[c].st = "PENDING"
        PROVE  \E m \in Members(queue') \cup Members(outbox') : Bridges(m, c)
    <3>1. CASE c \in proved /\ \A m \in Members(queue) \cup Members(outbox) :
                  Bridges(m, c) => m \in Members(queue') \cup Members(outbox')
      <4>1. \E m \in Members(queue) \cup Members(outbox) : Bridges(m, c)
        BY <2>1, <3>1 DEF BInv, Proving
      <4> QED BY <3>1, <4>1
    <3> QED BY <2>1, <3>1
  <2>2. \A m, c : Bridges(m, c)' <=> Bridges(m, c)
    BY DEF Bridges
  <2> QED BY <2>1 DEF Proving, Bridges
<1>3. BarrierProvesAll'
  BY DEF BInv, BarrierProvesAll
<1> QED BY <1>1, <1>2, <1>3 DEF BInv

\* A publish: whatever is on its way to an order stays on its way.
LEMMA PublishBarrier ==
    ASSUME IInv, BInv, NEW msgs \in Seq(Message), NEW task, PublishAll(task, msgs),
           phase # "down", UNCHANGED <<store, cache, phase, handler, delivered>>,
           asked \subseteq asked', proved' \subseteq Cloids,
           \A m \in Members(msgs) :
              /\ m.kind \in {"place", "cancel", "event"} => PlaceSignal(m.c) \in asked'
              /\ m.kind = "place" => store[m.c] # NoSaga \/ PlaceSignal(m.c) \notin asked
              /\ phase = "starting" /\ m.kind = "cancel" => m \in delivered,
           \A m, n \in Members(msgs) : ~(m.kind = "cancel" /\ n.kind = "place"),
           \A m \in Members(outbox') : m.kind \in {"status", "fill", "judge"},
           \A c \in proved' : phase = "starting" /\ cache[c].st = "PENDING" =>
              c \in proved \/ \E m \in Members(msgs) : Bridges(m, c)
    PROVE  BInv'
<1>1. queue \in Seq(Message) /\ outbox \in Seq(Message) /\ Members(msgs) \subseteq Message
  <2>1. Members(msgs) \subseteq Message
    BY DEF Members
  <2> QED BY <2>1 DEF IInv, TypeOK
<1>2. queue' \in Seq(Message)
  <2>1. CASE Draining \/ msgs = <<>>
    BY <1>1, <2>1, ConcatProperties DEF PublishAll
  <2>2. CASE ~(Draining \/ msgs = <<>>)
    BY <1>1, <2>2, Queues DEF PublishAll
  <2> QED BY <2>1, <2>2
<1>3. /\ Members(queue') \cup Members(outbox') = Members(queue) \cup Members(outbox) \cup Members(msgs)
      /\ Members(queue') \subseteq Members(queue) \cup Members(msgs)
      /\ Flows(Members(msgs))
  BY <1>1, MembersPublished, FlowsPublished
<1>4. Signals'
  <2>1. \A m \in Members(msgs) : m.kind = "place" => store'[m.c] # NoSaga \/ PlaceSignal(m.c) \notin asked
    OBVIOUS
  <2>2. \A c \in Cloids :
              /\ Held(store[c], store'[c])
              /\ store'[c] # NoSaga =>
                    \/ store[c] # NoSaga
                    \/ \E m \in Members(queue) : m.kind = "place" /\ m.c = c
    BY HeldSame
  <2>3. delivered' \ delivered = {}
    OBVIOUS
  <2> QED BY <1>1, <1>2, <1>3, <2>1, <2>2, <2>3, SignalsKept DEF BInv
<1>5. Untouched'
  BY DEF BInv, Untouched
<1>6. phase = "starting" =>
         handler' = Idle /\ \A m \in Members(queue') : m.kind = "cancel" => m \in delivered'
  BY <1>3 DEF BInv, Quiet
<1>7. \A c \in proved' : phase = "starting" /\ cache'[c].st = "PENDING" =>
              \/ c \in proved /\ \A m \in Members(queue) \cup Members(outbox) :
                    Bridges(m, c) => m \in Members(queue') \cup Members(outbox')
              \/ \E m \in Members(queue') \cup Members(outbox') : Bridges(m, c)
  BY <1>3
<1>8. phase' = phase /\ \A c \in Cloids : cache'[c].st = "PENDING" => cache[c].st = "PENDING"
  OBVIOUS
<1> QED BY <1>4, <1>5, <1>6, <1>7, <1>8, BarrierKept

\* One message of the feed's task leaves nothing to publish.
LEMMA FeedBarrier ==
    ASSUME IInv, BInv, NEW m \in Message, PublishAll("feed", <<m>>),
           phase # "down", UNCHANGED <<store, cache, phase, handler, delivered, proved>>,
           asked \subseteq asked',
           m.kind \in {"place", "cancel", "event"} => PlaceSignal(m.c) \in asked',
           m.kind = "place" => store[m.c] # NoSaga \/ PlaceSignal(m.c) \notin asked,
           phase = "starting" /\ m.kind = "cancel" => m \in delivered
    PROVE  BInv'
<1>1. <<m>> \in Seq(Message) /\ Members(<<m>>) = {m}
  BY MembersFew
<1>2. outbox' = outbox \/ outbox' = <<>>
  <2>1. Tail(<<m>>) = <<>>
    OBVIOUS
  <2> QED BY <2>1 DEF PublishAll
<1>3. \A n \in Members(outbox') : n.kind \in {"status", "fill", "judge"}
  BY <1>2, MembersFew DEF BInv, Signals
<1>4. proved' \subseteq Cloids
  BY DEF IInv, TypeOK
<1>5. ~(m.kind = "cancel" /\ m.kind = "place")
  OBVIOUS
<1> QED BY <1>1, <1>3, <1>4, <1>5, PublishBarrier

LEMMA EmitBarrier ==
    ASSUME IInv, BInv, NEW c \in Cloids, EmitPlace(c) \/ EmitCancel(c)
    PROVE  BInv'
<1>1. /\ PlaceSignal(c) \in Message /\ CancelSignal(c) \in Message
      /\ PlaceSignal(c).kind = "place" /\ PlaceSignal(c).c = c
      /\ CancelSignal(c).kind = "cancel" /\ CancelSignal(c).c = c
  BY MailTyped, Fields DEF Mail, PlaceSignal, CancelSignal, Bare
<1>2. PICK m \in {PlaceSignal(c), CancelSignal(c)} :
         Emit(m) /\ (m = PlaceSignal(c) \/ PlaceSignal(c) \in asked)
  BY DEF EmitPlace, EmitCancel
<1>3. /\ PublishAll("feed", <<m>>) /\ phase = "up" /\ m \notin asked /\ asked' = asked \cup {m}
      /\ UNCHANGED <<store, cache, phase, handler, delivered, proved>>
  BY <1>2 DEF Emit, reconciler
<1>4. m \in Message /\ m.c = c /\ PlaceSignal(c) \in asked'
  BY <1>1, <1>2, <1>3
<1>5. m.kind = "place" => PlaceSignal(m.c) \notin asked
  BY <1>1, <1>2, <1>3
<1> QED BY <1>3, <1>4, <1>5, FeedBarrier

LEMMA RedeliverBarrier ==
    ASSUME IInv, BInv, NEW m \in delivered, Redeliver(m)
    PROVE  BInv'
<1>1. /\ PublishAll("feed", <<m>>) /\ phase # "down"
      /\ UNCHANGED <<store, cache, phase, handler, delivered, proved, asked>>
  BY DEF Redeliver, TaskMayRun, reconciler, history
<1>2. m \in Message
  BY DEF IInv, TypeOK
<1>3. /\ m.kind \in {"place", "cancel", "event"} => PlaceSignal(m.c) \in asked
      /\ m.kind = "place" => store[m.c] # NoSaga
  BY DEF BInv, Signals
<1> QED BY <1>1, <1>2, <1>3, FeedBarrier

\* A dispatch: the head goes, what its handler says comes behind the rest.
LEMMA DispatchBarrier ==
    ASSUME IInv, BInv, NEW kind, Dispatching(kind),
           NEW msgs \in Seq(Message), queue' = Tail(queue) \o msgs,
           UNCHANGED <<outbox, phase, proved>>, asked \subseteq asked',
           \A m \in Members(msgs) :
              /\ m.kind \in {"status", "event", "cancel"}
              /\ m.kind \in {"event", "cancel"} => PlaceSignal(m.c) \in asked'
              /\ phase = "starting" => m.kind # "cancel",
           phase = "starting" => handler' = Idle,
           \A c \in Cloids :
              /\ Held(store[c], store'[c])
              /\ store'[c] # NoSaga => store[c] # NoSaga \/ (kind = "place" /\ c = Head(queue).c),
           kind = "place" => store'[Head(queue).c] # NoSaga,
           kind = "cancel" =>
              store'[Head(queue).c] = NoSaga \/ ~MayRequestCancel(store'[Head(queue).c]),
           \A c \in Cloids : cache'[c].st = "PENDING" => cache[c].st = "PENDING" /\ ~Bridges(Head(queue), c),
           Untouched'
    PROVE  BInv'
<1>1. /\ queue \in Seq(Message) /\ queue # <<>> /\ phase # "down"
      /\ Head(queue).kind = kind /\ Head(queue).c \in Cloids /\ Head(queue) \in Message
      /\ delivered \subseteq delivered' /\ delivered' \subseteq delivered \cup {Head(queue)}
  BY Dispatched DEF Dispatching, IInv, TypeOK
<1>2. /\ Members(queue) = Members(Tail(queue)) \cup {Head(queue)} /\ Tail(queue) \in Seq(Message)
      /\ Head(queue) = queue[1] /\ 1 \in DOMAIN queue
      /\ \A i \in DOMAIN Tail(queue) : i + 1 \in DOMAIN queue /\ Tail(queue)[i] = queue[i + 1]
  BY <1>1, MembersTail
<1>3. /\ Members(queue') = Members(Tail(queue)) \cup Members(msgs)
      /\ queue' \in Seq(Message) /\ Flows(Members(msgs)) /\ Members(msgs) \subseteq Message
  <2>1. queue' \in Seq(Message)
    BY <1>2, ConcatProperties
  <2>2. Members(msgs) \subseteq Message
    BY DEF Members
  <2>3. Flows(Members(msgs))
    BY <1>1, FlowsAppended
  <2> QED BY <1>2, <2>1, <2>2, <2>3, MembersJoined
<1> HIDE DEF Message
<1> PICK head : head = Head(queue)
  OBVIOUS
<1>4. ASSUME kind = "cancel" PROVE Spent(head.c)'
  <2> PICK c \in Cloids : c = head.c
    BY <1>1
  <2>1. CASE store'[c] # NoSaga
    BY <1>4, <2>1 DEF Spent
  <2>2. CASE store'[c] = NoSaga
    <3>1. store[c] = NoSaga
      BY <2>2 DEF Held
    <3>2. ASSUME NEW m \in Members(Tail(queue)), m.kind = "place", m.c = c PROVE FALSE
      <4>1. PICK i \in DOMAIN Tail(queue) : m = Tail(queue)[i]
        BY <3>2 DEF Members
      <4>2. i + 1 \in DOMAIN queue /\ m = queue[i + 1] /\ 1 < i + 1
        <5>1. i \in Nat /\ i > 0
          BY <1>2, LenProperties
        <5> QED BY <1>2, <4>1, <5>1
      <4>3. queue[1].kind = "cancel" /\ queue[1].c = c
        BY <1>1, <1>2, <1>4
      <4> QED BY <1>2, <3>1, <3>2, <4>2, <4>3 DEF BInv, Signals
    <3>3. \A m \in Members(queue') : ~(m.kind = "place" /\ m.c = c)
      BY <1>3, <3>2
    <3> QED BY <2>2, <3>3 DEF Spent
  <2> QED BY <2>1, <2>2
<1>5. Signals'
  <2>1. \A m \in Members(msgs) : m.kind \in {"place", "cancel", "event"} => PlaceSignal(m.c) \in asked'
    OBVIOUS
  <2>2. /\ \A m \in Members(msgs) : m.kind = "place" => store'[m.c] # NoSaga \/ PlaceSignal(m.c) \notin asked
        /\ \A m, n \in Members(msgs) : ~(m.kind = "cancel" /\ n.kind = "place")
    OBVIOUS
  <2>3. \A m \in Members(outbox') : m.kind \in {"status", "fill", "judge"}
    BY DEF BInv, Signals
  <2>4. \A c \in Cloids :
              /\ Held(store[c], store'[c])
              /\ store'[c] # NoSaga =>
                    \/ store[c] # NoSaga
                    \/ \E m \in Members(queue) : m.kind = "place" /\ m.c = c
    BY <1>1, <1>2
  <2>5. \A m \in delivered' \ delivered :
              /\ m \in Members(queue)
              /\ m.kind = "place" => store'[m.c] # NoSaga
              /\ m.kind = "cancel" => Spent(m.c)'
    BY <1>1, <1>2, <1>4
  <2> QED BY <1>3, <2>1, <2>2, <2>3, <2>4, <2>5, SignalsKept DEF BInv
<1>6. phase = "starting" =>
         handler' = Idle /\ \A m \in Members(queue') : m.kind = "cancel" => m \in delivered'
  BY <1>1, <1>2, <1>3 DEF BInv, Quiet
<1>7. \A c \in Cloids : cache'[c].st = "PENDING" =>
         \A m \in Members(queue) \cup Members(outbox) :
            Bridges(m, c) => m \in Members(queue') \cup Members(outbox')
  BY <1>2, <1>3
<1>8. proved' \subseteq Cloids /\ proved' = proved
  BY DEF IInv, TypeOK
<1> QED BY <1>1, <1>5, <1>6, <1>7, <1>8, BarrierKept

LEMMA HandleEventBarrier ==
    ASSUME IInv, BInv, HandleEvent
    PROVE  BInv'
<1> PICK c \in Cloids : c = Head(queue).c
  BY Dispatched DEF HandleEvent
<1> PICK cancel : cancel = CancelSignal(c)
  OBVIOUS
<1>1. /\ Dispatching("event") /\ queue \in Seq(Message) /\ queue # <<>> /\ Head(queue).kind = "event"
      /\ UNCHANGED <<store, cache, handler, outbox, phase, proved>>
  BY DEF HandleEvent, Dispatching, reconciler, IInv, TypeOK
<1>2. cancel \in Message /\ cancel.kind = "cancel" /\ cancel.c = c
  BY MailTyped DEF Mail, CancelSignal, Bare
<1>3. PICK msgs \in {<<>>, <<cancel>>} :
         queue' = Tail(queue) \o msgs /\ asked \subseteq asked' /\ (msgs = <<>> \/ phase = "up")
  <2>1. CASE queue' = Tail(queue) /\ UNCHANGED asked
    BY <1>1, <1>2, <2>1, TailJoined
  <2>2. CASE phase = "up" /\ queue' = Append(Tail(queue), cancel) /\ asked' = asked \cup {cancel}
    BY <1>1, <1>2, <2>2, TailJoined
  <2> QED BY <2>1, <2>2 DEF HandleEvent
<1>4. PlaceSignal(c) \in asked
  BY <1>1, MembersTail DEF BInv, Signals
<1>5. msgs \in Seq(Message) /\ \A m \in Members(msgs) : m = cancel /\ phase = "up"
  <2>1. CASE msgs = <<>>
    BY <2>1, MembersFew
  <2>2. CASE msgs = <<cancel>> /\ phase = "up"
    <3>1. <<cancel>> \in Seq(Message)
      BY <1>2
    <3> QED BY <2>2, <3>1, MembersFew
  <2> QED BY <1>3, <2>1, <2>2
<1>6. \A m \in Members(msgs) :
              /\ m.kind \in {"status", "event", "cancel"}
              /\ m.kind \in {"event", "cancel"} => PlaceSignal(m.c) \in asked'
              /\ phase = "starting" => m.kind # "cancel"
  BY <1>2, <1>3, <1>4, <1>5
<1>7. \A d \in Cloids : cache'[d].st = "PENDING" =>
         cache[d].st = "PENDING" /\ ~Bridges(Head(queue), d)
  BY <1>1 DEF Bridges
<1>8. Untouched' /\ (phase = "starting" => handler' = Idle)
  BY <1>1 DEF BInv, Untouched, Quiet
<1>9. \A d \in Cloids :
              /\ Held(store[d], store'[d])
              /\ store'[d] # NoSaga => store[d] # NoSaga \/ ("event" = "place" /\ d = Head(queue).c)
  <2>1. \A d \in Cloids : store'[d] = store[d]
    BY <1>1
  <2> QED BY <2>1, HeldSame
<1> QED BY <1>1, <1>3, <1>5, <1>6, <1>7, <1>8, <1>9, DispatchBarrier

\* A handler that says nothing, or one row moves on and is announced.
LEMMA IgnoredBarrier ==
    ASSUME IInv, BInv, NEW kind, Dispatching(kind), queue' = Tail(queue),
           UNCHANGED <<store, cache, handler, outbox, phase, proved>>, asked \subseteq asked',
           kind = "place" => store[Head(queue).c] # NoSaga,
           kind = "cancel" =>
              store[Head(queue).c] = NoSaga \/ ~MayRequestCancel(store[Head(queue).c]),
           \A c \in Cloids : Bridges(Head(queue), c) => cache[c].st # "PENDING"
    PROVE  BInv'
<1>1. queue' = Tail(queue) \o <<>> /\ <<>> \in Seq(Message) /\ Members(<<>>) = {}
  <2>1. queue \in Seq(Message) /\ queue # <<>>
    BY DEF Dispatching, IInv, TypeOK
  <2> QED BY <2>1, MembersFew, HeadTailProperties, ConcatEmptySeq
<1>2. Untouched' /\ (phase = "starting" => handler' = Idle)
  BY DEF BInv, Untouched, Quiet
<1>3. kind = "place" => store'[Head(queue).c] # NoSaga
  OBVIOUS
<1>4. kind = "cancel" =>
         store'[Head(queue).c] = NoSaga \/ ~MayRequestCancel(store'[Head(queue).c])
  OBVIOUS
<1>5. \A c \in Cloids :
              /\ Held(store[c], store'[c])
              /\ store'[c] # NoSaga => store[c] # NoSaga \/ (kind = "place" /\ c = Head(queue).c)
  <2>1. \A c \in Cloids : store'[c] = store[c]
    OBVIOUS
  <2> QED BY <2>1, HeldSame
<1>6. \A c \in Cloids : cache'[c].st = "PENDING" => cache[c].st = "PENDING" /\ ~Bridges(Head(queue), c)
  OBVIOUS
<1> QED BY <1>1, <1>2, <1>3, <1>4, <1>5, <1>6, DispatchBarrier

Moves(kind, c, row, order, msgs) ==
    /\ kind \in {"place", "status", "fill"} /\ Dispatching(kind) /\ c = Head(queue).c
    /\ store' = [store EXCEPT ![c] = row] /\ cache' = [cache EXCEPT ![c] = order]
    /\ row # NoSaga /\ (row.st = "PENDING" => row.entered = {}) /\ order.st # "PENDING"
    /\ kind # "place" => store[c] # NoSaga
    /\ store[c] # NoSaga /\ ~MayRequestCancel(store[c]) => ~MayRequestCancel(row)
    /\ queue' = Tail(queue) \o msgs /\ msgs \in Seq(Message)
    /\ \A m \in Members(msgs) : m.c = c /\ m.kind \in {"status", "event"}
    /\ UNCHANGED <<outbox, phase, proved, asked>> /\ (phase = "starting" => handler' = Idle)

LEMMA MovedBarrier ==
    ASSUME IInv, BInv, NEW kind, NEW c \in Cloids, NEW row, NEW order, NEW msgs,
           Moves(kind, c, row, order, msgs)
    PROVE  BInv'
<1> USE DEF Moves
<1>1. /\ queue \in Seq(Message) /\ queue # <<>> /\ Head(queue).kind = kind
      /\ store \in [Cloids -> Saga(Lots)] /\ cache \in [Cloids -> Saga(Lots)]
  BY DEF Dispatching, IInv, TypeOK
<1>2. /\ store'[c] = row /\ \A d \in Cloids \ {c} : store'[d] = store[d]
      /\ cache'[c] = order /\ \A d \in Cloids \ {c} : cache'[d] = cache[d]
  BY <1>1
<1>3. PlaceSignal(c) \in asked
  <2>1. CASE kind = "place"
    BY <1>1, <2>1, MembersTail DEF BInv, Signals
  <2>2. CASE kind # "place"
    BY <2>2 DEF BInv, Signals
  <2> QED BY <2>1, <2>2
<1>4. \A m \in Members(msgs) :
              /\ m.kind \in {"status", "event", "cancel"}
              /\ m.kind \in {"event", "cancel"} => PlaceSignal(m.c) \in asked'
              /\ phase = "starting" => m.kind # "cancel"
  BY <1>3
<1>5. \A d \in Cloids :
              /\ Held(store[d], store'[d])
              /\ store'[d] # NoSaga => store[d] # NoSaga \/ (kind = "place" /\ d = Head(queue).c)
  <2> SUFFICES ASSUME NEW d \in Cloids
               PROVE  /\ Held(store[d], store'[d])
                      /\ store'[d] # NoSaga =>
                            store[d] # NoSaga \/ (kind = "place" /\ d = Head(queue).c)
    BY Zenon
  <2>1. CASE d = c
    <3>1. store'[c] = row
      BY <1>2
    <3> QED BY <2>1, <3>1, Zenon DEF Held
  <2>2. CASE d # c
    <3>1. store'[d] = store[d]
      BY <1>2, <2>2
    <3> QED BY <3>1, HeldSame
  <2> QED BY <2>1, <2>2
<1>6. /\ kind = "place" => store'[Head(queue).c] # NoSaga
      /\ kind = "cancel" =>
              store'[Head(queue).c] = NoSaga \/ ~MayRequestCancel(store'[Head(queue).c])
  BY <1>2
<1>7. \A d \in Cloids : cache'[d].st = "PENDING" =>
         cache[d].st = "PENDING" /\ ~Bridges(Head(queue), d)
  BY <1>2 DEF Bridges
<1>8. Untouched'
  BY <1>2 DEF BInv, Untouched
<1>9. asked \subseteq asked'
  OBVIOUS
<1> QED BY <1>4, <1>5, <1>6, <1>7, <1>8, <1>9, DispatchBarrier

LEMMA HandlePlaceBarrier ==
    ASSUME IInv, BInv, HandlePlace
    PROVE  BInv'
<1> PICK c \in Cloids : c = Head(queue).c
  BY Dispatched DEF HandlePlace
<1>1. /\ Dispatching("place") /\ queue \in Seq(Message) /\ queue # <<>> /\ Head(queue).kind = "place"
      /\ phase # "down" /\ handler = Idle /\ cache[c] = store[c]
      /\ UNCHANGED <<outbox, phase, proved, asked>>
  BY Dispatched, IdleMemory DEF HandlePlace, Dispatching, reconciler, IInv, TypeOK
<1>2. CASE PlaceKnown(c)
  <2>1. /\ store[c] # NoSaga /\ queue' = Tail(queue)
        /\ UNCHANGED <<store, cache, handler, outbox, phase, proved>> /\ asked \subseteq asked'
    BY <1>1, <1>2 DEF PlaceKnown, Known
  <2>2. store[Head(queue).c] # NoSaga
    BY <2>1
  <2>3. \A d \in Cloids : Bridges(Head(queue), d) => cache[d].st # "PENDING"
    BY <1>1 DEF Bridges
  <2> QED BY <1>1, <2>1, <2>2, <2>3, IgnoredBarrier
<1>3. /\ NewOrder # NoSaga /\ Submitted # NoSaga /\ Denied # NoSaga
      /\ NewOrder.entered = {} /\ Submitted.st # "PENDING" /\ Denied.st # "PENDING"
  <2>1. NewOrder.entered = {}
    BY DEF NewOrder, NoSaga
  <2> QED BY <2>1, NewRows
<1>4. ~Known(c) => store[c] = NoSaga
  BY <1>1 DEF Known
<1> DEFINE placed == Placed(c)
<1>5. placed \in Seq(Message) /\ \A m \in Members(placed) : m.c = c /\ m.kind = "event"
  <2>1. PICK e1, e2 : e1 = OrderEvent(c, "PENDING", 0) /\ e2 = OrderEvent(c, "SUBMITTED", 0)
    OBVIOUS
  <2>2. /\ e1 \in Message /\ e1.kind = "event" /\ e1.c = c
        /\ e2 \in Message /\ e2.kind = "event" /\ e2.c = c
    BY <2>1, MessagesTyped, EventFields, StatesNamed, SagaEngineAssumption
  <2>3. placed = <<e1, e2>>
    BY <2>1 DEF Placed
  <2> HIDE DEF placed
  <2>4. DOMAIN placed = {1, 2} /\ placed[1] = e1 /\ placed[2] = e2 /\ placed \in Seq(Message)
    BY <2>2, <2>3
  <2> QED BY <2>2, <2>4 DEF Members
<1> HIDE DEF placed
<1>6. CASE PlaceDenied(c)
  <2> PICK event : event = OrderEvent(c, "DENIED", 0)
    OBVIOUS
  <2>1. /\ store' = [store EXCEPT ![c] = Denied] /\ cache' = [cache EXCEPT ![c] = Denied]
        /\ queue' = Append(Tail(queue), event) /\ ~Known(c) /\ handler' = handler
    BY <1>6 DEF PlaceDenied, Commit, Checkpointed, Denied
  <2>2. event \in Message /\ event.kind = "event" /\ event.c = c
    BY MessagesTyped, EventFields, StatesNamed, SagaEngineAssumption
  <2>3. queue' = Tail(queue) \o <<event>> /\ <<event>> \in Seq(Message) /\ Members(<<event>>) = {event}
    BY <1>1, <2>1, <2>2, TailJoined, MembersFew
  <2>4. handler' = Idle
    BY <1>1, <2>1
  <2>5. Moves("place", c, Denied, Denied, <<event>>)
    BY <1>1, <1>3, <1>4, <2>1, <2>2, <2>3, <2>4 DEF Moves
  <2> QED BY <2>5, MovedBarrier
<1>7. CASE PlaceSent(c)
  <2>1. /\ store' = [store EXCEPT ![c] = NewOrder] /\ cache' = [cache EXCEPT ![c] = Submitted]
        /\ queue' = Tail(queue) \o placed /\ ~Known(c) /\ phase = "up"
    BY <1>7 DEF PlaceSent, WriteAhead, Checkpointed, Submitted, placed
  <2>2. phase # "starting" /\ "place" # "status"
    BY <2>1
  <2>3. Moves("place", c, NewOrder, Submitted, placed)
    BY <1>1, <1>3, <1>4, <1>5, <2>1, <2>2 DEF Moves
  <2> QED BY <2>3, MovedBarrier
<1>8. CASE PlaceUnpriced(c)
  <2> PICK failed : failed = Status(c, "FAILED", FALSE)
    OBVIOUS
  <2>1. /\ store' = [store EXCEPT ![c] = Submitted] /\ cache' = [cache EXCEPT ![c] = Submitted]
        /\ queue' = Tail(queue) \o placed \o <<failed>> /\ ~Known(c) /\ phase = "up"
    BY <1>8 DEF PlaceUnpriced, Checkpointed, Submitted, placed
  <2>2. failed \in Message /\ failed.kind = "status" /\ failed.c = c
    <3>1. failed \in Mail
      BY MailTyped, StatesNamed, Zenon
    <3>2. Says(failed, c, "FAILED")
      BY StatusFields
    <3> QED BY <3>1, <3>2 DEF Mail, Says
  <2>3. /\ <<failed>> \in Seq(Message) /\ Members(<<failed>>) = {failed}
        /\ Tail(queue) \in Seq(Message)
    <3>1. Tail(queue) \in Seq(Message)
      BY <1>1, MembersTail
    <3>2. <<failed>> \in Seq(Message)
      BY <2>2, OneMessage
    <3> QED BY <3>1, <3>2, MembersFew
  <2> PICK msgs : msgs = placed \o <<failed>>
    OBVIOUS
  <2>4. msgs \in Seq(Message) /\ queue' = Tail(queue) \o msgs
    <3>1. Tail(queue) \o placed \o <<failed>> = Tail(queue) \o msgs
      BY <1>5, <2>3, ConcatAssociative
    <3> QED BY <1>5, <2>1, <2>3, <3>1, ConcatProperties
  <2>5. Members(msgs) = Members(placed) \cup {failed}
    <3>1. placed \in Seq(Message) /\ <<failed>> \in Seq(Message)
      BY <1>5, <2>3, Zenon
    <3>2. Members(placed \o <<failed>>) = Members(placed) \cup Members(<<failed>>)
      BY <3>1, MembersJoined, Zenon
    <3> QED BY <2>3, <3>2, Zenon
  <2>6. \A m \in Members(msgs) : m.c = c /\ m.kind \in {"status", "event"}
    BY <1>5, <2>2, <2>5
  <2>7. phase # "starting"
    BY <2>1
  <2>8. Moves("place", c, Submitted, Submitted, msgs)
    BY <1>1, <1>3, <1>4, <2>1, <2>4, <2>6, <2>7 DEF Moves
  <2> QED BY <2>8, MovedBarrier
<1> QED BY <1>2, <1>6, <1>7, <1>8 DEF HandlePlace

\* Only an engine that is up goes to the venue for a cancel.
LEMMA HandleCancelBarrier ==
    ASSUME IInv, BInv, HandleCancel
    PROVE  BInv'
<1> PICK c \in Cloids : c = Head(queue).c
  BY Dispatched DEF HandleCancel
<1>1. /\ Dispatching("cancel") /\ queue \in Seq(Message) /\ queue # <<>> /\ Head(queue).kind = "cancel"
      /\ phase # "down" /\ handler = Idle /\ cache[c] = store[c] /\ queue' = Tail(queue)
      /\ UNCHANGED <<outbox, phase, proved, asked>>
      /\ store \in [Cloids -> Saga(Lots)] /\ cache \in [Cloids -> Saga(Lots)]
  BY Dispatched, IdleMemory DEF HandleCancel, Dispatching, reconciler, history, IInv, TypeOK
<1>2. \A d \in Cloids : ~Bridges(Head(queue), d)
  BY <1>1 DEF Bridges
<1>3. CASE ~(Known(c) /\ MayRequestCancel(cache[c]))
  <2>1. UNCHANGED <<store, cache, handler>>
    BY <1>3 DEF HandleCancel
  <2>2. store[Head(queue).c] = NoSaga \/ ~MayRequestCancel(store[Head(queue).c])
    BY <1>1, <1>3 DEF Known
  <2> QED BY <1>1, <1>2, <2>1, <2>2, IgnoredBarrier
<1>4. CASE Known(c) /\ MayRequestCancel(cache[c])
  <2> PICK order : order = RequestCancel(cache[c])
    OBVIOUS
  <2>1. store' = [store EXCEPT ![c] = order] /\ cache' = [cache EXCEPT ![c] = order]
    BY <1>4 DEF HandleCancel, Checkpointed
  <2>2. phase # "starting"
    <3>1. ASSUME phase = "starting" PROVE FALSE
      <4>1. Head(queue) \in Members(queue)
        BY <1>1, MembersTail
      <4>2. Head(queue) \in delivered
        BY <1>1, <3>1, <4>1 DEF BInv, Quiet
      <4>3. Spent(c)
        BY <1>1, <4>2 DEF BInv, Signals
      <4> QED BY <1>1, <1>4, <4>3 DEF Spent, Known
    <3> QED BY <3>1
  <2>3. /\ order.st = store[c].st /\ order.entered = store[c].entered /\ order.cancel
        /\ order # NoSaga /\ store[c] # NoSaga
    <3>1. order.st = store[c].st /\ order.entered = store[c].entered /\ order.cancel
      BY <1>1 DEF RequestCancel, Saga
    <3> QED BY <1>1, <1>4, <3>1, NewRows DEF Known
  <2>4. ~MayRequestCancel(order)
    BY <2>3 DEF MayRequestCancel
  <2>5. /\ store'[c] = order /\ \A d \in Cloids \ {c} : store'[d] = store[d]
        /\ cache'[c] = order /\ \A d \in Cloids \ {c} : cache'[d] = cache[d]
    BY <1>1, <2>1
  <2>6. Untouched'
    BY <2>3, <2>5 DEF BInv, Untouched
  <2>7. \A d \in Cloids : cache'[d].st = "PENDING" =>
           cache[d].st = "PENDING" /\ ~Bridges(Head(queue), d)
    BY <1>1, <1>2, <2>3, <2>5
  <2>8. ASSUME NEW d \in Cloids
        PROVE  /\ Held(store[d], store'[d])
               /\ store'[d] # NoSaga => store[d] # NoSaga \/ ("cancel" = "place" /\ d = Head(queue).c)
    <3>1. CASE d = c
      BY <2>3, <2>4, <2>5, <3>1 DEF Held
    <3>2. CASE d # c
      BY <2>5, <3>2, HeldSame
    <3> QED BY <3>1, <3>2
  <2>9. queue' = Tail(queue) \o <<>> /\ <<>> \in Seq(Message) /\ Members(<<>>) = {}
    BY <1>1, MembersFew, HeadTailProperties, ConcatEmptySeq
  <2>10. store'[Head(queue).c] = NoSaga \/ ~MayRequestCancel(store'[Head(queue).c])
    BY <2>4, <2>5
  <2>11. asked \subseteq asked'
    BY <1>1
  <2> QED BY <1>1, <2>2, <2>6, <2>7, <2>8, <2>9, <2>10, <2>11, DispatchBarrier
<1> QED BY <1>3, <1>4

\* A stop empties the bus, and forgets what was proved.
LEMMA StopBarrier ==
    ASSUME IInv, BInv, Stop, UNCHANGED <<store, asked>>,
           \/ UNCHANGED delivered
           \/ \E kind \in {"status", "fill"} : Dispatching(kind)
    PROVE  BInv'
<1>1. queue' = <<>> /\ outbox' = <<>> /\ proved' = {} /\ phase' = "down"
  BY DEF Stop
<1>2. \A m \in delivered' \ delivered : m.kind \notin {"place", "cancel"} /\ m \in Members(queue)
  <2>1. ASSUME NEW kind \in {"status", "fill"}, Dispatching(kind), NEW m \in delivered' \ delivered
        PROVE  m.kind \notin {"place", "cancel"} /\ m \in Members(queue)
    <3>1. queue \in Seq(Message) /\ queue # <<>> /\ Head(queue).kind = kind /\ m = Head(queue)
      BY <2>1 DEF Dispatching, IInv, TypeOK
    <3> QED BY <3>1, MembersTail
  <2> QED BY <2>1
<1>3. Flows({}) /\ queue' \in Seq(Message) /\ {} \subseteq Message
  BY <1>1 DEF Flows
<1>4. \A m \in Members(outbox') : m.kind \in {"status", "fill", "judge"}
  BY <1>1, MembersFew
<1>5. \A c \in Cloids :
              /\ Held(store[c], store'[c])
              /\ store'[c] # NoSaga =>
                    \/ store[c] # NoSaga
                    \/ \E m \in Members(queue) : m.kind = "place" /\ m.c = c
  BY HeldSame
<1>6. asked \subseteq asked'
  OBVIOUS
<1>7. Signals'
  BY <1>2, <1>3, <1>4, <1>5, <1>6, SignalsKept DEF BInv
<1>8. Quiet' /\ Proving' /\ BarrierProvesAll' /\ Untouched'
  BY <1>1 DEF BInv, Quiet, Proving, BarrierProvesAll, Untouched
<1> QED BY <1>7, <1>8 DEF BInv

\* A PENDING order has entered nothing, so the bridge is neither ignored nor refused.
LEMMA HandleStatusBarrier ==
    ASSUME IInv, BInv, HandleStatus
    PROVE  BInv'
<1> DEFINE m == Head(queue)
           order == cache[m.c]
           next == ApplyStatus(order, m.st, m.oid)
           ignored == ~IsOpen(order) \/ m.st \notin StatusMoves \/ SeenStatus(order, m.st)
<1>1. /\ m.c \in Cloids /\ m \in Message /\ m.kind = "status" /\ phase # "down" /\ handler = Idle
      /\ queue \in Seq(Message) /\ queue # <<>> /\ Dispatching("status")
  BY Dispatched DEF HandleStatus, Dispatching, IInv, TypeOK
<1>2. order = store[m.c] /\ order \in Saga(Lots)
  BY <1>1, IdleMemory DEF IInv, TypeOK
<1>3. CASE ignored /\ queue' = Tail(queue)
           /\ UNCHANGED <<store, cache, venue, wire, handler, reply, outbox,
                          drainer, phase, reconciler, history, bounds>>
  <2>1. ASSUME NEW c \in Cloids, Bridges(m, c), cache[c].st = "PENDING" PROVE FALSE
    <3>1. c = m.c /\ m.st \in {"SUBMITTED", "FAILED"}
      BY <2>1 DEF Bridges
    <3>2. order.st = "PENDING" /\ order.entered = {}
      BY <1>1, <1>2, <2>1, <3>1 DEF BInv, Untouched
    <3> QED BY <1>3, <3>1, <3>2 DEF IsOpen, IsTerminal, TerminalStates, StatusMoves, SeenStatus
  <2>2. UNCHANGED <<store, cache, handler, outbox, phase, proved, asked>> /\ asked \subseteq asked'
    BY <1>3 DEF reconciler, history
  <2> QED BY <1>1, <1>3, <2>1, <2>2, IgnoredBarrier
<1>4. CASE ~ignored /\ MayEnter(order, m.st)
           /\ Commit(m.c, next, m.st, 0)
           /\ UNCHANGED <<venue, wire, handler, reply, outbox, drainer, phase,
                          reconciler, asked, sends, hasty, fault, bounds>>
  <2>1. /\ Extends(order, next) /\ next.st = m.st /\ ~IsTerminal(order) /\ m.st \in StatusMoves
        /\ order.st # "none"
    BY <1>2, <1>4, StatusExtends DEF IsOpen
  <2> PICK event : event = OrderEvent(m.c, m.st, 0)
    OBVIOUS
  <2>2. event \in Message /\ event.kind = "event" /\ event.c = m.c
    BY <1>1, <1>4, MessagesTyped, EventFields, SagaEngineAssumption DEF StatusMoves, OrderStates
  <2>3. /\ store' = [store EXCEPT ![m.c] = next] /\ cache' = [cache EXCEPT ![m.c] = next]
        /\ queue' = Append(Tail(queue), event) /\ handler' = Idle
        /\ UNCHANGED <<outbox, phase, proved, asked>>
    BY <1>1, <1>4 DEF Commit, Checkpointed, reconciler
  <2>4. queue' = Tail(queue) \o <<event>> /\ <<event>> \in Seq(Message) /\ Members(<<event>>) = {event}
    BY <1>1, <2>2, <2>3, TailJoined, MembersFew
  <2>5. next # NoSaga /\ next.st # "PENDING" /\ order # NoSaga
    BY <2>1, NewRows DEF StatusMoves
  <2>6. ~MayRequestCancel(order) => ~MayRequestCancel(next)
    BY <2>1 DEF MayRequestCancel, Extends
  <2> PICK c \in Cloids : c = m.c
    BY <1>1
  <2> HIDE DEF next, order
  <2>7. /\ store' = [store EXCEPT ![c] = next] /\ cache' = [cache EXCEPT ![c] = next]
        /\ "status" \in {"place", "status", "fill"} /\ store[c] # NoSaga
        /\ store[c] # NoSaga /\ ~MayRequestCancel(store[c]) => ~MayRequestCancel(next)
        /\ c = Head(queue).c /\ \A e \in Members(<<event>>) : e.c = c /\ e.kind \in {"status", "event"}
    BY <1>2, <2>2, <2>3, <2>4, <2>5, <2>6
  <2>8. Moves("status", c, next, next, <<event>>)
    BY <1>1, <2>3, <2>4, <2>5, <2>7, Zenon DEF Moves
  <2> QED BY <2>8, MovedBarrier
<1>5. CASE ~ignored /\ Fault(order, m.st)
  BY <1>1, <1>5, StopBarrier DEF Fault
<1> QED BY <1>3, <1>4, <1>5, Zenon DEF HandleStatus

LEMMA HandleFillBarrier ==
    ASSUME IInv, BInv, HandleFill
    PROVE  BInv'
<1> DEFINE m == Head(queue)
           order == cache[m.c]
           target == FillTarget(order, Lots)
           next == ApplyFill(order, m.t, Lots)
           ignored == ~Known(m.c) \/ SeenFill(order, m.t)
<1>1. /\ m.c \in Cloids /\ m \in Message /\ m.kind = "fill" /\ phase # "down" /\ handler = Idle
      /\ queue \in Seq(Message) /\ queue # <<>> /\ Dispatching("fill") /\ m.t \in 1..venue[m.c].fills
  BY Dispatched DEF HandleFill, Dispatching, Mail, IInv, TypeOK
<1>2. order = store[m.c] /\ order \in Saga(Lots) /\ venue[m.c] \in VenueOrder
  BY <1>1, IdleMemory DEF IInv, TypeOK
<1>3. CASE ignored /\ queue' = Tail(queue)
           /\ UNCHANGED <<store, cache, venue, wire, handler, reply, outbox,
                          drainer, phase, reconciler, history, bounds>>
  <2>1. \A c \in Cloids : ~Bridges(m, c)
    BY <1>1 DEF Bridges
  <2>2. UNCHANGED <<store, cache, handler, outbox, phase, proved, asked>> /\ asked \subseteq asked'
    BY <1>3 DEF reconciler, history
  <2> QED BY <1>1, <1>3, <2>1, <2>2, IgnoredBarrier
<1>4. CASE ~ignored /\ MayEnter(order, target)
           /\ Commit(m.c, next, target, m.t)
           /\ UNCHANGED <<venue, wire, handler, reply, outbox, drainer, phase,
                          reconciler, asked, sends, hasty, fault, bounds>>
  <2>1. Booked(order, venue[m.c])
    BY <1>1, <1>2 DEF IInv, BookedOnce, Booked
  <2>2. Extends(order, next) /\ ~IsTerminal(order) /\ order # NoSaga
    BY <1>1, <1>2, <1>4, <2>1, FillExtends DEF Known
  <2>3. next.st = target /\ target \in {"FILLED", "PARTIALLY_FILLED"}
    BY <1>2 DEF ApplyFill, FillTarget, Saga
  <2> PICK event : event = OrderEvent(m.c, target, m.t)
    OBVIOUS
  <2>4. event \in Message /\ event.kind = "event" /\ event.c = m.c
    <3>1. target \in OrderStates /\ m.t \in 0..Lots
      BY <1>1, <1>2, SagasTyped DEF Message
    <3> QED BY <1>1, <3>1, MessagesTyped, EventFields
  <2>5. /\ store' = [store EXCEPT ![m.c] = next] /\ cache' = [cache EXCEPT ![m.c] = next]
        /\ queue' = Append(Tail(queue), event) /\ handler' = Idle
        /\ UNCHANGED <<outbox, phase, proved, asked>>
    BY <1>1, <1>4 DEF Commit, Checkpointed, reconciler
  <2>6. queue' = Tail(queue) \o <<event>> /\ <<event>> \in Seq(Message) /\ Members(<<event>>) = {event}
    BY <1>1, <2>4, <2>5, TailJoined, MembersFew
  <2>7. next # NoSaga /\ next.st # "PENDING"
    BY <2>3, NewRows
  <2>8. ~MayRequestCancel(order) => ~MayRequestCancel(next)
    BY <2>2 DEF MayRequestCancel, Extends
  <2> PICK c \in Cloids : c = m.c
    BY <1>1
  <2> HIDE DEF next, order, target
  <2>9. /\ store' = [store EXCEPT ![c] = next] /\ cache' = [cache EXCEPT ![c] = next]
        /\ "fill" \in {"place", "status", "fill"} /\ store[c] # NoSaga
        /\ store[c] # NoSaga /\ ~MayRequestCancel(store[c]) => ~MayRequestCancel(next)
        /\ c = Head(queue).c /\ \A e \in Members(<<event>>) : e.c = c /\ e.kind \in {"status", "event"}
    BY <1>2, <2>2, <2>4, <2>5, <2>6, <2>8
  <2>10. Moves("fill", c, next, next, <<event>>)
    BY <1>1, <2>5, <2>6, <2>7, <2>9, Zenon DEF Moves
  <2> QED BY <2>10, MovedBarrier
<1>5. CASE ~ignored /\ Fault(order, target)
  BY <1>1, <1>5, StopBarrier DEF Fault
<1> QED BY <1>3, <1>4, <1>5, Zenon DEF HandleFill

-------------------------------------------------------------------------------
\* What answers, reads and passes put on the bus is reports, never a signal.

Reports(q) ==
    q \in Seq(Message) /\ \A m \in Members(q) : m.kind \in {"status", "fill", "judge"}

LEMMA ReportsJoined ==
    ASSUME NEW q, NEW r, Reports(q), Reports(r)
    PROVE  Reports(q \o r) /\ Members(q \o r) = Members(q) \cup Members(r)
<1>1. q \in Seq(Message) /\ r \in Seq(Message)
  BY DEF Reports
<1>2. Members(q \o r) = Members(q) \cup Members(r) /\ q \o r \in Seq(Message)
  BY <1>1, MembersJoined, ConcatProperties
<1> QED BY <1>2, Zenon DEF Reports

LEMMA ReportsMade ==
    ASSUME NEW c \in Cloids
    PROVE  /\ Reports(<<>>)
           /\ \A st \in OrderStates : /\ Reports(<<Status(c, st, TRUE)>>)
                                     /\ Reports(<<Status(c, st, FALSE)>>)
           /\ Reports(<<JudgeGhost(c)>>)
           /\ \A n \in 0..Lots : Reports(FillReports(c, n))
           /\ \A st \in {"SUBMITTED", "FAILED"} :
                 \E m \in Members(<<Status(c, st, FALSE)>>) : Bridges(m, c)
<1>1. ASSUME NEW m \in Message, m.kind \in {"status", "fill", "judge"} PROVE Reports(<<m>>)
  BY <1>1, OneMessage, MembersFew, Zenon DEF Reports
<1>2. ASSUME NEW st \in OrderStates, NEW oid \in {TRUE, FALSE} PROVE Reports(<<Status(c, st, oid)>>)
  <2>1. Status(c, st, oid) \in Message /\ Status(c, st, oid).kind = "status"
    BY MessagesTyped
  <2> QED BY <1>1, <2>1, Zenon
<1>3. Reports(<<JudgeGhost(c)>>)
  <2>1. JudgeGhost(c) \in Message /\ JudgeGhost(c).kind = "judge"
    BY MailTyped, Fields DEF Mail
  <2> QED BY <1>1, <2>1, Zenon
<1>4. ASSUME NEW n \in 0..Lots PROVE Reports(FillReports(c, n))
  <2>1. PICK q : q = FillReports(c, n)
    OBVIOUS
  <2>2. q \in Seq(Message)
    BY <2>1, FillReportsHonest
  <2>3. ASSUME NEW i \in DOMAIN q PROVE q[i].kind = "fill"
    <3>1. i \in 1..n /\ q[i] = FillReport(c, i)
      BY <2>1, <2>3 DEF FillReports
    <3> QED BY <3>1, Fields
  <2>4. Reports(q)
    BY <2>2, <2>3, Zenon DEF Reports, Members
  <2> QED BY <2>1, <2>4, Zenon
<1>5. ASSUME NEW st \in {"SUBMITTED", "FAILED"}
      PROVE  \E m \in Members(<<Status(c, st, FALSE)>>) : Bridges(m, c)
  <2>1. PICK m : m = Status(c, st, FALSE)
    OBVIOUS
  <2>2. Says(m, c, st)
    BY <2>1, StatusFields, Zenon
  <2>3. Bridges(m, c)
    BY <2>2 DEF Bridges, Says
  <2> QED BY <2>1, <2>3, MembersFew, Zenon
<1>6. Reports(<<>>)
  BY MembersFew DEF Reports
<1> QED BY <1>2, <1>3, <1>4, <1>5, <1>6

LEMMA ResumeBarrier ==
    ASSUME IInv, BInv, NEW c \in Cloids, NEW msgs, Reports(msgs),
           NEW next \in {Idle, [at |-> "fills", c |-> c]},
           handler \in [at : {"place", "fills", "cancel"}, c : {c}],
           handler.at # "place" => next = Idle,
           Resume(c, msgs, next)
    PROVE  BInv'
<1>1. /\ UNCHANGED <<cache, outbox, phase, proved, asked, delivered>>
      /\ queue' = queue \o msgs /\ store' = AfterSend(c, next)
  BY DEF Resume, reconciler, history
<1>2. handler # Idle /\ phase = "up"
  BY DEF Idle, IInv, Stopped, TypeOK, BInv, Quiet
<1>3. \A d \in Cloids : \/ store'[d] = store[d]
                        \/ d = c /\ store[d] = NewOrder /\ store'[d] = Submitted
  BY <1>1, AfterSendMoves
<1>4. /\ queue \in Seq(Message) /\ msgs \in Seq(Message) /\ Members(msgs) \subseteq Message
      /\ \A m \in Members(msgs) : m.kind \in {"status", "fill", "judge"}
  BY DEF IInv, TypeOK, Reports, Members
<1>5. queue' \in Seq(Message) /\ Flows(Members(msgs))
  BY <1>1, <1>4, ConcatProperties, FlowsAppended
<1>6. \A d \in Cloids :
              /\ Held(store[d], store'[d])
              /\ store'[d] # NoSaga =>
                    \/ store[d] # NoSaga
                    \/ \E m \in Members(queue) : m.kind = "place" /\ m.c = d
  <2>1. Held(NewOrder, Submitted) /\ NewOrder # NoSaga
    BY NewRows DEF Held, MayRequestCancel, IsTerminal, TerminalStates
  <2>2. ASSUME NEW d \in Cloids, store[d] = NewOrder, store'[d] = Submitted
        PROVE  Held(store[d], store'[d]) /\ store[d] # NoSaga
    BY <2>1, <2>2, Zenon
  <2>3. ASSUME NEW d \in Cloids PROVE Held(store[d], store'[d]) /\ (store'[d] # NoSaga => store[d] # NoSaga)
    BY <1>3, <2>2, HeldSame, Zenon
  <2> QED BY <2>3, Zenon
<1>7. Signals'
  <2>1. /\ \A m \in Members(outbox') : m.kind \in {"status", "fill", "judge"}
        /\ asked \subseteq asked' /\ delivered' \ delivered = {}
    BY <1>1 DEF BInv, Signals
  <2>2. /\ \A m \in Members(msgs) : m.kind \in {"place", "cancel", "event"} => PlaceSignal(m.c) \in asked'
        /\ \A m \in Members(msgs) : m.kind = "place" => store'[m.c] # NoSaga \/ PlaceSignal(m.c) \notin asked
        /\ \A m, n \in Members(msgs) : ~(m.kind = "cancel" /\ n.kind = "place")
    BY <1>4
  <2>3. Signals
    BY DEF BInv
  <2> QED BY <1>4, <1>5, <1>6, <2>1, <2>2, <2>3, SignalsKept
<1>8. Untouched'
  <2>1. Submitted.st # "PENDING"
    BY NewRows
  <2> QED BY <1>3, <2>1 DEF BInv, Untouched
<1>9. phase # "starting" /\ phase # "down" /\ phase' = phase /\ proved' \subseteq Cloids
  BY <1>1, <1>2 DEF IInv, TypeOK
<1>10. \A d \in Cloids : cache'[d].st = "PENDING" => cache[d].st = "PENDING"
  BY <1>1
<1> QED BY <1>7, <1>8, <1>9, <1>10, BarrierKept

LEMMA AdapterBarrier ==
    ASSUME IInv, BInv, NEW c \in Cloids,
           PlaceAnswered(c) \/ PlaceFillsRead(c) \/ CancelAnswered(c) \/ Unanswered(c)
    PROVE  BInv'
<1>1. CASE PlaceAnswered(c)
  <2>1. handler = [at |-> "place", c |-> c]
    BY <1>1 DEF PlaceAnswered
  <2>2. PICK next \in {Idle, [at |-> "fills", c |-> c]},
             msgs \in {<<Status(c, "LIVE", TRUE)>>, <<Status(c, "REJECTED", FALSE)>>, <<>>} :
               Resume(c, msgs, next)
    BY <1>1 DEF PlaceAnswered
  <2>3. Reports(msgs)
    BY ReportsMade, StatesNamed, Zenon
  <2> QED BY <2>1, <2>2, <2>3, ResumeBarrier
<1>2. CASE PlaceFillsRead(c)
  <2>1. handler = [at |-> "fills", c |-> c]
    BY <1>2 DEF PlaceFillsRead
  <2>2. PICK n \in 0..venue[c].fills : Resume(c, FillReports(c, n), Idle)
    BY <1>2 DEF PlaceFillsRead
  <2>3. n \in 0..Lots
    BY SagaEngineAssumption DEF IInv, TypeOK, VenueOrder
  <2> QED BY <2>1, <2>2, <2>3, ReportsMade, ResumeBarrier
<1>3. CASE CancelAnswered(c)
  <2>1. handler = [at |-> "cancel", c |-> c]
    BY <1>3 DEF CancelAnswered
  <2>2. PICK msgs \in {<<Status(c, "CANCELLED", FALSE)>>, <<>>} : Resume(c, msgs, Idle)
    BY <1>3 DEF CancelAnswered
  <2>3. Reports(msgs)
    BY ReportsMade, StatesNamed, Zenon
  <2> QED BY <2>1, <2>2, <2>3, ResumeBarrier
<1>4. CASE Unanswered(c)
  <2>1. handler.at \in {"place", "cancel"} /\ handler.c = c /\ Resume(c, <<>>, Idle)
    BY <1>4 DEF Unanswered
  <2>2. handler \in [at : {"place", "fills", "cancel"}, c : {c}]
    BY <2>1 DEF IInv, TypeOK, Idle
  <2> QED BY <2>1, <2>2, ReportsMade, ResumeBarrier
<1> QED BY <1>1, <1>2, <1>3, <1>4

\* A pass bridges a PENDING order before it counts as proved.
LEMMA ReportsBarrier ==
    ASSUME IInv, BInv, NEW c \in Cloids, NEW task, NEW msgs, Reports(msgs), PublishAll(task, msgs),
           phase # "down", UNCHANGED <<store, cache, phase, handler, delivered, asked>>,
           proved' \subseteq proved \cup {c},
           c \in proved' /\ cache[c].st = "PENDING" =>
              c \in proved \/ \E m \in Members(msgs) : Bridges(m, c)
    PROVE  BInv'
<1>1. /\ queue \in Seq(Message) /\ outbox \in Seq(Message) /\ msgs \in Seq(Message)
      /\ \A m \in Members(msgs) : m.kind \in {"status", "fill", "judge"}
  BY DEF IInv, TypeOK, Reports
<1>2. \A m \in Members(outbox') : m.kind \in {"status", "fill", "judge"}
  <2>1. Members(outbox') \subseteq Members(outbox) \cup Members(msgs)
    BY <1>1, MembersPublished
  <2> QED BY <1>1, <2>1 DEF BInv, Signals
<1>3. \A m \in Members(msgs) :
              /\ m.kind \in {"place", "cancel", "event"} => PlaceSignal(m.c) \in asked'
              /\ m.kind = "place" => store[m.c] # NoSaga \/ PlaceSignal(m.c) \notin asked
              /\ phase = "starting" /\ m.kind = "cancel" => m \in delivered
  BY <1>1
<1>4. \A m, n \in Members(msgs) : ~(m.kind = "cancel" /\ n.kind = "place")
  BY <1>1
<1>5. /\ proved' \subseteq Cloids /\ asked \subseteq asked'
      /\ \A d \in proved' : phase = "starting" /\ cache[d].st = "PENDING" =>
              d \in proved \/ \E m \in Members(msgs) : Bridges(m, d)
  BY DEF IInv, TypeOK
<1> QED BY <1>1, <1>2, <1>3, <1>4, <1>5, PublishBarrier

LEMMA HealingBridges ==
    ASSUME NEW c \in Cloids, NEW view \in Views
    PROVE  /\ Reports(Healing(c, view))
           /\ cache[c].st = "PENDING" => \E m \in Members(Healing(c, view)) : Bridges(m, c)
<1>1. view.fills \in 0..Lots
  BY DEF Views
<1> PICK fills : fills = FillReports(c, view.fills)
  OBVIOUS
<1>2. Reports(fills)
  BY <1>1, ReportsMade
<1> PICK bridge : bridge = <<Status(c, "SUBMITTED", FALSE)>>
  OBVIOUS
<1>3. Reports(bridge) /\ \E m \in Members(bridge) : Bridges(m, c)
  BY ReportsMade, StatesNamed
<1>4. CASE cache[c].st = "PENDING"
  <2>1. Healing(c, view) = bridge \o fills
    BY <1>4 DEF Healing
  <2>2. Reports(bridge \o fills) /\ Members(bridge \o fills) = Members(bridge) \cup Members(fills)
    BY <1>2, <1>3, ReportsJoined
  <2> QED BY <1>3, <2>1, <2>2, Zenon
<1>5. CASE cache[c].st # "PENDING"
  <2>1. Healing(c, view) = <<>> \o fills
    BY <1>5 DEF Healing
  <2>2. Reports(<<>> \o fills)
    BY <1>2, ReportsMade, ReportsJoined
  <2> QED BY <1>5, <2>1, <2>2, Zenon
<1> QED BY <1>4, <1>5

\* What _adopt publishes.
LEMMA AdoptBridges ==
    ASSUME NEW d \in Cadences, NEW c \in Cloids, NEW view \in Views, Adopt(d, c, view)
    PROVE  \E msgs : /\ Reports(msgs) /\ PublishAll(d, msgs)
                     /\ cache[c].st = "PENDING" => \E m \in Members(msgs) : Bridges(m, c)
<1> PICK healing : healing = Healing(c, view)
  OBVIOUS
<1>1. /\ Reports(healing)
      /\ cache[c].st = "PENDING" => \E m \in Members(healing) : Bridges(m, c)
  BY HealingBridges, Zenon
<1>2. ASSUME NEW rest, Reports(rest), PublishAll(d, healing \o rest)
      PROVE  \E msgs : /\ Reports(msgs) /\ PublishAll(d, msgs)
                       /\ cache[c].st = "PENDING" => \E m \in Members(msgs) : Bridges(m, c)
  <2>1. Reports(healing \o rest) /\ Members(healing) \subseteq Members(healing \o rest)
    BY <1>1, <1>2, ReportsJoined
  <2> QED BY <1>1, <1>2, <2>1
<1>3. CASE NeverLanded(c, view)
  <2>1. PublishAll(d, <<Status(c, "FAILED", FALSE)>>)
    BY <1>3 DEF Adopt
  <2> QED BY <2>1, ReportsMade, StatesNamed
<1>4. CASE ~NeverLanded(c, view) /\ view.st # "none"
  <2>1. PICK status \in {<<>>, <<Status(c, view.st, TRUE)>>} : PublishAll(d, healing \o status)
    BY <1>4 DEF Adopt
  <2>2. view.st \in OrderStates
    BY <1>4, StatesNamed DEF Views
  <2>3. Reports(status)
    BY <2>2, ReportsMade, Zenon
  <2> QED BY <1>2, <2>1, <2>3
<1>5. CASE ~NeverLanded(c, view) /\ view.st = "none" /\ (Draining \/ healing = <<>>)
  <2>1. PICK msgs \in Verdicts(c) : PublishAll(d, healing \o msgs)
    BY <1>5 DEF Adopt
  <2>2. Reports(msgs)
    BY ReportsMade, StatesNamed, Zenon DEF Verdicts
  <2> QED BY <1>2, <2>1, <2>2
<1>6. CASE ~NeverLanded(c, view) /\ view.st = "none" /\ ~(Draining \/ healing = <<>>)
  <2>1. PublishAll(d, Append(healing, JudgeGhost(c)))
    BY <1>6 DEF Adopt
  <2>2. Append(healing, JudgeGhost(c)) = healing \o <<JudgeGhost(c)>>
    BY <1>1, AppendIsConcat, MailTyped DEF Reports, Mail
  <2>3. Reports(<<JudgeGhost(c)>>)
    BY ReportsMade
  <2> QED BY <1>2, <2>1, <2>2, <2>3, Zenon
<1> QED BY <1>3, <1>4, <1>5, <1>6

LEMMA ReadAnsweredBarrier ==
    ASSUME IInv, BInv, NEW d \in Cadences, ReadAnswered(d)
    PROVE  BInv'
<1> PICK c \in Cloids : c = reads[d].c
  BY DEF ReadAnswered, IInv, TypeOK
<1>1. /\ phase # "down" /\ reads[d] # NoRead
      /\ UNCHANGED <<store, cache, phase, handler, delivered, asked>>
  BY DEF ReadAnswered, TaskMayRun, history
<1>2. PICK view \in Answered(d) :
         /\ \/ d = "inflight" /\ UNCHANGED bus
            \/ d = "inflight" /\ PublishAll(d, <<Status(c, "FAILED", FALSE)>>)
            \/ Adopt(d, c, view)
         /\ proved' = IF d = "startup" THEN proved \cup {c} ELSE proved
  BY DEF ReadAnswered
<1>3. proved' \subseteq proved \cup {c} /\ (d = "inflight" => proved' = proved)
  BY <1>2
<1>4. CASE d = "inflight" /\ UNCHANGED bus
  <2>1. UNCHANGED <<queue, outbox>>
    BY <1>4 DEF bus
  <2>2. queue' = queue \o <<>> /\ PublishAll(d, <<>>)
    <3>1. queue \in Seq(Message)
      BY DEF IInv, TypeOK
    <3>2. queue' = queue \o <<>>
      BY <2>1, <3>1, ConcatEmptySeq
    <3> QED BY <1>4, <3>2 DEF PublishAll, bus
  <2> QED BY <1>1, <1>3, <1>4, <2>2, ReportsMade, ReportsBarrier
<1>5. CASE d = "inflight" /\ PublishAll(d, <<Status(c, "FAILED", FALSE)>>)
  <2>1. Reports(<<Status(c, "FAILED", FALSE)>>)
    BY ReportsMade, StatesNamed, Zenon
  <2> QED BY <1>1, <1>3, <1>5, <2>1, ReportsBarrier
<1>6. CASE Adopt(d, c, view)
  <2>1. view \in Views
    BY <1>1, AnsweredTyped
  <2>2. PICK msgs : /\ Reports(msgs) /\ PublishAll(d, msgs)
                    /\ cache[c].st = "PENDING" => \E m \in Members(msgs) : Bridges(m, c)
    BY <1>6, <2>1, AdoptBridges
  <2> QED BY <1>1, <1>3, <2>2, ReportsBarrier
<1> QED BY <1>2, <1>4, <1>5, <1>6

\* The next publish leaves the task for the bus.
LEMMA PublishNextBarrier ==
    ASSUME IInv, BInv, PublishNext
    PROVE  BInv'
<1> PICK m : m = Head(outbox)
  OBVIOUS
<1>1. /\ phase # "down" /\ handler = Idle /\ queue = <<>> /\ outbox # <<>> /\ outbox' = Tail(outbox)
      /\ UNCHANGED <<store, cache, handler, phase, proved, asked, delivered>>
      /\ outbox \in Seq(Message)
  BY DEF PublishNext, history, IInv, TypeOK
<1>2. Members(outbox) = Members(outbox') \cup {m} /\ Members(queue) = {}
  BY <1>1, MembersTail, MembersFew
<1>3. m \in Message /\ m.c \in Cloids /\ m.kind \in {"status", "fill", "judge"}
  <2>1. m \in Members(outbox)
    BY <1>2
  <2>2. m \in Message
    BY <1>1, <2>1 DEF Members
  <2> QED BY <2>1, <2>2 DEF BInv, Signals, Message
<1>4. Reports(queue') /\ (m.kind # "judge" => m \in Members(queue'))
  <2>1. CASE m.kind = "judge"
    <3>1. PICK msgs \in Verdicts(m.c) : queue' = msgs
      BY <2>1 DEF PublishNext
    <3>2. Reports(msgs)
      BY <1>3, ReportsMade, StatesNamed, Zenon DEF Verdicts
    <3> QED BY <2>1, <3>1, <3>2
  <2>2. CASE m.kind # "judge"
    <3>1. queue' = <<m>>
      BY <2>2 DEF PublishNext
    <3>2. Reports(<<m>>)
      BY <1>3, OneMessage, MembersFew, Zenon DEF Reports
    <3> QED BY <3>1, <3>2, MembersFew
  <2> QED BY <2>1, <2>2
<1>5. /\ queue' \in Seq(Message) /\ Members(queue') \subseteq Message
      /\ \A n \in Members(queue') : n.kind \in {"status", "fill", "judge"}
  BY <1>4 DEF Reports, Members
<1>6. Signals'
  <2>1. Flows(Members(queue'))
    <3>1. DOMAIN queue = {}
      BY <1>1
    <3> QED BY <3>1 DEF Flows, Members
  <2>2. \A c \in Cloids :
              /\ Held(store[c], store'[c])
              /\ store'[c] # NoSaga =>
                    \/ store[c] # NoSaga
                    \/ \E n \in Members(queue) : n.kind = "place" /\ n.c = c
    BY <1>1, HeldSame
  <2>3. /\ \A n \in Members(outbox') : n.kind \in {"status", "fill", "judge"}
        /\ asked \subseteq asked' /\ delivered' \ delivered = {} /\ Signals
    BY <1>1, <1>2 DEF BInv, Signals
  <2>4. /\ \A n \in Members(queue') : n.kind \in {"place", "cancel", "event"} => PlaceSignal(n.c) \in asked'
        /\ \A n \in Members(queue') : n.kind = "place" => store'[n.c] # NoSaga \/ PlaceSignal(n.c) \notin asked
        /\ \A n, o \in Members(queue') : ~(n.kind = "cancel" /\ o.kind = "place")
    BY <1>5
  <2> QED BY <1>5, <2>1, <2>2, <2>3, <2>4, SignalsKept
<1>7. Untouched' /\ proved' \subseteq Cloids /\ phase' = phase
  BY <1>1 DEF BInv, Untouched, IInv, TypeOK
<1>8. phase = "starting" => handler' = Idle /\ \A n \in Members(queue') : n.kind = "cancel" => n \in delivered'
  BY <1>1, <1>5
<1>9. \A c \in proved' : phase = "starting" /\ cache'[c].st = "PENDING" =>
              \/ c \in proved /\ \A n \in Members(queue) \cup Members(outbox) :
                    Bridges(n, c) => n \in Members(queue') \cup Members(outbox')
              \/ \E n \in Members(queue') \cup Members(outbox') : Bridges(n, c)
  BY <1>1, <1>2, <1>4 DEF Bridges
<1>10. \A c \in Cloids : cache'[c].st = "PENDING" => cache[c].st = "PENDING"
  BY <1>1
<1> QED BY <1>1, <1>6, <1>7, <1>8, <1>9, <1>10, BarrierKept

\* Steps that leave rows, memory, bus and signals alone, and prove nothing new.
LEMMA QuietBarrier ==
    ASSUME BInv, UNCHANGED <<store, cache, handler, queue, outbox, phase, asked, delivered>>,
           proved' \subseteq proved
    PROVE  BInv'
<1>1. Signals'
  BY DEF BInv, Signals, Spent, Members
<1>2. Quiet'
  BY DEF BInv, Quiet, Members
<1>3. Untouched' /\ BarrierProvesAll'
  BY DEF BInv, Untouched, BarrierProvesAll
<1>4. Proving'
  BY DEF BInv, Proving, Bridges, Members
<1> QED BY <1>1, <1>2, <1>3, <1>4 DEF BInv

LEMMA VenueBarrier ==
    ASSUME BInv, Venue
    PROVE  BInv'
<1>1. VenueUnchanged
  BY DEF Venue, VenueTakesPlace, VenueTakesCancel, WireLoses, VenueFills, VenueCancels, VenueForgets
<1> QED BY <1>1, QuietBarrier DEF VenueUnchanged, bus, reconciler, history

LEMMA ReadsBarrier ==
    ASSUME BInv, NEW d \in Cadences, ReadFailed(d) \/ \E c \in Cloids : ReadStart(d, c)
    PROVE  BInv'
<1>1. /\ UNCHANGED <<store, cache, handler, queue, outbox, phase, asked, delivered>>
      /\ proved' \subseteq proved
  BY DEF ReadFailed, ReadStart, ProvedAfterFailure, bus, history
<1> QED BY <1>1, QuietBarrier

\* Once the pass has proved every open order and its task runs, the bus is empty:
\* what it concluded has been applied.
LEMMA ClearsBarrier ==
    ASSUME IInv, BInv, BarrierClears
    PROVE  BInv'
<1>1. /\ phase = "starting" /\ phase' = "up" /\ proved' = {}
      /\ UNCHANGED <<store, cache, handler, queue, outbox, asked, delivered>>
  BY DEF BarrierClears, bus, history
<1>2. queue = <<>> /\ outbox = <<>>
  <2>1. handler = Idle
    BY <1>1 DEF BInv, Quiet
  <2> QED BY <2>1 DEF BarrierClears, TaskMayRun, Draining
<1>3. \A c \in Cloids : cache[c].st # "PENDING"
  <2>1. ASSUME NEW c \in Cloids, cache[c].st = "PENDING" PROVE FALSE
    <3>1. c \in proved
      BY <2>1 DEF BarrierClears, IsOpen, IsTerminal, TerminalStates
    <3>2. Members(queue) = {} /\ Members(outbox) = {}
      BY <1>2, MembersFew
    <3> QED BY <1>1, <2>1, <3>1, <3>2 DEF BInv, Proving
  <2> QED BY <2>1
<1>4. Signals'
  BY <1>1 DEF BInv, Signals, Spent, Members
<1>5. Quiet' /\ Proving'
  BY <1>1 DEF Quiet, Proving
<1>6. Untouched' /\ BarrierProvesAll'
  BY <1>1, <1>3 DEF BInv, Untouched, BarrierProvesAll
<1> QED BY <1>4, <1>5, <1>6 DEF BInv

LEMMA RestartBarrier ==
    ASSUME IInv, BInv, Restart
    PROVE  BInv'
<1>1. /\ phase = "down" /\ phase' = "starting"
      /\ UNCHANGED <<store, handler, queue, outbox, proved, asked, delivered>>
  BY DEF Restart, bus, reconciler, history
<1>2. handler = Idle /\ queue = <<>> /\ proved = {}
  BY <1>1 DEF IInv, Stopped, BInv, Quiet
<1>3. Signals'
  BY <1>1 DEF BInv, Signals, Spent, Members
<1>4. Quiet'
  BY <1>1, <1>2, MembersFew DEF Quiet
<1>5. Untouched' /\ Proving' /\ BarrierProvesAll'
  BY <1>1, <1>2 DEF BInv, Untouched, Proving, BarrierProvesAll
<1> QED BY <1>3, <1>4, <1>5 DEF BInv

-------------------------------------------------------------------------------
\* The invariant holds from the start, and every step keeps it.

LEMMA BarrierInit == Init => BInv
<1> SUFFICES ASSUME Init PROVE BInv
  OBVIOUS
<1>1. /\ Members(queue) = {} /\ Members(outbox) = {} /\ delivered = {} /\ proved = {}
      /\ queue = <<>> /\ handler = Idle /\ phase = "starting"
      /\ \A c \in Cloids : store[c] = NoSaga
  BY MembersFew DEF Init
<1>2. Signals
  BY <1>1 DEF Signals
<1>3. Quiet /\ Proving /\ BarrierProvesAll
  BY <1>1 DEF Quiet, Proving, BarrierProvesAll
<1>4. Untouched
  BY <1>1 DEF Untouched, NoSaga
<1> QED BY <1>2, <1>3, <1>4 DEF BInv

LEMMA BarrierStep ==
    ASSUME IInv, BInv, [Next]_vars
    PROVE  BInv'
<1>1. CASE Strategy
  BY <1>1, EmitBarrier DEF Strategy
<1>2. CASE Dispatch
  BY <1>2, HandleEventBarrier, HandlePlaceBarrier, HandleCancelBarrier, HandleStatusBarrier,
     HandleFillBarrier, PublishNextBarrier DEF Dispatch
<1>3. CASE Adapter
  BY <1>3, AdapterBarrier DEF Adapter
<1>4. CASE Venue
  BY <1>4, VenueBarrier
<1>5. CASE Reconcile
  BY <1>5, ReadsBarrier, ReadAnsweredBarrier DEF Reconcile
<1>6. CASE BarrierClears
  BY <1>6, ClearsBarrier
<1>7. CASE Crash
  <2>1. Stop /\ UNCHANGED <<store, asked, delivered>>
    BY <1>7 DEF Crash, history
  <2> QED BY <2>1, StopBarrier
<1>8. CASE Restart
  BY <1>8, RestartBarrier
<1>9. CASE \E m \in delivered : Redeliver(m)
  BY <1>9, RedeliverBarrier
<1>10. CASE UNCHANGED vars
  BY <1>10, QuietBarrier DEF vars, bus, reconciler, history
<1> QED BY <1>1, <1>2, <1>3, <1>4, <1>5, <1>6, <1>7, <1>8, <1>9, <1>10 DEF Next

\* Once the strategies run, no order of an earlier life is still an unresolved intent:
\* the startup pass has bridged each one out of PENDING, whatever failed before.
THEOREM BarrierClearsOnceProved == Spec => []BarrierProvesAll
<1>1. IInv /\ BInv /\ [Next]_vars => BInv'
  BY BarrierStep
<1>2. BInv => BarrierProvesAll
  BY DEF BInv
<1> QED BY <1>1, <1>2, BarrierInit, Invariance, PTL DEF Spec
=============================================================================
