----------------------------- MODULE PaperProofs -----------------------------
(***************************************************************************)
(* What holds in every behaviour of PaperVenue, for every menu of signals, *)
(* holding, budget and limit: the halt of the kill switch, that funding is *)
(* charged exactly once, that what a reduce-only order fills shrinks the   *)
(* account net and never crosses zero, that the venue's book and the rows  *)
(* agree, and that the net stays within the guard's cap.                   *)
(***************************************************************************)
EXTENDS PaperInvariants, FiniteSetTheorems, SequenceTheorems, TLAPS

\* The guard approves nothing of a strategy's while it is tripped.
LEMMA TrippedRefuses ==
    ASSUME NEW signal, NEW reading, NEW a, NEW t, ~signal.operator
    PROVE  ~Approves(signal, reading, TRUE, a, t)
  BY DEF Approves, Refused, OrderKind

\* Nothing but the place handler and its crash moves a row out of "none".
LEMMA OnlyPlacing ==
    ASSUME HaltInv, Next, NEW o \in Orders, Places(o)
    PROVE  PlaceOrder \/ CrashInPlace
<1>1. rows' # rows
  BY DEF Places
<1>2. CASE Deny
  BY <1>1, <1>2 DEF Deny, Places, NewRow, NoRow, HaltInv
<1>3. CASE OnCancel
  BY <1>1, <1>3 DEF OnCancel, Places, IsOpenRow, HasRow, HaltInv
<1>4. CASE OnFill
  BY <1>1, <1>4 DEF OnFill, Places, HaltInv, MayEnter, LegalTransitions, Faults, durable
<1>5. CASE OnStatus
  BY <1>1, <1>5 DEF OnStatus, Places, HaltInv, MayEnter, LegalTransitions, Faults, durable
<1>6. QED
  BY <1>1, <1>2, <1>3, <1>4, <1>5
  DEF Next, FlushHeld, Commit, Crash, Restart, ReconcileStartup, BarrierClears, Advance,
      RunFunding, EmitPlace, EmitCancel, FeedTick, Trip, Reset, CrashInSwitch, SkipPlaced,
      OnTick, OnFunding, Ghost, durable

\* HaltInv is inductive.
LEMMA HaltInvHolds == Spec => []HaltInv
<1>1. Init => HaltInv
  BY DEF Init, HaltInv, NoSignal
<1>2. HaltInv /\ [Next]_vars => HaltInv'
  <2> SUFFICES ASSUME HaltInv, [Next]_vars PROVE HaltInv'
    OBVIOUS
  <2>1. CASE Next
    <3>1. DOMAIN rows' = Orders
      BY <2>1 DEF Next, HaltInv, FlushHeld, Commit, Crash, Restart, ReconcileStartup,
        BarrierClears, Advance, RunFunding, EmitPlace, EmitCancel, FeedTick, Trip, Reset,
        CrashInSwitch, SkipPlaced, Deny, PlaceOrder, CrashInPlace, OnCancel, OnTick,
        OnFill, OnStatus, OnFunding, Ghost, Faults, durable
    <3>2. DOMAIN signals' = Orders /\ \A o \in Orders : ~signals'[o].operator
      <4>1. CASE EmitPlace
        BY <4>1, PaperAssumption DEF EmitPlace, HaltInv
      <4>2. CASE ~EmitPlace
        <5>1. UNCHANGED signals
          BY <2>1, <4>2 DEF Next, FlushHeld, Commit, Crash, Restart, ReconcileStartup,
            BarrierClears, Advance, RunFunding, EmitCancel, FeedTick, Trip, Reset,
            CrashInSwitch, SkipPlaced, Deny, PlaceOrder, CrashInPlace, OnCancel, OnTick,
            OnFill, OnStatus, OnFunding, Ghost, Faults
        <5>2. QED BY <5>1 DEF HaltInv
      <4>3. QED BY <4>1, <4>2
    <3>3. (acked => halted)' /\ (acked /\ phase # "down" => tripped)'
      <4>1. CASE Trip \/ Reset
        <5>1. CASE Trip
          BY <5>1, Zenon DEF Trip
        <5>2. CASE Reset
          BY <5>2, Zenon DEF Reset
        <5>3. QED BY <4>1, <5>1, <5>2
      <4>2. CASE Crash \/ CrashInSwitch \/ CrashInPlace
        <5>1. phase' = "down"
          BY <4>2 DEF Crash, CrashInSwitch, CrashInPlace, Crashes, Down
        <5>2. CASE Crash \/ CrashInPlace
          <6>1. acked' = acked /\ halted' = halted
            BY <5>2 DEF Crash, CrashInPlace, durable
          <6>2. QED BY <5>1, <6>1 DEF HaltInv
        <5>3. CASE CrashInSwitch
          BY <5>1, <5>3, Zenon DEF CrashInSwitch
        <5>4. QED BY <4>2, <5>2, <5>3
      <4>3. CASE Restart
        BY <4>3 DEF Restart, Restored, HaltInv, durable, history
      <4>4. CASE OnFill \/ OnStatus
        <5>1. acked' = acked /\ halted' = halted
          BY <4>4 DEF OnFill, OnStatus, Faults, durable, history
        <5>2. phase' = "down" \/ (phase' = phase /\ tripped' = tripped)
          BY <4>4 DEF OnFill, OnStatus, Faults, Down, memory
        <5>3. QED BY <5>1, <5>2 DEF HaltInv
      <4>5. CASE BarrierClears
        BY <4>5 DEF BarrierClears, HaltInv, durable, history
      <4>6. CASE ~( \/ Trip \/ Reset \/ Crash \/ CrashInSwitch \/ CrashInPlace
                    \/ Restart \/ OnFill \/ OnStatus \/ BarrierClears )
        <5>1. acked' = acked /\ halted' = halted /\ phase' = phase /\ tripped' = tripped
          BY <2>1, <4>6 DEF Next, FlushHeld, Commit, ReconcileStartup, Advance,
            RunFunding, EmitPlace, EmitCancel, FeedTick, SkipPlaced, Deny, PlaceOrder,
            OnCancel, OnTick, OnFunding, Ghost, durable, memory, history
        <5>2. QED BY <5>1 DEF HaltInv
      <4>7. QED BY <4>1, <4>2, <4>3, <4>4, <4>5, <4>6
    <3>4. QED BY <3>1, <3>2, <3>3 DEF HaltInv
  <2>2. CASE UNCHANGED vars
    BY <2>2 DEF vars, durable, memory, history, HaltInv
  <2>3. QED BY <2>1, <2>2
<1>3. QED BY <1>1, <1>2, PTL DEF Spec

\* From the moment a trip has returned nothing is placed until a reset begins,
\* whatever crashes come between: the guard persists the halt before it flips
\* its memory, and restores it before it can judge a signal.
THEOREM HaltHoldsThroughCrashes == Spec => HaltHolds
<1>1. HaltInv /\ [Next]_vars => [acked => \A o \in Orders : ~Places(o)]_vars
  <2> SUFFICES ASSUME HaltInv, Next, acked, NEW o \in Orders, Places(o) PROVE FALSE
    OBVIOUS
  <2>1. PlaceOrder \/ CrashInPlace
    BY OnlyPlacing
  <2>2. tripped = TRUE
    BY <2>1 DEF HaltInv, PlaceOrder, CrashInPlace
  <2>3. PICK mark \in Marks :
           Approves(signals[Head(queue).o], Reading(Head(queue).o, mark), tripped, approved, now)
    BY <2>1 DEF PlaceOrder, CrashInPlace
  <2>4. o = Head(queue).o
    BY <2>1 DEF PlaceOrder, CrashInPlace, Places, HaltInv
  <2>5. QED BY <2>2, <2>3, <2>4, TrippedRefuses DEF HaltInv
<1>2. QED BY <1>1, HaltInvHolds, PTL DEF Spec, HaltHolds

-----------------------------------------------------------------------------
\* Induction on the naturals, for a set of them instead of a predicate.

\* A set of naturals has a least element.
LEMMA LeastNat ==
    ASSUME NEW T, T \subseteq Nat, T # {}
    PROVE  \E x \in T : \A y \in T : x <= y
<1>1. PICK x \in T : \A y \in T : ~(<<y, x>> \in OpToRel(<, Nat))
  BY NatLessThanWellFounded, WFMin
<1>2. \A y \in T : ~(y < x)
  BY <1>1 DEF OpToRel
<1> QED BY <1>2

\* A set with 0 and with the successor of each of its naturals has them all.
LEMMA ClimbNat ==
    ASSUME NEW C, 0 \in C, \A n \in Nat : n \in C => n + 1 \in C
    PROVE  Nat \subseteq C
<1> SUFFICES ASSUME ~(Nat \subseteq C) PROVE FALSE
  OBVIOUS
<1>1. PICK x \in Nat \ C : \A y \in Nat \ C : x <= y
  BY LeastNat
<1>2. x # 0 /\ x - 1 \in Nat
  BY <1>1
<1>3. x - 1 \in C
  BY <1>1, <1>2
<1> QED BY <1>2, <1>3

-----------------------------------------------------------------------------
\* Lists

LEMMA ListFacts ==
    ASSUME NEW l, IsList(l)
    PROVE  Len(l) \in Nat /\ DOMAIN l = 1..Len(l)
  BY DEF IsList

LEMMA ListEmpty == IsList(<<>>) /\ DOMAIN <<>> = {} /\ Len(<<>>) = 0
  BY DEF IsList

\* A function on 1..n is a list.
LEMMA ListOf ==
    ASSUME NEW n \in Nat, NEW l, l = [i \in 1..n |-> l[i]]
    PROVE  IsList(l) /\ Len(l) = n
<1> DEFINE S == {l[i] : i \in 1..n}
<1>1. DOMAIN l = 1..n
  OBVIOUS
<1>2. l \in [1..n -> S]
  OBVIOUS
<1>3. l \in Seq(S)
  BY <1>2
<1>4. Len(l) = n
  BY <1>1, <1>3
<1>5. QED BY <1>1, <1>3, <1>4 DEF IsList

LEMMA ListAppend ==
    ASSUME NEW l, IsList(l), NEW r
    PROVE  /\ IsList(Append(l, r)) /\ Len(Append(l, r)) = Len(l) + 1
           /\ DOMAIN Append(l, r) = 1..(Len(l) + 1)
           /\ \A i \in 1..Len(l) : Append(l, r)[i] = l[i]
           /\ Append(l, r)[Len(l) + 1] = r
<1> DEFINE S == {l[i] : i \in DOMAIN l}
           m == Append(l, r)
<1>1. /\ m \in Seq(S \cup {r}) /\ Len(m) = Len(l) + 1
      /\ \A i \in 1..Len(l) : m[i] = l[i]
      /\ m[Len(m)] = r
  BY AppendProperties DEF IsList
<1>2. DOMAIN m = 1..(Len(l) + 1)
  BY <1>1
<1>3. m \in Seq(Range(m))
  BY <1>1, SeqOfRange
<1>4. IsList(m)
  BY <1>3 DEF IsList, Range
<1>5. QED BY <1>1, <1>2, <1>4

LEMMA ListTail ==
    ASSUME NEW l, IsList(l), l # <<>>
    PROVE  /\ IsList(Tail(l)) /\ Len(l) \in Nat \ {0} /\ DOMAIN Tail(l) = 1..(Len(l) - 1)
           /\ Len(Tail(l)) = Len(l) - 1
           /\ Head(l) = l[1] /\ \A i \in 1..(Len(l) - 1) : Tail(l)[i] = l[i + 1]
<1> DEFINE S == {l[i] : i \in DOMAIN l}
           m == Tail(l)
<1>1. /\ m \in Seq(S) /\ Len(m) = Len(l) - 1 /\ Head(l) = l[1]
      /\ \A i \in 1..Len(m) : m[i] = l[i + 1]
  BY HeadTailProperties DEF IsList
<1>2. Len(l) \in Nat \ {0}
  BY EmptySeq DEF IsList
<1>3. m \in Seq(Range(m))
  BY <1>1, SeqOfRange
<1>4. IsList(m)
  BY <1>3 DEF IsList, Range
<1>5. QED BY <1>1, <1>2, <1>4

LEMMA ListConcat ==
    ASSUME NEW l, NEW m, IsList(l), IsList(m)
    PROVE  /\ IsList(l \o m) /\ Len(l \o m) = Len(l) + Len(m)
           /\ DOMAIN (l \o m) = 1..(Len(l) + Len(m))
           /\ \A i \in 1..Len(l) : (l \o m)[i] = l[i]
           /\ \A i \in 1..Len(m) : (l \o m)[Len(l) + i] = m[i]
<1> DEFINE S == {l[i] : i \in DOMAIN l}
           T == {m[i] : i \in DOMAIN m}
           c == l \o m
<1>0. Len(l) \in Nat /\ Len(m) \in Nat
  BY ListFacts
<1>1. l \in Seq(S \cup T) /\ m \in Seq(S \cup T)
  BY DEF IsList
<1>2. /\ c \in Seq(S \cup T) /\ Len(c) = Len(l) + Len(m)
      /\ \A i \in 1 .. Len(l) + Len(m) :
            c[i] = IF i <= Len(l) THEN l[i] ELSE m[i - Len(l)]
  BY <1>1, ConcatProperties
<1> HIDE DEF c
<1>3. DOMAIN c = 1..(Len(l) + Len(m))
  BY <1>2
<1>4. c \in Seq(Range(c))
  BY <1>2, SeqOfRange
<1>5. IsList(c)
  BY <1>4 DEF IsList, Range
<1>6. \A i \in 1..Len(l) : c[i] = l[i]
  BY <1>0, <1>2
<1>7. \A i \in 1..Len(m) : c[Len(l) + i] = m[i]
  <2> TAKE i \in 1..Len(m)
  <2>1. Len(l) + i \in 1 .. Len(l) + Len(m) /\ ~(Len(l) + i <= Len(l)) /\ Len(l) + i - Len(l) = i
    BY <1>0
  <2>2. QED BY <1>2, <2>1
<1>8. QED BY <1>2, <1>3, <1>5, <1>6, <1>7 DEF c

\* What is dispatched leaves the head, and what it published joins at the end.
LEMMA ListDispatch ==
    ASSUME NEW l, IsList(l), l # <<>>, NEW m, IsList(m)
    PROVE  /\ IsList(Tail(l) \o m) /\ DOMAIN (Tail(l) \o m) = 1..(Len(l) - 1 + Len(m))
           /\ \A i \in 1..(Len(l) - 1) : (Tail(l) \o m)[i] = l[i + 1]
           /\ \A i \in 1..Len(m) : (Tail(l) \o m)[Len(l) - 1 + i] = m[i]
<1> DEFINE t == Tail(l)
           c == t \o m
<1>1. /\ IsList(t) /\ Len(t) = Len(l) - 1
      /\ \A i \in 1..(Len(l) - 1) : t[i] = l[i + 1]
  BY ListTail
<1> HIDE DEF t
<1>2. IsList(t)
  BY <1>1
<1>3. /\ IsList(c) /\ DOMAIN c = 1..(Len(t) + Len(m))
      /\ \A i \in 1..Len(t) : c[i] = t[i]
      /\ \A i \in 1..Len(m) : c[Len(t) + i] = m[i]
  BY <1>2, ListConcat
<1> HIDE DEF c
<1>4. /\ IsList(c) /\ DOMAIN c = 1..(Len(l) - 1 + Len(m))
      /\ \A i \in 1..(Len(l) - 1) : c[i] = l[i + 1]
      /\ \A i \in 1..Len(m) : c[Len(l) - 1 + i] = m[i]
  BY <1>1, <1>3
<1>5. QED BY <1>4 DEF c, t

\* What is left of a list is a list.
LEMMA ListOnly ==
    ASSUME NEW l, NEW K, IsFiniteSet(K)
    PROVE  /\ IsList(Only(l, K)) /\ Len(Only(l, K)) = Cardinality(K)
           /\ DOMAIN Only(l, K) = 1..Cardinality(K)
<1>1. Cardinality(K) \in Nat
  BY FS_CardinalityType
<1>2. Only(l, K) = [j \in 1..Cardinality(K) |-> Only(l, K)[j]]
  BY DEF Only
<1>3. QED BY <1>1, <1>2, ListOf DEF Only

LEMMA IndicesFinite ==
    ASSUME NEW l, IsList(l), NEW K, K \subseteq DOMAIN l
    PROVE  IsFiniteSet(K)
<1>1. IsFiniteSet(1..Len(l))
  BY ListFacts, FS_Interval
<1>2. QED BY <1>1, ListFacts, FS_Subset

-----------------------------------------------------------------------------
\* The venue stays tame.

LEMMA ReportsAppend ==
    ASSUME NEW q, Reports(q), NEW r, r.k \in {"fill", "status"}
    PROVE  Reports(Append(q, r))
<1>1. \A i \in 1..(Len(q) + 1) : i \in 1..Len(q) \/ i = Len(q) + 1
  BY ListFacts DEF Reports
<1>2. QED BY <1>1, ListFacts, ListAppend DEF Reports

LEMMA ReportsConcat ==
    ASSUME NEW q, NEW r, Reports(q), Reports(r)
    PROVE  Reports(q \o r)
<1> DEFINE c == q \o r
<1>1. /\ Len(q) \in Nat /\ Len(r) \in Nat /\ DOMAIN q = 1..Len(q) /\ DOMAIN r = 1..Len(r)
      /\ \A i \in 1..Len(q) : q[i].k \in {"fill", "status"}
      /\ \A i \in 1..Len(r) : r[i].k \in {"fill", "status"}
  BY ListFacts DEF Reports
<1>2. /\ IsList(c) /\ DOMAIN c = 1..(Len(q) + Len(r))
      /\ \A i \in 1..Len(q) : c[i] = q[i]
      /\ \A i \in 1..Len(r) : c[Len(q) + i] = r[i]
  BY ListConcat DEF Reports
<1> HIDE DEF c
<1>3. ASSUME NEW i \in DOMAIN c PROVE c[i].k \in {"fill", "status"}
  <2>1. CASE i \in 1..Len(q)
    BY <1>1, <1>2, <2>1
  <2>2. CASE ~(i \in 1..Len(q))
    <3>1. i - Len(q) \in 1..Len(r) /\ Len(q) + (i - Len(q)) = i
      BY <1>1, <1>2, <2>2
    <3>2. QED BY <1>1, <1>2, <3>1
  <2>3. QED BY <2>1, <2>2
<1>4. QED BY <1>2, <1>3 DEF Reports, c

LEMMA SayTame ==
    ASSUME NEW v, Tame(v), NEW o, NEW st
    PROVE  Tame(Say(v, o, st))
<1>1. Reports(Append(v.out, StatusReport(o, st)))
  BY ReportsAppend DEF Tame, StatusReport
<1>2. QED BY <1>1 DEF Tame, Say

LEMMA RestTame ==
    ASSUME NEW v, Tame(v), NEW o, NEW size
    PROVE  Tame(Rest(v, o, size))
  BY ListAppend DEF Tame, Rest

LEMMA TakeOffTame ==
    ASSUME NEW v, Tame(v), NEW o
    PROVE  Tame(TakeOff(v, o))
<1> DEFINE K == {i \in DOMAIN v.book : v.book[i].o # o}
<1>1. IsFiniteSet(K)
  BY IndicesFinite DEF Tame
<1>2. IsList(Only(v.book, K))
  BY <1>1, ListOnly
<1>3. QED BY <1>2 DEF Tame, TakeOff

\* A book entry that changes leaves the list a list.
LEMMA ListMapped ==
    ASSUME NEW l, IsList(l), NEW m, m = [i \in DOMAIN l |-> m[i]]
    PROVE  IsList(m) /\ Len(m) = Len(l) /\ DOMAIN m = DOMAIN l
<1>1. Len(l) \in Nat /\ DOMAIN l = 1..Len(l)
  BY ListFacts
<1>2. QED BY <1>1, ListOf

LEMMA BookFillTame ==
    ASSUME NEW v, Tame(v), NEW o, NEW size
    PROVE  Tame(BookFill(v, o, size))
<1> DEFINE e == Entry(v, o)
           filled == e.filled + Min({size, e.working - e.filled})
           book == [i \in DOMAIN v.book |->
               IF v.book[i].o = o THEN [v.book[i] EXCEPT !.filled = filled] ELSE v.book[i]]
<1>1. IsList(book)
  BY ListMapped DEF Tame
<1>2. BookFill(v, o, size) = IF filled >= e.working THEN TakeOff(v, o)
                             ELSE [v EXCEPT !.book = book]
  BY DEF BookFill
<1>3. Tame([v EXCEPT !.book = book])
  BY <1>1 DEF Tame
<1>4. QED BY <1>2, <1>3, TakeOffTame

LEMMA NumberedTame ==
    ASSUME NEW v, Tame(v), NEW o, NEW size
    PROVE  Tame(Numbered(v, o, size))
<1>1. Reports(Append(v.out, FillReport(o, v.count[o] + 1, size)))
  BY ReportsAppend DEF Tame, FillReport
<1>2. QED BY <1>1 DEF Tame, Numbered

LEMMA RecheckTame ==
    ASSUME NEW v, Tame(v)
    PROVE  Tame(RecheckReduceOnly(v))
<1> DEFINE Holding(e) == ~signals[e.o].reduceOnly \/ ReducesNet(v, e.o)
           Fit(e) == IF signals[e.o].reduceOnly
                THEN [e EXCEPT !.working =
                         e.filled + Min({e.working - e.filled, Abs(Net(v))})]
                ELSE e
           kept == {i \in DOMAIN v.book : Holding(v.book[i])}
           gone == Only(v.book, DOMAIN v.book \ kept)
           book == Only([i \in DOMAIN v.book |-> Fit(v.book[i])], kept)
           said == [i \in DOMAIN gone |-> StatusReport(gone[i].o, "CANCELLED")]
           told == v.statuses \cup {gone[i].o : i \in DOMAIN gone}
<1>1. RecheckReduceOnly(v) = [v EXCEPT !.book = book, !.out = @ \o said, !.statuses = told]
  BY DEF RecheckReduceOnly
<1>2. IsList(book)
  <2>1. IsFiniteSet(kept)
    BY IndicesFinite DEF Tame
  <2>2. QED BY <2>1, ListOnly
<1>3. Reports(said)
  <2>1. IsFiniteSet(DOMAIN v.book \ kept)
    BY IndicesFinite DEF Tame
  <2>2. IsList(gone)
    BY <2>1, ListOnly
  <2> HIDE DEF gone
  <2>3. IsList(said) /\ DOMAIN said = DOMAIN gone
    BY <2>2, ListMapped
  <2>4. QED BY <2>3 DEF Reports, StatusReport
<1>4. Reports(v.out \o said)
  BY <1>3, ReportsConcat DEF Tame
<1> HIDE DEF book, said, told
<1>5. QED BY <1>1, <1>2, <1>4 DEF Tame

LEMMA CrossingTame ==
    ASSUME NEW v, Tame(v), NEW o, NEW missed
    PROVE  Tame(FillCrossingLimit(v, o, missed))
<1> DEFINE e == Entry(v, o)
           size == Min({Offer(e.working), e.working - e.filled})
           done == e.filled + size >= e.working
           filled == Numbered(BookFill(v, o, size), o, size)
           after == IF done /\ e.working < e.asked
                    THEN Say(filled, o, "CANCELLED") ELSE filled
<1>1. Tame(filled)
  BY BookFillTame, NumberedTame
<1> HIDE DEF filled
<1>2. Tame(after)
  BY <1>1, SayTame
<1>3. Tame(RecheckReduceOnly(after))
  BY <1>2, RecheckTame
<1>4. FillCrossingLimit(v, o, missed) = IF missed THEN v ELSE RecheckReduceOnly(after)
  BY DEF FillCrossingLimit, filled
<1>5. QED BY <1>3, <1>4

\* A walk exists over the first n orders, for every n.
LEMMA WalkExists ==
    ASSUME NEW v, NEW price, NEW missed, NEW n \in Nat
    PROVE  \E w : Walks(v, w, n, price, missed)
<1> DEFINE C == {k \in Nat : \E w : Walks(v, w, k, price, missed)}
           first == [v EXCEPT !.price = price, !.unapplied = Unapplied(v)]
<1>1. 0 \in C
  <2> DEFINE w == [i \in 0..0 |-> first]
  <2>1. \A i \in 0..0 : Walked(v, w, i, price, missed) = first
    BY DEF Walked
  <2>2. Walks(v, w, 0, price, missed)
    BY <2>1 DEF Walks
  <2>3. QED BY <2>2
<1>2. ASSUME NEW k \in Nat, k \in C PROVE k + 1 \in C
  <2>1. PICK w : Walks(v, w, k, price, missed)
    BY <1>2
  <2> DEFINE last == Walked(v, w, k + 1, price, missed)
             u == [i \in 0..(k + 1) |-> IF i = k + 1 THEN last ELSE w[i]]
  <2>2. \A i \in 0..k : u[i] = w[i]
    OBVIOUS
  <2>3. \A i \in 0..k : w[i] = Walked(v, w, i, price, missed)
    <3>1. w = [i \in 0..k |-> Walked(v, w, i, price, missed)]
      BY <2>1 DEF Walks
    <3>2. QED BY <3>1
  <2> HIDE DEF last
  <2>4. ASSUME NEW i \in 0..(k + 1) PROVE u[i] = Walked(v, u, i, price, missed)
    <3>1. CASE i = 0
      <4>1. u[i] = w[i]
        BY <3>1, <2>2
      <4>2. QED BY <3>1, <4>1, <2>3 DEF Walked
    <3>2. CASE i \in 1..k
      <4>1. i - 1 \in 0..k /\ i \in 0..k
        BY <3>2
      <4>2. u[i] = w[i] /\ u[i - 1] = w[i - 1]
        BY <4>1, <2>2
      <4> HIDE DEF u
      <4>3. Walked(v, u, i, price, missed) = Walked(v, w, i, price, missed)
        BY <4>2 DEF Walked
      <4>4. QED BY <4>1, <4>2, <4>3, <2>3
    <3>3. CASE i = k + 1
      <4>1. i - 1 \in 0..k
        BY <3>3
      <4>2. u[i] = last /\ u[i - 1] = w[i - 1]
        BY <3>3, <4>1, <2>2
      <4> HIDE DEF u
      <4>3. Walked(v, u, i, price, missed) = Walked(v, w, i, price, missed)
        BY <4>2 DEF Walked
      <4>4. QED BY <3>3, <4>2, <4>3 DEF last
    <3>4. QED BY <3>1, <3>2, <3>3
  <2>5. u = [i \in 0..(k + 1) |-> u[i]]
    OBVIOUS
  <2> HIDE DEF u
  <2>6. u = [i \in 0..(k + 1) |-> Walked(v, u, i, price, missed)]
    BY <2>4, <2>5
  <2>7. Walks(v, u, k + 1, price, missed)
    BY <2>6 DEF Walks
  <2>8. QED BY <2>7
<1>3. QED BY <1>1, <1>2, ClimbNat

LEMMA MatchIsWalk ==
    ASSUME NEW v, NEW price, NEW missed, Len(v.book) \in Nat
    PROVE  \E w : Walks(v, w, Len(v.book), price, missed)
                  /\ MatchBook(v, price, missed) = w[Len(v.book)]
<1> DEFINE W == CHOOSE w : Walks(v, w, Len(v.book), price, missed)
<1>1. Walks(v, W, Len(v.book), price, missed)
  BY WalkExists
<1>2. MatchBook(v, price, missed) = W[Len(v.book)]
  BY DEF MatchBook, Walks, Walked
<1>3. QED BY <1>1, <1>2

LEMMA MatchTame ==
    ASSUME NEW v, Tame(v), NEW price, NEW missed
    PROVE  Tame(MatchBook(v, price, missed))
<1>0. Len(v.book) \in Nat
  BY ListFacts DEF Tame
<1>1. PICK w : /\ Walks(v, w, Len(v.book), price, missed)
               /\ MatchBook(v, price, missed) = w[Len(v.book)]
  BY <1>0, MatchIsWalk
<1>2. \A i \in 0..Len(v.book) : w[i] = Walked(v, w, i, price, missed)
  <2>1. w = [i \in 0..Len(v.book) |-> Walked(v, w, i, price, missed)]
    BY <1>1 DEF Walks
  <2>2. QED BY <2>1
<1> DEFINE C == {k \in Nat : k <= Len(v.book) => Tame(w[k])}
<1>3. 0 \in C
  <2>1. w[0] = [v EXCEPT !.price = price, !.unapplied = Unapplied(v)]
    BY <1>0, <1>2 DEF Walked
  <2>2. Tame(w[0])
    BY <2>1 DEF Tame
  <2>3. QED BY <2>2
<1>4. ASSUME NEW k \in Nat, k \in C, k + 1 <= Len(v.book) PROVE Tame(w[k + 1])
  <2>1. Tame(w[k])
    BY <1>0, <1>4
  <2>2. k + 1 \in 0..Len(v.book) /\ k + 1 # 0 /\ (k + 1) - 1 = k
    BY <1>0, <1>4
  <2>3. w[k + 1] = Walked(v, w, k + 1, price, missed)
    BY <1>2, <2>2
  <2> DEFINE o == v.book[k + 1].o
  <2>4. w[k + 1] = FillCrossingLimit(w[k], o, o \in missed) \/ w[k + 1] = w[k]
    BY <2>2, <2>3 DEF Walked
  <2>5. QED BY <2>1, <2>4, CrossingTame
<1>5. Len(v.book) \in C
  <2>1. \A k \in Nat : k \in C => k + 1 \in C
    BY <1>4
  <2> HIDE DEF C
  <2>2. QED BY <1>0, <1>3, <2>1, ClimbNat
<1>6. QED BY <1>0, <1>1, <1>5

LEMMA MarketTame ==
    ASSUME NEW v, Tame(v), NEW o, NEW size
    PROVE  Tame(PlaceMarket(v, o, size))
<1> DEFINE working == WorkingSize(v, o, size)
           filled == Numbered(v, o, working)
           after == IF working < size THEN Say(filled, o, "CANCELLED") ELSE filled
<1>1. Tame(filled)
  BY NumberedTame
<1> HIDE DEF filled
<1>2. Tame(RecheckReduceOnly(after))
  BY <1>1, SayTame, RecheckTame
<1>3. \/ PlaceMarket(v, o, size) = Say(v, o, "REJECTED")
      \/ PlaceMarket(v, o, size) = RecheckReduceOnly(after)
  BY DEF PlaceMarket, filled
<1>4. QED BY <1>2, <1>3, SayTame

LEMMA LimitTame ==
    ASSUME NEW v, Tame(v), NEW o, NEW size, NEW missed
    PROVE  Tame(PlaceLimit(v, o, size, missed))
<1> DEFINE rested == Rest(v, o, size)
           arrived == FillCrossingLimit(rested, o, missed)
<1>1. Tame(rested)
  BY RestTame
<1> HIDE DEF rested
<1>2. Tame(arrived)
  BY <1>1, CrossingTame
<1> HIDE DEF arrived
<1>3. Tame(TakeOff(arrived, o))
  BY <1>2, TakeOffTame
<1>4. \/ PlaceLimit(v, o, size, missed) = Say(v, o, "REJECTED")
      \/ PlaceLimit(v, o, size, missed) = arrived
      \/ PlaceLimit(v, o, size, missed) = Say(TakeOff(arrived, o), o, "CANCELLED")
      \/ PlaceLimit(v, o, size, missed) = Say(arrived, o, "LIVE")
      \/ PlaceLimit(v, o, size, missed) = Say(v, o, "CANCELLED")
      \/ PlaceLimit(v, o, size, missed) = Say(rested, o, "LIVE")
  BY DEF PlaceLimit, arrived, rested
<1>5. QED BY <1>1, <1>2, <1>3, <1>4, SayTame

LEMMA PlaceTame ==
    ASSUME NEW v, Tame(v), NEW o, NEW size, NEW missed
    PROVE  Tame(Place(v, o, size, missed))
  BY SayTame, MarketTame, LimitTame DEF Place

LEMMA CancelTame ==
    ASSUME NEW v, Tame(v), NEW o
    PROVE  Tame(Cancel(v, o))
  BY SayTame, TakeOffTame DEF Cancel

LEMMA ReportedTame ==
    ASSUME NEW v, Tame(v), NEW m
    PROVE  Tame(OnFillReport(v, m)) /\ OnFillReport(v, m).out = v.out
<1> DEFINE b == BookFill(v, m.o, m.size)
           u == [b EXCEPT !.count[m.o] = m.n,
                     !.unapplied = @ \cup {[o |-> m.o, n |-> m.n,
                                  size |-> Direction(Side(m.o)) * m.size]}]
<1>1. Tame(b)
  BY BookFillTame
<1>2. b.out = v.out
  BY DEF Tame, BookFill, TakeOff
<1> HIDE DEF b
<1>3. Tame(u) /\ u.out = b.out
  BY <1>1 DEF Tame
<1>4. OnFillReport(v, m) = v \/ OnFillReport(v, m) = u
  BY DEF OnFillReport, BookReported, b
<1>5. QED BY <1>2, <1>3, <1>4

LEMMA QuietTame ==
    ASSUME NEW v, Tame(v)
    PROVE  Tame([v EXCEPT !.out = <<>>]) /\ [v EXCEPT !.out = <<>>].out = <<>>
  BY ListEmpty DEF Tame, Reports

LEMMA NewTame == Tame(NewVenue) /\ NewVenue.out = <<>>
  BY ListEmpty DEF Tame, Reports, NewVenue

LEMMA OrdersFinite == IsFiniteSet(Orders)
<1>1. PICK most \in Budgets : \A budget \in Budgets : budget.signals <= most.signals
  BY PaperAssumption
<1> DEFINE sent == {budget.signals : budget \in Budgets}
<1>2. \A n \in sent : n \in Int
  BY PaperAssumption
<1>3. most.signals \in sent /\ \A n \in sent : most.signals >= n
  BY <1>1, PaperAssumption
<1> HIDE DEF sent
<1>4. \E n \in sent : Max(sent) = n
  BY <1>3 DEF Max
<1>5. Orders = 1..Max(sent)
  BY DEF Orders, sent
<1>6. Max(sent) \in Int
  BY <1>2, <1>4
<1>7. IsFiniteSet(1..Max(sent))
  BY <1>6, FS_Interval
<1>8. QED BY <1>5, <1>7

LEMMA RebuiltTame == Tame(Rebuilt) /\ Rebuilt.out = <<>>
<1> DEFINE left == {o \in Orders : RestsAtVenue(o)}
<1>1. IsFiniteSet(left)
  BY OrdersFinite, FS_Subset
<1>2. Cardinality(left) \in Nat
  BY <1>1, FS_CardinalityType
<1> DEFINE book == [i \in 1..Cardinality(left) |->
                       LET o == Ascending(left)[i]
                       IN  [o |-> o, asked |-> OpenPart(o), filled |-> 0,
                            working |-> WorkingSize(NewVenue, o, OpenPart(o))]]
<1>3. IsList(book)
  BY <1>2, ListOf
<1>4. Rebuilt.book = book /\ Rebuilt.out = <<>> /\ DOMAIN Rebuilt = DOMAIN NewVenue
  BY DEF Rebuilt, NewVenue
<1> HIDE DEF book
<1>5. QED BY <1>3, <1>4, NewTame DEF Tame

-----------------------------------------------------------------------------
\* Funding: the boundaries, and what is on its way to the ledger.

\* The boundaries in (after, through]: all of them, in order.
LEMMA BoundariesAre ==
    ASSUME NEW after \in Nat, NEW through \in Nat, after <= through
    PROVE  /\ IsList(Boundaries(after, through))
           /\ \A i \in DOMAIN Boundaries(after, through) :
                 /\ Boundaries(after, through)[i] \in (after + 1)..through
                 /\ IsBoundary(Boundaries(after, through)[i])
           /\ \A i, j \in DOMAIN Boundaries(after, through) :
                 i < j => Boundaries(after, through)[i] < Boundaries(after, through)[j]
           /\ \A b \in (after + 1)..through : IsBoundary(b) =>
                 \E i \in DOMAIN Boundaries(after, through) : Boundaries(after, through)[i] = b
<1> DEFINE p == after \div Interval
           q == through \div Interval
           s == Boundaries(after, through)
<1>0. Interval \in Nat \ {0}
  BY PaperAssumption
<1>1. /\ p \in Nat /\ p * Interval <= after /\ after < p * Interval + Interval
      /\ q \in Nat /\ q * Interval <= through /\ through < q * Interval + Interval
  BY <1>0
<1>2. s = [i \in 1..(q - p) |-> (p + i) * Interval]
  BY DEF Boundaries
<1> HIDE DEF p, q, s
<1>3. ASSUME NEW m \in Nat, NEW n \in Nat, m < n PROVE m * Interval + Interval <= n * Interval
  BY <1>0, <1>3
<1>4. ASSUME NEW m \in Nat, NEW n \in Nat, m <= n PROVE m * Interval <= n * Interval
  BY <1>0, <1>4
<1>5. \A m \in Nat : m * Interval \in Nat
  BY <1>0
<1>6. p <= q
  <2>1. ~(q < p)
    <3>1. SUFFICES ASSUME q < p PROVE FALSE
      OBVIOUS
    <3>2. q * Interval + Interval <= p * Interval
      BY <1>1, <1>3, <3>1
    <3>3. QED BY <1>0, <1>1, <1>5, <3>2
  <2>2. QED BY <1>1, <2>1
<1>7. q - p \in Nat /\ DOMAIN s = 1..(q - p)
  BY <1>1, <1>2, <1>6
<1>8. IsList(s)
  BY <1>2, <1>7, ListOf
<1>9. ASSUME NEW i \in DOMAIN s
      PROVE  s[i] = (p + i) * Interval /\ p + i \in Nat /\ p < p + i /\ p + i <= q
  BY <1>1, <1>2, <1>7
<1>10. ASSUME NEW i \in DOMAIN s PROVE s[i] \in (after + 1)..through /\ IsBoundary(s[i])
  <2>1. p * Interval + Interval <= s[i]
    BY <1>1, <1>3, <1>9
  <2>2. s[i] <= q * Interval
    BY <1>1, <1>4, <1>9
  <2>3. s[i] \in Nat
    BY <1>5, <1>9
  <2>4. after < s[i] /\ s[i] <= through
    BY <1>0, <1>1, <1>5, <2>1, <2>2, <2>3
  <2>5. IsBoundary(s[i])
    BY <1>9 DEF IsBoundary
  <2>6. QED BY <2>3, <2>4, <2>5
<1>11. ASSUME NEW i \in DOMAIN s, NEW j \in DOMAIN s, i < j PROVE s[i] < s[j]
  <2>1. p + i < p + j
    BY <1>1, <1>7, <1>11
  <2>2. s[i] + Interval <= s[j]
    BY <1>3, <1>9, <2>1
  <2>3. s[i] \in Nat /\ s[j] \in Nat
    BY <1>5, <1>9
  <2>4. QED BY <1>0, <2>2, <2>3
<1>12. ASSUME NEW b \in (after + 1)..through, IsBoundary(b)
       PROVE  \E i \in DOMAIN s : s[i] = b
  <2>1. PICK n \in Nat : b = n * Interval
    BY <1>12 DEF IsBoundary
  <2>2. ~(n <= p)
    <3>1. SUFFICES ASSUME n <= p PROVE FALSE
      OBVIOUS
    <3>2. n * Interval <= p * Interval
      BY <1>1, <1>4, <3>1
    <3>3. QED BY <1>1, <1>5, <2>1, <3>2
  <2>3. ~(q < n)
    <3>1. SUFFICES ASSUME q < n PROVE FALSE
      OBVIOUS
    <3>2. q * Interval + Interval <= n * Interval
      BY <1>1, <1>3, <3>1
    <3>3. QED BY <1>0, <1>1, <1>5, <2>1, <3>2
  <2>4. n - p \in DOMAIN s /\ p + (n - p) = n
    BY <1>1, <1>7, <2>2, <2>3
  <2>5. s[n - p] = b
    BY <1>9, <2>1, <2>4
  <2>6. QED BY <2>4, <2>5
<1>13. QED BY <1>8, <1>10, <1>11, <1>12 DEF s

-----------------------------------------------------------------------------
\* What the log does to the accruals in it.

LEMMA QueueDomain ==
    ASSUME Bus
    PROVE  Len(queue) \in Nat /\ DOMAIN queue = 1..Len(queue)
  BY ListFacts DEF Bus

LEMMA SameBus ==
    ASSUME Bus, UNCHANGED bus
    PROVE  Quietly
<1>1. Bus' /\ queue' = queue /\ dispatched' = dispatched
  BY DEF Bus, bus
<1>2. Follows(0)
  BY <1>1, QueueDomain DEF Follows, IsAccrual
<1>3. QED BY <1>1, <1>2 DEF Quietly

LEMMA PublishQuietly ==
    ASSUME Bus, NEW m, m.k # "funding", Publish(m)
    PROVE  Quietly
<1>1. IsList(queue) /\ queue' = Append(queue, m) /\ held' = held /\ dispatched' = dispatched
  BY DEF Bus, Publish
<1>2. /\ IsList(queue') /\ DOMAIN queue' = 1..(Len(queue) + 1)
      /\ \A i \in 1..Len(queue) : queue'[i] = queue[i]
      /\ queue'[Len(queue) + 1] = m
  BY <1>1, ListAppend
<1>3. Len(queue) \in Nat /\ DOMAIN queue = 1..Len(queue)
  BY QueueDomain
<1>4. queue' # <<>>
  BY <1>2, <1>3, ListEmpty
<1>5. Bus'
  BY <1>1, <1>2, <1>4 DEF Bus
<1>6. \A i \in 1..(Len(queue) + 1) : i \in 1..Len(queue) \/ i = Len(queue) + 1
  BY <1>3
<1>7. dispatched' => 1 \in DOMAIN queue
  <2>1. dispatched => queue # <<>>
    BY DEF Bus
  <2>2. queue # <<>> => Len(queue) # 0
    BY EmptySeq DEF Bus, IsList
  <2>3. QED BY <1>1, <1>3, <2>1, <2>2
<1>8. Follows(0)
  <2>1. \A i \in DOMAIN queue' : queue'[i].k = "funding" =>
           i + 0 \in DOMAIN queue /\ queue'[i] = queue[i + 0]
    BY <1>2, <1>3, <1>6
  <2>2. \A j \in DOMAIN queue : j - 0 \in DOMAIN queue' /\ queue'[j - 0] = queue[j]
    BY <1>2, <1>3
  <2>3. QED BY <1>1, <2>1, <2>2 DEF Follows
<1>9. QED BY <1>5, <1>8 DEF Quietly

LEMMA DispatchQuietly ==
    ASSUME Bus, ~dispatched, queue # <<>>, NEW out, Reports(out), Dispatch(out),
           Head(queue).k = "funding" => (kafka => FALSE) /\ Booked(Head(queue).boundary)
    PROVE  Quietly
<1>1. IsList(queue) /\ IsList(out) /\ Len(queue) \in Nat \ {0} /\ DOMAIN queue = 1..Len(queue)
  BY ListTail, ListFacts DEF Bus, Reports
<1>2. \A i \in DOMAIN out : out[i].k # "funding"
  BY DEF Reports
<1>3. Head(queue) = queue[1]
  BY <1>1, ListTail
<1>4. CASE kafka
  <2>1. held' = out /\ dispatched' = TRUE /\ queue' = queue
    BY <1>4 DEF Dispatch
  <2>2. Bus'
    BY <1>1, <1>2, <2>1 DEF Bus
  <2>3. queue'[1].k # "funding"
    BY <1>3, <1>4, <2>1
  <2>4. Follows(0)
    BY <1>1, <2>1, <2>3 DEF Follows
  <2>5. QED BY <2>2, <2>4 DEF Quietly
<1>5. CASE ~kafka
  <2>1. queue' = Tail(queue) \o out /\ held' = held /\ dispatched' = dispatched
    BY <1>5 DEF Dispatch
  <2>2. /\ IsList(queue') /\ DOMAIN queue' = 1..(Len(queue) - 1 + Len(out))
        /\ \A i \in 1..(Len(queue) - 1) : queue'[i] = queue[i + 1]
        /\ \A i \in 1..Len(out) : queue'[Len(queue) - 1 + i] = out[i]
    <3>1. /\ IsList(Tail(queue) \o out)
          /\ DOMAIN (Tail(queue) \o out) = 1..(Len(queue) - 1 + Len(out))
          /\ \A i \in 1..(Len(queue) - 1) : (Tail(queue) \o out)[i] = queue[i + 1]
          /\ \A i \in 1..Len(out) : (Tail(queue) \o out)[Len(queue) - 1 + i] = out[i]
      BY <1>1, ListDispatch
    <3>2. QED BY <2>1, <3>1, Zenon
  <2>3. held' = held /\ dispatched' = dispatched
    BY <2>1
  <2>5. Len(out) \in Nat /\ DOMAIN out = 1..Len(out)
    BY <1>1, ListFacts
  <2>6. Bus'
    BY <2>2, <2>3 DEF Bus
  <2>7. ASSUME NEW i \in DOMAIN queue', queue'[i].k = "funding"
        PROVE  i + 1 \in DOMAIN queue /\ queue'[i] = queue[i + 1]
    <3>1. CASE i \in 1..(Len(queue) - 1)
      BY <1>1, <2>2, <3>1
    <3>2. CASE ~(i \in 1..(Len(queue) - 1))
      <4> DEFINE n == Len(queue) - 1
      <4>1. i - n \in 1..Len(out) /\ n + (i - n) = i
        BY <1>1, <2>2, <2>5, <3>2
      <4>2. queue'[i] = out[i - n]
        BY <2>2, <4>1
      <4>3. QED BY <1>2, <2>5, <2>7, <4>1, <4>2
    <3>3. QED BY <3>1, <3>2
  <2>8. ASSUME NEW j \in DOMAIN queue, IsAccrual(j)
        PROVE  \/ j - 1 \in DOMAIN queue' /\ queue'[j - 1] = queue[j]
               \/ Booked(queue[j].boundary)
    <3>1. CASE j = 1
      BY <1>3, <2>8, <3>1 DEF IsAccrual
    <3>2. CASE j # 1
      <4>1. j - 1 \in 1..(Len(queue) - 1) /\ (j - 1) + 1 = j
        BY <1>1, <3>2
      <4>2. j - 1 \in DOMAIN queue'
        BY <1>1, <2>2, <2>5, <4>1
      <4>3. QED BY <2>2, <4>1, <4>2
    <3>3. QED BY <3>1, <3>2
  <2>9. Follows(1)
    BY <2>3, <2>7, <2>8 DEF Follows
  <2>10. QED BY <2>6, <2>9 DEF Quietly
<1>6. QED BY <1>4, <1>5

LEMMA FlushQuietly ==
    ASSUME Bus, dispatched, held # <<>>, dispatched' = dispatched,
           queue' = Append(queue, Head(held)), held' = Tail(held)
    PROVE  Quietly
<1>1. /\ IsList(held) /\ Len(held) \in Nat \ {0} /\ Head(held) = held[1]
      /\ IsList(Tail(held)) /\ DOMAIN Tail(held) = 1..(Len(held) - 1)
      /\ \A i \in 1..(Len(held) - 1) : Tail(held)[i] = held[i + 1]
  BY ListTail DEF Bus
<1>2. DOMAIN held = 1..Len(held)
  BY <1>1, ListFacts
<1>3. Head(held).k # "funding"
  BY <1>1, <1>2 DEF Bus
<1>4. \A i \in DOMAIN held' : held'[i].k # "funding"
  BY <1>1, <1>2 DEF Bus
<1>5. IsList(queue) /\ queue # <<>>
  BY DEF Bus
<1>6. /\ IsList(queue') /\ DOMAIN queue' = 1..(Len(queue) + 1)
      /\ \A i \in 1..Len(queue) : queue'[i] = queue[i]
      /\ queue'[Len(queue) + 1] = Head(held)
  BY <1>5, ListAppend
<1>7. Len(queue) \in Nat /\ DOMAIN queue = 1..Len(queue)
  BY QueueDomain
<1>8. queue' # <<>>
  BY <1>6, <1>7, ListEmpty
<1>9. Bus'
  <2>1. IsList(held')
    BY <1>1
  <2>2. QED BY <1>4, <1>6, <1>8, <2>1 DEF Bus
<1>10. \A i \in 1..(Len(queue) + 1) : i \in 1..Len(queue) \/ i = Len(queue) + 1
  BY <1>7
<1>11. Follows(0)
  <2>1. \A i \in DOMAIN queue' : queue'[i].k = "funding" =>
           i + 0 \in DOMAIN queue /\ queue'[i] = queue[i + 0]
    BY <1>3, <1>6, <1>7, <1>10
  <2>2. \A j \in DOMAIN queue : j - 0 \in DOMAIN queue' /\ queue'[j - 0] = queue[j]
    BY <1>6, <1>7
  <2>3. QED BY <2>1, <2>2 DEF Follows
<1>12. QED BY <1>9, <1>11 DEF Quietly

LEMMA CommitQuietly ==
    ASSUME FundInv, dispatched, held' = held, queue' = Tail(queue), dispatched' = FALSE
    PROVE  Quietly
<1>1. /\ IsList(queue) /\ queue # <<>> /\ Len(queue) \in Nat \ {0}
      /\ DOMAIN queue = 1..Len(queue)
  BY ListTail, ListFacts DEF FundInv, Bus
<1>2. /\ IsList(queue') /\ DOMAIN queue' = 1..(Len(queue) - 1)
      /\ \A i \in 1..(Len(queue) - 1) : queue'[i] = queue[i + 1]
  BY <1>1, ListTail
<1>3. Bus'
  BY <1>2 DEF FundInv, Bus
<1>4. IsAccrual(1) => Booked(queue[1].boundary)
  <2>1. SUFFICES ASSUME IsAccrual(1) PROVE Booked(queue[1].boundary)
    OBVIOUS
  <2>2. 1 \in DOMAIN queue
    BY <1>1
  <2>3. /\ queue[1].boundary \in 1..now /\ watermark <= queue[1].boundary
        /\ queue[1].boundary <= watermark
    BY <2>1, <2>2 DEF FundInv, AccrualsQueued
  <2>4. queue[1].boundary = watermark /\ watermark > 0
    BY <2>3 DEF FundInv, Clock
  <2>5. QED BY <2>4 DEF FundInv, ChargedInOrder
<1>5. ASSUME NEW i \in DOMAIN queue'
      PROVE  i + 1 \in DOMAIN queue /\ queue'[i] = queue[i + 1]
  BY <1>1, <1>2
<1>6. ASSUME NEW j \in DOMAIN queue, IsAccrual(j)
      PROVE  \/ j - 1 \in DOMAIN queue' /\ queue'[j - 1] = queue[j]
             \/ Booked(queue[j].boundary)
  <2>1. CASE j = 1
    BY <1>4, <1>6, <2>1
  <2>2. CASE j # 1
    <3>1. j - 1 \in 1..(Len(queue) - 1) /\ (j - 1) + 1 = j
      BY <1>1, <2>2
    <3>2. QED BY <1>2, <3>1
  <2>3. QED BY <2>1, <2>2
<1>7. Follows(1)
  BY <1>5, <1>6 DEF Follows
<1>8. QED BY <1>3, <1>7 DEF Quietly

\* Such a step keeps what the funding guarantees, when the clock, the ledger and
\* the phase stand still.
LEMMA QuietKeeps ==
    ASSUME FundInv, Quietly, Clock', TameVenue',
           UNCHANGED <<now, settled, watermark, charged, gap, owed, phase>>
    PROVE  FundInv'
<1>1. PICK down \in {0, 1} : Follows(down)
  BY DEF Quietly
<1>2. ASSUME NEW i \in DOMAIN queue', queue'[i].k = "funding"
      PROVE  /\ i + down \in DOMAIN queue /\ queue'[i] = queue[i + down]
             /\ IsAccrual(i + down)
  BY <1>1, <1>2 DEF Follows, IsAccrual
<1>3. Len(queue') \in Nat /\ DOMAIN queue' = 1..Len(queue')
  BY ListFacts DEF Quietly, Bus
<1>4. AccrualsQueued'
  <2>1. ASSUME NEW i \in DOMAIN queue', queue'[i].k = "funding"
        PROVE  /\ queue'[i].boundary \in 1..now /\ queue'[i].boundary \notin gap
               /\ watermark <= queue'[i].boundary
               /\ phase = "running" => queue'[i].boundary <= settled
    BY <1>2, <2>1 DEF FundInv, AccrualsQueued
  <2>2. ASSUME NEW i \in DOMAIN queue', NEW j \in DOMAIN queue', i < j,
               queue'[i].k = "funding", queue'[j].k = "funding"
        PROVE  queue'[i].boundary < queue'[j].boundary
    <3>1. i + down < j + down
      BY <1>3, <2>2
    <3>2. QED BY <1>2, <2>2, <3>1 DEF FundInv, AccrualsQueued
  <2>3. ASSUME dispatched', queue'[1].k = "funding" PROVE queue'[1].boundary <= watermark
    <3>1. dispatched /\ down = 0
      BY <1>1, <2>3 DEF Follows
    <3>2. 1 \in DOMAIN queue'
      <4>1. queue' # <<>>
        BY <2>3 DEF Quietly, Bus
      <4>2. Len(queue') # 0
        BY <4>1, EmptySeq DEF Quietly, Bus, IsList
      <4>3. QED BY <1>3, <4>2
    <3>3. queue'[1] = queue[1] /\ IsAccrual(1)
      BY <1>2, <2>3, <3>1, <3>2
    <3>4. QED BY <3>1, <3>3 DEF FundInv, AccrualsQueued
  <2>4. QED BY <2>1, <2>2, <2>3 DEF AccrualsQueued, IsAccrual
<1>5. ASSUME NEW b, OnTheWay(b) PROVE Booked(b) \/ OnTheWay(b)'
  <2>1. PICK j \in DOMAIN queue : IsAccrual(j) /\ queue[j].boundary = b
    BY <1>5 DEF OnTheWay
  <2>2. CASE Booked(queue[j].boundary)
    BY <2>1, <2>2
  <2>3. CASE j - down \in DOMAIN queue' /\ queue'[j - down] = queue[j]
    BY <2>1, <2>3 DEF OnTheWay, IsAccrual
  <2>4. QED BY <1>1, <2>1, <2>2, <2>3 DEF Follows
<1>6. \A b : Booked(b)' <=> Booked(b)
  BY DEF Booked
<1>7. OwedComes'
  <2>1. ASSUME NEW b \in owed
        PROVE  b \in 1..now /\ IsBoundary(b) /\ (b > settled \/ Booked(b)' \/ OnTheWay(b)')
    BY <1>5, <1>6 DEF FundInv, OwedComes
  <2>2. QED BY <2>1 DEF FundInv, OwedComes
<1>8. ChargedInOrder' /\ SettledPast'
  BY <1>6 DEF FundInv, ChargedInOrder, SettledPast
<1>9. QED BY <1>4, <1>7, <1>8 DEF FundInv, Quietly

-----------------------------------------------------------------------------
\* Each step keeps FundInv.

LEMMA FundInitially == Init => FundInv
<1> SUFFICES ASSUME Init PROVE FundInv
  OBVIOUS
<1>1. Clock /\ SettledPast
  BY PaperAssumption DEF Init, Clock, SettledPast
<1>2. Bus
  BY ListEmpty DEF Init, Bus
<1>3. TameVenue
  BY NewTame DEF Init, TameVenue, Tame, NewVenue
<1>4. AccrualsQueued /\ ChargedInOrder /\ OwedComes
  BY ListEmpty DEF Init, AccrualsQueued, ChargedInOrder, OwedComes
<1>5. QED BY <1>1, <1>2, <1>3, <1>4 DEF FundInv

\* A step of the venue, the rows or the bounds alone.
LEMMA QuietClock ==
    ASSUME FundInv, UNCHANGED <<now, settled, watermark, bounds, gap>>
    PROVE  Clock'
  BY DEF FundInv, Clock

LEMMA SameVenue ==
    ASSUME FundInv, venue' = venue
    PROVE  TameVenue'
  BY DEF FundInv, TameVenue

LEMMA SetVenue ==
    ASSUME NEW v, Tame(v), venue' = [v EXCEPT !.out = <<>>]
    PROVE  TameVenue' /\ Reports(v.out)
  BY QuietTame DEF TameVenue, Tame

LEMMA NoReports == Reports(<<>>)
  BY ListEmpty DEF Reports

\* The venue's handlers, and those that publish nothing.
LEMMA HandlersKeep ==
    ASSUME FundInv,
           \/ SkipPlaced \/ Deny \/ PlaceOrder \/ OnCancel \/ OnTick
           \/ (OnFill \/ OnStatus) /\ phase' # "down"
    PROVE  FundInv'
<1>1. /\ ~dispatched /\ queue # <<>> /\ Head(queue).k # "funding"
      /\ UNCHANGED <<now, settled, watermark, charged, gap, owed, phase, bounds>>
  BY DEF SkipPlaced, Deny, PlaceOrder, OnCancel, OnTick, OnFill, OnStatus, Handling,
    Faults, Down, durable, memory, history
<1>2. Clock'
  BY <1>1, QuietClock
<1>3. Tame(venue)
  BY DEF FundInv, TameVenue
<1>4. TameVenue' /\ \E out : Reports(out) /\ Dispatch(out)
  <2>1. CASE SkipPlaced \/ Deny
    <3>1. venue' = venue /\ Dispatch(<<>>)
      BY <2>1 DEF SkipPlaced, Deny, memory
    <3>2. QED BY <3>1, SameVenue, NoReports
  <2>2. CASE PlaceOrder
    <3>1. PICK missed : LET v == Place(venue, Head(queue).o, rows'[Head(queue).o].size, missed)
                        IN  venue' = [v EXCEPT !.out = <<>>] /\ Dispatch(v.out)
      BY <2>2 DEF PlaceOrder
    <3> DEFINE v == Place(venue, Head(queue).o, rows'[Head(queue).o].size, missed)
    <3>2. Tame(v)
      BY <1>3, PlaceTame
    <3>3. venue' = [v EXCEPT !.out = <<>>] /\ Dispatch(v.out)
      BY <3>1
    <3> HIDE DEF v
    <3>4. QED BY <3>2, <3>3, SetVenue
  <2>3. CASE OnCancel
    <3> DEFINE v == Cancel(venue, Head(queue).o)
    <3>1. Tame(v)
      BY <1>3, CancelTame
    <3>2. \/ venue' = [v EXCEPT !.out = <<>>] /\ Dispatch(v.out)
          \/ venue' = venue /\ Dispatch(<<>>)
      BY <2>3 DEF OnCancel
    <3> HIDE DEF v
    <3>3. QED BY <3>1, <3>2, SetVenue, SameVenue, NoReports
  <2>4. CASE OnTick
    <3>1. PICK missed : LET v == MatchBook(venue, Head(queue).price, missed)
                        IN  venue' = [v EXCEPT !.out = <<>>] /\ Dispatch(v.out)
      BY <2>4 DEF OnTick
    <3> DEFINE v == MatchBook(venue, Head(queue).price, missed)
    <3>2. Tame(v)
      BY <1>3, MatchTame
    <3>3. venue' = [v EXCEPT !.out = <<>>] /\ Dispatch(v.out)
      BY <3>1
    <3> HIDE DEF v
    <3>4. QED BY <3>2, <3>3, SetVenue
  <2>5. CASE OnFill /\ phase' # "down"
    <3>1. venue' = OnFillReport(venue, Head(queue)) /\ Dispatch(<<>>)
      BY <2>5 DEF OnFill, Faults, Down
    <3>2. Tame(venue') /\ venue'.out = venue.out
      BY <1>3, <3>1, ReportedTame
    <3>3. QED BY <3>1, <3>2, NoReports DEF FundInv, TameVenue
  <2>6. CASE OnStatus /\ phase' # "down"
    <3>1. venue' = venue /\ Dispatch(<<>>)
      BY <2>6 DEF OnStatus, Faults, Down, memory
    <3>2. QED BY <3>1, SameVenue, NoReports
  <2>7. QED BY <2>1, <2>2, <2>3, <2>4, <2>5, <2>6
<1>5. Quietly
  BY <1>1, <1>4, DispatchQuietly DEF FundInv
<1>6. QED BY <1>1, <1>2, <1>4, <1>5, QuietKeeps

\* What publishes from outside the handlers, and the bus itself.
LEMMA PublishersKeep ==
    ASSUME FundInv,
           \/ FlushHeld \/ Commit \/ ReconcileStartup
           \/ EmitPlace \/ EmitCancel \/ FeedTick \/ Trip \/ Reset
           \/ \E o \in Orders : Ghost(o)
    PROVE  FundInv'
<1>1. UNCHANGED <<now, settled, watermark, charged, gap, owed, phase, venue>>
  BY DEF FlushHeld, Commit, ReconcileStartup, EmitPlace, EmitCancel, FeedTick, Trip,
    Reset, Ghost, durable, memory, history
<1>2. TameVenue'
  BY <1>1, SameVenue
<1>3. Clock'
  <2>1. bounds' \in [signals : Nat, cancels : Nat, ticks : Nat, switches : Nat,
                     crashes : Nat, time : Nat]
    <3>1. \/ bounds' = bounds
          \/ bounds.signals > 0 /\ bounds' = [bounds EXCEPT !.signals = @ - 1]
          \/ bounds.cancels > 0 /\ bounds' = [bounds EXCEPT !.cancels = @ - 1]
          \/ bounds.ticks > 0 /\ bounds' = [bounds EXCEPT !.ticks = @ - 1]
          \/ bounds.switches > 0 /\ bounds' = [bounds EXCEPT !.switches = @ - 1]
      BY DEF FlushHeld, Commit, ReconcileStartup, EmitPlace, EmitCancel, FeedTick, Trip,
        Reset, Ghost, Switches
    <3>2. bounds \in [signals : Nat, cancels : Nat, ticks : Nat, switches : Nat,
                      crashes : Nat, time : Nat]
      BY DEF FundInv, Clock
    <3>3. QED BY <3>1, <3>2
  <2>2. QED BY <1>1, <2>1 DEF FundInv, Clock
<1>4. Quietly
  <2>1. CASE FlushHeld
    BY <2>1, FlushQuietly DEF FlushHeld, FundInv
  <2>2. CASE Commit
    BY <2>2, CommitQuietly DEF Commit
  <2>3. CASE ReconcileStartup
    <3>1. UNCHANGED bus \/ \E o : Publish(StatusReport(o, "FAILED"))
      BY <2>3 DEF ReconcileStartup
    <3>2. QED BY <3>1, SameBus, PublishQuietly DEF FundInv, StatusReport
  <2>4. CASE EmitPlace
    <3>1. \E o : Publish(PlaceSignal(o))
      BY <2>4 DEF EmitPlace
    <3>2. QED BY <3>1, PublishQuietly DEF FundInv, PlaceSignal
  <2>5. CASE EmitCancel
    <3>1. \E o : Publish(CancelSignal(o))
      BY <2>5 DEF EmitCancel
    <3>2. QED BY <3>1, PublishQuietly DEF FundInv, CancelSignal
  <2>6. CASE FeedTick
    <3>1. \E price : Publish(MarketTick(price))
      BY <2>6 DEF FeedTick
    <3>2. QED BY <3>1, PublishQuietly DEF FundInv, MarketTick
  <2>7. CASE Trip \/ Reset
    BY <2>7, SameBus DEF Trip, Reset, FundInv
  <2>8. CASE \E o \in Orders : Ghost(o)
    <3>1. \E o, st : Publish(StatusReport(o, st))
      BY <2>8 DEF Ghost
    <3>2. QED BY <3>1, PublishQuietly DEF FundInv, StatusReport
  <2>9. QED BY <2>1, <2>2, <2>3, <2>4, <2>5, <2>6, <2>7, <2>8
<1>5. QED BY <1>1, <1>2, <1>3, <1>4, QuietKeeps

\* The process ends, by a crash or by a fault.
LEMMA DownKeeps ==
    ASSUME FundInv, Down, Clock', UNCHANGED <<watermark, charged, gap, now>>
    PROVE  FundInv'
<1>1. TameVenue'
  BY NewTame DEF Down, TameVenue
<1>2. /\ phase' = "down" /\ owed' = {} /\ ~dispatched' /\ held' = <<>>
      /\ queue' = queue \/ queue' = <<>>
  BY DEF Down
<1>3. Bus'
  BY <1>2, ListEmpty DEF FundInv, Bus
<1>4. AccrualsQueued'
  <2>1. CASE queue' = queue
    BY <1>2, <2>1 DEF FundInv, AccrualsQueued, IsAccrual
  <2>2. CASE queue' = <<>>
    BY <1>2, <2>2, ListEmpty DEF AccrualsQueued
  <2>3. QED BY <1>2, <2>1, <2>2
<1>5. ChargedInOrder' /\ SettledPast' /\ OwedComes'
  BY <1>2 DEF FundInv, ChargedInOrder, Booked, SettledPast, OwedComes
<1>6. QED BY <1>1, <1>3, <1>4, <1>5 DEF FundInv

LEMMA EndsKeep ==
    ASSUME FundInv,
           \/ Crash \/ CrashInSwitch \/ CrashInPlace
           \/ (OnFill \/ OnStatus) /\ phase' = "down"
    PROVE  FundInv'
<1>1. Down /\ UNCHANGED <<watermark, charged, gap, now>>
  BY DEF Crash, CrashInSwitch, CrashInPlace, OnFill, OnStatus, Crashes, Faults, durable,
    memory, Handling
<1>2. bounds' = bounds \/ Crashes
  BY DEF Crash, CrashInSwitch, CrashInPlace, OnFill, OnStatus, Faults
<1>3. bounds' \in [signals : Nat, cancels : Nat, ticks : Nat, switches : Nat,
                   crashes : Nat, time : Nat]
  BY <1>2 DEF FundInv, Clock, Crashes
<1>4. settled' = 0
  BY <1>1 DEF Down
<1>5. Clock'
  BY <1>1, <1>3, <1>4 DEF FundInv, Clock
<1>6. QED BY <1>1, <1>5, DownKeeps

LEMMA RestartKeeps ==
    ASSUME FundInv, Restart
    PROVE  FundInv'
<1>1. TameVenue'
  BY RebuiltTame DEF Restart, TameVenue
<1>2. Clock'
  BY QuietClock DEF Restart, durable, history
<1>3. UNCHANGED <<queue, held, dispatched, now, settled, watermark, charged, gap, owed>>
  BY DEF Restart, bus, durable, history
<1>4. phase' = "boot" /\ phase = "down"
  BY DEF Restart
<1>5. Bus' /\ AccrualsQueued' /\ ChargedInOrder' /\ SettledPast' /\ OwedComes'
  BY <1>3, <1>4 DEF FundInv, Bus, AccrualsQueued, IsAccrual, ChargedInOrder, Booked,
    SettledPast, OwedComes, OnTheWay
<1>6. QED BY <1>1, <1>2, <1>5 DEF FundInv

LEMMA BarrierKeeps ==
    ASSUME FundInv, BarrierClears
    PROVE  FundInv'
<1>1. UNCHANGED <<queue, held, dispatched, now, watermark, charged, gap, owed, venue, bounds>>
  BY DEF BarrierClears, bus, durable, history
<1>2. phase = "boot" /\ settled' = now /\ owed = {}
  BY DEF BarrierClears, SettledFrom, FundInv, OwedComes
<1>3. Clock' /\ Bus' /\ TameVenue' /\ SettledPast' /\ OwedComes'
  BY <1>1, <1>2 DEF FundInv, Clock, Bus, TameVenue, SettledPast, OwedComes
<1>4. AccrualsQueued' /\ ChargedInOrder'
  BY <1>1, <1>2 DEF FundInv, Clock, AccrualsQueued, IsAccrual, ChargedInOrder, Booked
<1>5. QED BY <1>3, <1>4 DEF FundInv

LEMMA AdvanceKeeps ==
    ASSUME FundInv, Advance
    PROVE  FundInv'
<1>1. PICK d \in 1..bounds.time :
         /\ now' = now + d /\ bounds' = [bounds EXCEPT !.time = @ - d]
         /\ gap' = IF phase = "running" THEN gap
                   ELSE gap \cup ToSet(Boundaries(now, now + d))
         /\ owed' = IF phase = "running" /\ StoreNet # 0 /\ venue.price # NoPrice
                    THEN owed \cup ToSet(Boundaries(now, now + d)) ELSE owed
  BY DEF Advance
<1>2. UNCHANGED <<queue, held, dispatched, settled, watermark, charged, venue, phase>>
  BY DEF Advance, bus, durable, memory
<1>3. /\ now \in Nat /\ settled \in 0..now /\ watermark \in 0..now /\ gap \subseteq 0..now
      /\ bounds \in [signals : Nat, cancels : Nat, ticks : Nat, switches : Nat,
                     crashes : Nat, time : Nat]
  BY DEF FundInv, Clock
<1>4. d \in Nat \ {0} /\ now + d \in Nat /\ now <= now + d
  BY <1>1, <1>3
<1>5. ASSUME NEW b \in ToSet(Boundaries(now, now + d))
      PROVE  b \in (now + 1)..(now + d) /\ IsBoundary(b)
  <2>1. PICK i \in DOMAIN Boundaries(now, now + d) : Boundaries(now, now + d)[i] = b
    BY <1>5 DEF ToSet
  <2>2. QED BY <1>3, <1>4, <2>1, BoundariesAre
<1>6. Clock'
  <2>1. bounds' \in [signals : Nat, cancels : Nat, ticks : Nat, switches : Nat,
                     crashes : Nat, time : Nat]
    BY <1>1, <1>3
  <2>2. gap' \subseteq 0..now'
    BY <1>1, <1>3, <1>4, <1>5
  <2>3. QED BY <1>1, <1>2, <1>3, <1>4, <2>1, <2>2 DEF Clock
<1>7. ASSUME NEW b \in 1..now, b \notin gap PROVE b \in 1..now' /\ b \notin gap'
  BY <1>1, <1>3, <1>4, <1>5, <1>7
<1>8. AccrualsQueued'
  BY <1>2, <1>7 DEF FundInv, AccrualsQueued, IsAccrual
<1>9. ChargedInOrder'
  <2>1. \A i \in DOMAIN charged : charged[i] \in 1..now /\ charged[i] \notin gap
    BY <1>3 DEF FundInv, ChargedInOrder
  <2>2. QED BY <1>2, <1>7, <2>1 DEF FundInv, ChargedInOrder, Booked
<1>10. SettledPast'
  BY <1>1, <1>2 DEF FundInv, SettledPast
<1>11. OwedComes'
  <2>1. \A b : (Booked(b)' <=> Booked(b)) /\ (OnTheWay(b)' <=> OnTheWay(b))
    BY <1>2 DEF Booked, OnTheWay, IsAccrual
  <2>2. ASSUME NEW b \in owed'
        PROVE  b \in 1..now' /\ IsBoundary(b) /\ (b > settled \/ Booked(b) \/ OnTheWay(b))
    <3>1. CASE b \in owed
      <4>1. b \in 1..now /\ IsBoundary(b) /\ (b > settled \/ Booked(b) \/ OnTheWay(b))
        BY <3>1 DEF FundInv, OwedComes
      <4>2. QED BY <1>1, <1>3, <1>4, <4>1
    <3>2. CASE b \in ToSet(Boundaries(now, now + d))
      BY <1>1, <1>3, <1>4, <1>5, <3>2
    <3>3. QED BY <1>1, <2>2, <3>1, <3>2
  <2>3. phase' # "running" => owed' = {}
    BY <1>1, <1>2 DEF FundInv, OwedComes
  <2>4. QED BY <1>2, <2>1, <2>2, <2>3 DEF OwedComes
<1>12. Bus' /\ TameVenue'
  BY <1>2 DEF FundInv, Bus, TameVenue
<1>13. QED BY <1>6, <1>8, <1>9, <1>10, <1>11, <1>12 DEF FundInv

\* Every boundary crossed joins the log, or none is owed.
LEMMA RunFundingKeeps ==
    ASSUME FundInv, RunFunding
    PROVE  FundInv'
<1> DEFINE crossed == Boundaries(settled, now)
           accruals == [i \in DOMAIN crossed |-> FundingAccrual(crossed[i])]
<1>1. /\ now \in Nat /\ settled \in 0..now /\ watermark \in 0..now /\ phase = "running"
      /\ watermark <= settled /\ gap \subseteq 0..settled
      /\ IsList(queue) /\ IsList(held)
  BY DEF FundInv, Clock, SettledPast, RunFunding, Bus
<1>2. /\ UNCHANGED <<held, dispatched, watermark, charged, gap, venue, phase, now, bounds>>
      /\ settled' = now
  BY DEF RunFunding, durable
<1>3. /\ IsList(crossed)
      /\ \A i \in DOMAIN crossed : crossed[i] \in (settled + 1)..now /\ IsBoundary(crossed[i])
      /\ \A i, j \in DOMAIN crossed : i < j => crossed[i] < crossed[j]
      /\ \A b \in (settled + 1)..now : IsBoundary(b) => \E i \in DOMAIN crossed : crossed[i] = b
  BY <1>1, BoundariesAre
<1>4. \/ queue' = queue /\ owed' = owed \ ToSet(crossed)
      \/ queue' = queue \o accruals /\ owed' = owed
  BY DEF RunFunding
<1> HIDE DEF crossed
<1>5. /\ IsList(accruals) /\ DOMAIN accruals = DOMAIN crossed /\ Len(accruals) = Len(crossed)
      /\ \A i \in DOMAIN crossed : /\ accruals[i].k = "funding"
                                   /\ accruals[i].boundary = crossed[i]
  BY <1>3, ListMapped DEF FundingAccrual
<1> HIDE DEF accruals
<1>6. /\ Len(queue) \in Nat /\ DOMAIN queue = 1..Len(queue)
      /\ Len(crossed) \in Nat /\ DOMAIN crossed = 1..Len(crossed)
  BY <1>1, <1>3, ListFacts
<1>7. /\ Clock' /\ ChargedInOrder' /\ SettledPast' /\ TameVenue'
  BY <1>1, <1>2 DEF FundInv, Clock, ChargedInOrder, Booked, SettledPast, TameVenue
<1>8. \A b : Booked(b)' <=> Booked(b)
  BY <1>2 DEF Booked
<1>9. ASSUME NEW b \in owed
      PROVE  b \in 1..now /\ IsBoundary(b) /\ (b > settled \/ Booked(b) \/ OnTheWay(b))
  BY DEF FundInv, OwedComes
<1>10. ASSUME NEW i \in DOMAIN queue, IsAccrual(i)
       PROVE  /\ queue[i].boundary \in 1..now /\ queue[i].boundary \notin gap
              /\ watermark <= queue[i].boundary /\ queue[i].boundary <= settled
  BY <1>1, <1>10 DEF FundInv, AccrualsQueued
<1>11. CASE queue' = queue /\ owed' = owed \ ToSet(crossed)
  <2>1. Bus'
    BY <1>2, <1>11 DEF FundInv, Bus
  <2>2. AccrualsQueued'
    <3>1. \A i \in DOMAIN queue : IsAccrual(i) => queue[i].boundary <= now
      BY <1>1, <1>10
    <3>2. QED BY <1>2, <1>11, <3>1 DEF FundInv, AccrualsQueued, IsAccrual
  <2>3. ASSUME NEW b \in owed'
        PROVE  b \in 1..now /\ IsBoundary(b) /\ (Booked(b)' \/ OnTheWay(b)')
    <3>1. b \in owed /\ b \notin ToSet(crossed)
      BY <1>11, <2>3
    <3>2. ~(b > settled)
      <4>1. SUFFICES ASSUME b > settled PROVE FALSE
        OBVIOUS
      <4>2. b \in (settled + 1)..now /\ IsBoundary(b)
        BY <1>1, <1>9, <3>1, <4>1
      <4>3. PICK i \in DOMAIN crossed : crossed[i] = b
        BY <1>3, <4>2
      <4>4. QED BY <3>1, <4>3 DEF ToSet
    <3>3. OnTheWay(b) => OnTheWay(b)'
      BY <1>11 DEF OnTheWay, IsAccrual
    <3>4. QED BY <1>8, <1>9, <3>1, <3>2, <3>3
  <2>4. OwedComes'
    BY <1>1, <1>2, <2>3 DEF OwedComes
  <2>5. QED BY <1>7, <2>1, <2>2, <2>4 DEF FundInv
<1>12. CASE queue' = queue \o accruals /\ owed' = owed
  <2>1. /\ IsList(queue \o accruals)
        /\ DOMAIN (queue \o accruals) = 1..(Len(queue) + Len(accruals))
        /\ \A i \in 1..Len(queue) : (queue \o accruals)[i] = queue[i]
        /\ \A i \in 1..Len(accruals) : (queue \o accruals)[Len(queue) + i] = accruals[i]
    BY <1>1, <1>5, ListConcat
  <2>2. /\ IsList(queue') /\ DOMAIN queue' = 1..(Len(queue) + Len(accruals))
        /\ \A i \in 1..Len(queue) : queue'[i] = queue[i]
        /\ \A i \in 1..Len(accruals) : queue'[Len(queue) + i] = accruals[i]
    BY <1>12, <2>1, Zenon
  <2>3. owed' = owed
    BY <1>12
  <2>4. ASSUME NEW i \in DOMAIN queue'
        PROVE  \/ i \in DOMAIN queue /\ queue'[i] = queue[i]
               \/ /\ i - Len(queue) \in DOMAIN crossed /\ i > Len(queue)
                  /\ queue'[i] = accruals[i - Len(queue)]
    <3>1. CASE i \in 1..Len(queue)
      BY <1>6, <2>2, <3>1
    <3>2. CASE ~(i \in 1..Len(queue))
      <4>1. i - Len(queue) \in 1..Len(accruals) /\ Len(queue) + (i - Len(queue)) = i
            /\ i > Len(queue)
        BY <1>5, <1>6, <2>2, <3>2
      <4>2. QED BY <1>5, <1>6, <2>2, <4>1
    <3>3. QED BY <3>1, <3>2
  <2>5. Bus'
    <3>1. dispatched' => queue' # <<>>
      <4>1. dispatched' => Len(queue) # 0
        BY <1>1, <1>2, EmptySeq DEF FundInv, Bus, IsList
      <4>2. dispatched' => 1 \in DOMAIN queue'
        BY <1>5, <1>6, <2>2, <4>1
      <4>3. QED BY <4>2, ListEmpty
    <3>2. QED BY <1>2, <2>2, <3>1 DEF FundInv, Bus
  <2>6. AccrualsQueued'
    <3>1. ASSUME NEW i \in DOMAIN queue', queue'[i].k = "funding"
          PROVE  /\ queue'[i].boundary \in 1..now /\ queue'[i].boundary \notin gap
                 /\ watermark <= queue'[i].boundary
                 /\ queue'[i].boundary <= now
      <4>1. CASE i \in DOMAIN queue /\ queue'[i] = queue[i]
        BY <1>1, <1>10, <3>1, <4>1 DEF IsAccrual
      <4>2. CASE i - Len(queue) \in DOMAIN crossed /\ queue'[i] = accruals[i - Len(queue)]
        <5>1. queue'[i].boundary \in (settled + 1)..now
          BY <1>3, <1>5, <4>2
        <5>2. QED BY <1>1, <5>1
      <4>3. QED BY <2>4, <4>1, <4>2
    <3>2. ASSUME NEW i \in DOMAIN queue', NEW j \in DOMAIN queue', i < j,
                 queue'[i].k = "funding", queue'[j].k = "funding"
          PROVE  queue'[i].boundary < queue'[j].boundary
      <4>1. CASE j \in DOMAIN queue /\ queue'[j] = queue[j]
        <5>1. i \in DOMAIN queue /\ queue'[i] = queue[i]
          BY <1>5, <1>6, <2>2, <3>2, <4>1
        <5>2. QED BY <3>2, <4>1, <5>1 DEF FundInv, AccrualsQueued, IsAccrual
      <4>2. CASE /\ j - Len(queue) \in DOMAIN crossed
                 /\ queue'[j] = accruals[j - Len(queue)]
        <5>1. queue'[j].boundary = crossed[j - Len(queue)]
          BY <1>5, <4>2
        <5>2. CASE i \in DOMAIN queue /\ queue'[i] = queue[i]
          <6>1. queue'[i].boundary \in 1..now /\ queue'[i].boundary <= settled
            BY <1>10, <3>2, <5>2 DEF IsAccrual
          <6>2. crossed[j - Len(queue)] \in (settled + 1)..now
            BY <1>3, <4>2
          <6>3. QED BY <1>1, <5>1, <6>1, <6>2
        <5>3. CASE /\ i - Len(queue) \in DOMAIN crossed
                   /\ queue'[i] = accruals[i - Len(queue)]
          <6>1. queue'[i].boundary = crossed[i - Len(queue)]
            BY <1>5, <5>3
          <6>2. i - Len(queue) < j - Len(queue)
            BY <1>5, <1>6, <2>2, <3>2
          <6>3. QED BY <1>3, <4>2, <5>1, <5>3, <6>1, <6>2
        <5>4. QED BY <2>4, <5>2, <5>3
      <4>3. QED BY <2>4, <4>1, <4>2
    <3>3. ASSUME dispatched', queue'[1].k = "funding" PROVE queue'[1].boundary <= watermark
      <4>1. Len(queue) # 0
        BY <1>1, <1>2, <3>3, EmptySeq DEF FundInv, Bus, IsList
      <4>2. queue'[1] = queue[1]
        BY <1>6, <2>2, <4>1
      <4>3. QED BY <1>2, <3>3, <4>2 DEF FundInv, AccrualsQueued, IsAccrual
    <3>4. QED BY <1>2, <3>1, <3>2, <3>3 DEF AccrualsQueued, IsAccrual
  <2>7. ASSUME NEW b, OnTheWay(b) PROVE OnTheWay(b)'
    <3>1. PICK j \in DOMAIN queue : IsAccrual(j) /\ queue[j].boundary = b
      BY <2>7 DEF OnTheWay
    <3>2. j \in DOMAIN queue' /\ queue'[j] = queue[j]
      BY <1>5, <1>6, <2>2, <3>1
    <3>3. QED BY <3>1, <3>2 DEF OnTheWay, IsAccrual
  <2>8. ASSUME NEW b \in owed, b > settled PROVE OnTheWay(b)'
    <3>1. b \in (settled + 1)..now /\ IsBoundary(b)
      BY <1>1, <1>9, <2>8
    <3>2. PICK i \in DOMAIN crossed : crossed[i] = b
      BY <1>3, <3>1
    <3>3. Len(queue) + i \in DOMAIN queue' /\ queue'[Len(queue) + i] = accruals[i]
      BY <1>5, <1>6, <2>2, <3>2
    <3>4. accruals[i].k = "funding" /\ accruals[i].boundary = b
      BY <1>5, <3>2
    <3>5. QED BY <3>3, <3>4 DEF OnTheWay, IsAccrual
  <2>9. OwedComes'
    <3>1. ASSUME NEW b \in owed
          PROVE  b \in 1..now /\ IsBoundary(b) /\ (Booked(b)' \/ OnTheWay(b)')
      BY <1>8, <1>9, <2>7, <2>8
    <3>2. QED BY <1>1, <1>2, <2>3, <3>1 DEF OwedComes
  <2>10. QED BY <1>7, <2>5, <2>6, <2>9 DEF FundInv
<1>13. QED BY <1>4, <1>11, <1>12

\* The ledger books the accrual at the head, or has booked it before.
LEMMA OnFundingKeeps ==
    ASSUME FundInv, OnFunding
    PROVE  FundInv'
<1> DEFINE b == queue[1].boundary
<1>1. /\ IsList(queue) /\ queue # <<>> /\ Len(queue) \in Nat \ {0}
      /\ DOMAIN queue = 1..Len(queue) /\ Head(queue) = queue[1] /\ ~dispatched
  BY ListTail, ListFacts DEF FundInv, Bus, OnFunding, Handling
<1>2. IsAccrual(1) /\ 1 \in DOMAIN queue
  BY <1>1 DEF OnFunding, Handling, IsAccrual
<1>3. UNCHANGED <<now, settled, gap, owed, phase, bounds, venue>>
  BY DEF OnFunding, memory
<1>4. /\ b \in 1..now /\ b \notin gap /\ watermark <= b
      /\ phase = "running" => b <= settled
  BY <1>2 DEF FundInv, AccrualsQueued
<1>5. /\ now \in Nat /\ watermark \in 0..now /\ IsList(charged)
  BY DEF FundInv, Clock, ChargedInOrder
<1>6. \/ b > watermark /\ watermark' = b /\ charged' = Append(charged, b)
      \/ b = watermark /\ watermark' = b /\ charged' = charged
  BY <1>1, <1>4, <1>5 DEF OnFunding, AppliesFunding
<1>7. watermark' = b /\ watermark <= b
  BY <1>4, <1>6
<1> HIDE DEF b
<1>8. Clock' /\ TameVenue' /\ SettledPast'
  BY <1>3, <1>4, <1>5, <1>7 DEF FundInv, Clock, TameVenue, SettledPast
<1>9. ChargedInOrder' /\ \A c : Booked(c) \/ c = b => Booked(c)'
  <2>1. CASE b = watermark /\ charged' = charged
    <3>1. Booked(b)
      BY <1>4, <2>1 DEF FundInv, ChargedInOrder
    <3>2. QED BY <1>3, <1>7, <2>1, <3>1 DEF FundInv, ChargedInOrder, Booked
  <2>2. CASE b > watermark /\ charged' = Append(charged, b)
    <3>1. Len(charged) \in Nat /\ DOMAIN charged = 1..Len(charged)
      BY <1>5, ListFacts
    <3>2. /\ IsList(charged') /\ DOMAIN charged' = 1..(Len(charged) + 1)
          /\ \A i \in 1..Len(charged) : charged'[i] = charged[i]
          /\ charged'[Len(charged) + 1] = b
      BY <1>5, <2>2, ListAppend
    <3>3. \A i \in 1..Len(charged) : charged[i] \in 1..watermark /\ charged[i] \notin gap
      BY <3>1 DEF FundInv, ChargedInOrder
    <3>4. ASSUME NEW i \in DOMAIN charged'
          PROVE  i \in 1..Len(charged) \/ i = Len(charged) + 1
      BY <3>1, <3>2
    <3>5. ASSUME NEW i \in DOMAIN charged'
          PROVE  charged'[i] \in 1..b /\ charged'[i] \notin gap
      <4>1. CASE i \in 1..Len(charged)
        BY <1>4, <1>5, <2>2, <3>2, <3>3, <4>1
      <4>2. CASE i = Len(charged) + 1
        BY <1>4, <3>2, <4>2
      <4>3. QED BY <3>4, <4>1, <4>2
    <3>6. ASSUME NEW i \in DOMAIN charged', NEW j \in DOMAIN charged', i < j
          PROVE  charged'[i] < charged'[j]
      <4>1. i \in 1..Len(charged)
        BY <3>1, <3>2, <3>6
      <4>2. CASE j \in 1..Len(charged)
        BY <3>1, <3>2, <3>6, <4>1, <4>2 DEF FundInv, ChargedInOrder
      <4>3. CASE j = Len(charged) + 1
        <5>1. charged'[i] \in 1..watermark /\ charged'[j] = b
          BY <3>2, <3>3, <4>1, <4>3
        <5>2. QED BY <1>4, <1>5, <2>2, <5>1
      <4>4. QED BY <3>4, <4>2, <4>3
    <3>7. \A c : Booked(c) \/ c = b => Booked(c)'
      <4>1. \A i \in DOMAIN charged : i \in DOMAIN charged' /\ charged'[i] = charged[i]
        BY <3>1, <3>2
      <4>2. Len(charged) + 1 \in DOMAIN charged'
        BY <3>1, <3>2
      <4>3. QED BY <3>2, <4>1, <4>2 DEF Booked
    <3>8. QED BY <1>3, <1>7, <3>2, <3>5, <3>6, <3>7 DEF ChargedInOrder
  <2>3. QED BY <1>6, <2>1, <2>2
<1>10. CASE kafka
  <2>1. held' = <<>> /\ dispatched' = TRUE /\ queue' = queue
    BY <1>10 DEF OnFunding, Dispatch
  <2>2. Bus'
    BY <1>1, <2>1, ListEmpty DEF Bus
  <2>3. ASSUME NEW i \in DOMAIN queue, IsAccrual(i) PROVE b <= queue[i].boundary
    <3>1. CASE i = 1
      BY <1>4, <3>1 DEF b
    <3>2. CASE i # 1
      <4>1. 1 < i
        BY <1>1, <3>2
      <4>2. queue[1].boundary < queue[i].boundary
        BY <1>2, <2>3, <4>1 DEF FundInv, AccrualsQueued
      <4>3. queue[i].boundary \in 1..now
        BY <2>3 DEF FundInv, AccrualsQueued
      <4>4. QED BY <1>4, <4>2, <4>3 DEF b
    <3>3. QED BY <3>1, <3>2
  <2>4. b <= b
    BY <1>4
  <2>5. AccrualsQueued'
    BY <1>3, <1>7, <2>1, <2>3, <2>4 DEF FundInv, AccrualsQueued, IsAccrual, b
  <2>6. OwedComes'
    BY <1>3, <1>9, <2>1 DEF FundInv, OwedComes, OnTheWay, IsAccrual
  <2>7. QED BY <1>8, <1>9, <2>2, <2>5, <2>6 DEF FundInv
<1>11. CASE ~kafka
  <2>1. queue' = Tail(queue) \o <<>> /\ held' = held /\ dispatched' = dispatched
    BY <1>11 DEF OnFunding, Dispatch
  <2>2. /\ IsList(Tail(queue) \o <<>>)
        /\ DOMAIN (Tail(queue) \o <<>>) = 1..(Len(queue) - 1 + Len(<<>>))
        /\ \A i \in 1..(Len(queue) - 1) : (Tail(queue) \o <<>>)[i] = queue[i + 1]
    <3> DEFINE nothing == <<>>
    <3>1. IsList(nothing)
      BY ListEmpty
    <3> HIDE DEF nothing
    <3>2. /\ IsList(Tail(queue) \o nothing)
          /\ DOMAIN (Tail(queue) \o nothing) = 1..(Len(queue) - 1 + Len(nothing))
          /\ \A i \in 1..(Len(queue) - 1) : (Tail(queue) \o nothing)[i] = queue[i + 1]
      BY <1>1, <3>1, ListDispatch
    <3>3. QED BY <3>2 DEF nothing
  <2>3. /\ IsList(queue')
        /\ DOMAIN queue' = 1..(Len(queue) - 1 + Len(<<>>))
        /\ \A i \in 1..(Len(queue) - 1) : queue'[i] = queue[i + 1]
    BY <2>1, <2>2, Zenon
  <2>4. held' = held /\ ~dispatched'
    BY <1>1, <2>1
  <2>5. DOMAIN queue' = 1..(Len(queue) - 1)
    BY <1>1, <2>3, ListEmpty
  <2>6. Bus'
    BY <2>3, <2>4 DEF FundInv, Bus
  <2>7. ASSUME NEW i \in DOMAIN queue', queue'[i].k = "funding"
        PROVE  /\ i + 1 \in DOMAIN queue /\ IsAccrual(i + 1) /\ queue'[i] = queue[i + 1]
               /\ 1 < i + 1
    BY <1>1, <2>3, <2>5, <2>7 DEF IsAccrual
  <2>8. ASSUME NEW i \in DOMAIN queue', queue'[i].k = "funding"
        PROVE  /\ queue'[i].boundary \in 1..now /\ queue'[i].boundary \notin gap
               /\ b <= queue'[i].boundary
               /\ phase = "running" => queue'[i].boundary <= settled
    <3>1. b < queue'[i].boundary
      BY <1>2, <2>7, <2>8 DEF FundInv, AccrualsQueued, b
    <3>2. /\ queue'[i].boundary \in 1..now /\ queue'[i].boundary \notin gap
          /\ phase = "running" => queue'[i].boundary <= settled
      BY <2>7, <2>8 DEF FundInv, AccrualsQueued
    <3>3. QED BY <1>4, <3>1, <3>2
  <2>9. ASSUME NEW i \in DOMAIN queue', NEW j \in DOMAIN queue', i < j,
               queue'[i].k = "funding", queue'[j].k = "funding"
        PROVE  queue'[i].boundary < queue'[j].boundary
    <3>1. i + 1 < j + 1
      BY <1>1, <2>5, <2>9
    <3>2. QED BY <2>7, <2>9, <3>1 DEF FundInv, AccrualsQueued
  <2>10. AccrualsQueued'
    BY <1>3, <1>7, <2>4, <2>8, <2>9 DEF AccrualsQueued, IsAccrual
  <2>11. ASSUME NEW c, OnTheWay(c) PROVE c = b \/ OnTheWay(c)'
    <3>1. PICK j \in DOMAIN queue : IsAccrual(j) /\ queue[j].boundary = c
      BY <2>11 DEF OnTheWay
    <3>2. CASE j = 1
      BY <3>1, <3>2 DEF b
    <3>3. CASE j # 1
      <4>1. j - 1 \in DOMAIN queue' /\ queue'[j - 1] = queue[j]
        <5>1. j - 1 \in 1..(Len(queue) - 1) /\ (j - 1) + 1 = j
          BY <1>1, <3>3
        <5>2. QED BY <2>3, <2>5, <5>1
      <4>2. QED BY <3>1, <4>1 DEF OnTheWay, IsAccrual
    <3>4. QED BY <3>2, <3>3
  <2>12. OwedComes'
    <3>1. ASSUME NEW c \in owed
          PROVE  c \in 1..now /\ IsBoundary(c) /\ (c > settled \/ Booked(c)' \/ OnTheWay(c)')
      <4>1. c \in 1..now /\ IsBoundary(c) /\ (c > settled \/ Booked(c) \/ OnTheWay(c))
        BY DEF FundInv, OwedComes
      <4>2. QED BY <1>9, <2>11, <4>1
    <3>2. QED BY <1>3, <3>1 DEF FundInv, OwedComes
  <2>13. QED BY <1>8, <1>9, <2>6, <2>10, <2>12 DEF FundInv
<1>12. QED BY <1>10, <1>11

LEMMA FundInvHolds == Spec => []FundInv
<1>1. FundInv /\ [Next]_vars => FundInv'
  <2> SUFFICES ASSUME FundInv, [Next]_vars PROVE FundInv'
    OBVIOUS
  <2>1. CASE Next
    BY <2>1, HandlersKeep, PublishersKeep, EndsKeep, RestartKeeps, BarrierKeeps,
      AdvanceKeeps, RunFundingKeeps, OnFundingKeeps DEF Next
  <2>2. CASE UNCHANGED vars
    <3>1. UNCHANGED <<bus, now, settled, watermark, charged, gap, owed, phase, bounds, venue>>
      BY <2>2 DEF vars, durable, memory, history
    <3>2. Clock' /\ TameVenue'
      BY <3>1, QuietClock, SameVenue
    <3>3. Quietly
      BY <3>1, SameBus DEF FundInv
    <3>4. QED BY <3>1, <3>2, <3>3, QuietKeeps
  <2>3. QED BY <2>1, <2>2
<1>2. QED BY <1>1, FundInitially, PTL DEF Spec

\* A funding boundary is charged once, in order, whatever is redelivered, and
\* never when it passed while nothing ran; and one that passes with a position
\* held is charged once the log is read and the loop is at rest.
THEOREM FundingIsExactThroughCrashes == Spec => []FundingIsExact
<1>1. FundInv => FundingIsExact
  <2> SUFFICES ASSUME FundInv PROVE FundingIsExact
    OBVIOUS
  <2>1. /\ \A i, j \in DOMAIN charged : i < j => charged[i] < charged[j]
        /\ \A i \in DOMAIN charged : charged[i] \notin gap
    BY DEF FundInv, ChargedInOrder
  <2>2. ToSet(charged) \cap gap = {}
    BY <2>1 DEF ToSet
  <2>3. ASSUME phase = "running", queue = <<>>, settled = now
        PROVE  owed \subseteq ToSet(charged)
    <3>1. ASSUME NEW b \in owed PROVE b \in ToSet(charged)
      <4>1. b \in 1..now /\ (b > settled \/ Booked(b) \/ OnTheWay(b))
        BY DEF FundInv, OwedComes
      <4>2. ~OnTheWay(b)
        BY <2>3, ListEmpty DEF OnTheWay
      <4>3. ~(b > settled)
        BY <2>3, <4>1 DEF FundInv, Clock
      <4>4. QED BY <4>1, <4>2, <4>3 DEF Booked, ToSet
    <3>2. QED BY <3>1
  <2>4. QED BY <2>1, <2>2, <2>3 DEF FundingIsExact
<1>2. QED BY <1>1, FundInvHolds, PTL

-----------------------------------------------------------------------------
\* Finite sets of numbers in their order.

Increases(K, n, at) ==
    at \in [1..n -> K] /\ \A i, j \in 1..n : i < j => at[i] < at[j]

\* Every set of the first numbers has an increasing enumeration.
LEMMA AscendingExists ==
    ASSUME NEW n \in Nat, NEW K, K \subseteq 1..n
    PROVE  \E at : Increases(K, Cardinality(K), at)
<1> DEFINE C == {m \in Nat : \A M \in SUBSET (1..m) : \E at : Increases(M, Cardinality(M), at)}
<1>1. 0 \in C
  <2>1. \A M \in SUBSET (1..0) : M = {}
    OBVIOUS
  <2>2. Cardinality({}) = 0
    BY FS_EmptySet
  <2>3. Increases({}, 0, [i \in 1..0 |-> 0])
    <3>1. 1..0 = {}
      OBVIOUS
    <3>2. QED BY <3>1 DEF Increases
  <2>4. QED BY <2>1, <2>2, <2>3
<1>2. ASSUME NEW m \in Nat, m \in C PROVE m + 1 \in C
  <2>1. ASSUME NEW M \in SUBSET (1..(m + 1)) PROVE \E at : Increases(M, Cardinality(M), at)
    <3> DEFINE L == M \ {m + 1}
               k == Cardinality(L)
    <3>1. L \in SUBSET (1..m)
      OBVIOUS
    <3>2. PICK at : Increases(L, k, at)
      BY <1>2, <3>1
    <3>3. IsFiniteSet(L) /\ k \in Nat
      <4>1. IsFiniteSet(1..m)
        BY FS_Interval
      <4>2. IsFiniteSet(L)
        BY <3>1, <4>1, FS_Subset
      <4>3. QED BY <4>2, FS_CardinalityType
    <3>4. CASE m + 1 \in M
      <4>1. M = L \cup {m + 1}
        BY <3>4
      <4>2. Cardinality(L \cup {m + 1}) = Cardinality(L) + 1
        BY <3>3, FS_AddElement
      <4>3. Cardinality(M) = k + 1
        BY <4>1, <4>2
      <4> DEFINE bt == [i \in 1..(k + 1) |-> IF i = k + 1 THEN m + 1 ELSE at[i]]
      <4> HIDE DEF k
      <4>4. \A i \in 1..k : at[i] \in L /\ at[i] \in 1..m
        BY <3>1, <3>2 DEF Increases
      <4>5. bt \in [1..(k + 1) -> M]
        BY <3>3, <3>4, <4>4
      <4>6. ASSUME NEW i \in 1..(k + 1), NEW j \in 1..(k + 1), i < j PROVE bt[i] < bt[j]
        <5>1. i \in 1..k /\ bt[i] = at[i]
          BY <3>3, <4>6
        <5>2. CASE j = k + 1
          BY <4>4, <5>1, <5>2
        <5>3. CASE j # k + 1
          <6>1. j \in 1..k /\ bt[j] = at[j]
            BY <3>3, <5>3
          <6>2. QED BY <3>2, <4>6, <5>1, <6>1 DEF Increases
        <5>4. QED BY <5>2, <5>3
      <4> HIDE DEF bt
      <4>7. Increases(M, k + 1, bt)
        BY <4>5, <4>6 DEF Increases
      <4>8. QED BY <4>3, <4>7
    <3>5. CASE m + 1 \notin M
      <4>1. L = M
        BY <3>5
      <4>2. QED BY <3>2, <4>1
    <3>6. QED BY <3>4, <3>5
  <2>2. QED BY <2>1
<1>3. n \in C
  <2>1. \A k \in Nat : k \in C => k + 1 \in C
    BY <1>2
  <2> HIDE DEF C
  <2>2. QED BY <1>1, <2>1, ClimbNat
<1>4. QED BY <1>3

LEMMA AscendingIs ==
    ASSUME NEW n \in Nat, NEW K, K \subseteq 1..n
    PROVE  Increases(K, Cardinality(K), Ascending(K))
<1>1. \E at : Increases(K, Cardinality(K), at)
  BY AscendingExists
<1>2. Ascending(K) = CHOOSE at : Increases(K, Cardinality(K), at)
  BY DEF Ascending, Increases
<1>3. QED BY <1>1, <1>2

\* What is left of a list is of the list, in its order.
LEMMA OnlyPicks ==
    ASSUME NEW l, IsList(l), NEW K, K \subseteq DOMAIN l
    PROVE  /\ IsFiniteSet(K) /\ Cardinality(K) \in Nat /\ IsList(Only(l, K))
           /\ DOMAIN Only(l, K) = 1..Cardinality(K)
           /\ \A i \in 1..Cardinality(K) :
                 Ascending(K)[i] \in K /\ Only(l, K)[i] = l[Ascending(K)[i]]
           /\ \A i, j \in 1..Cardinality(K) : i < j => Ascending(K)[i] < Ascending(K)[j]
<1>1. IsFiniteSet(K)
  BY IndicesFinite
<1>2. Cardinality(K) \in Nat
  BY <1>1, FS_CardinalityType
<1>3. IsList(Only(l, K)) /\ DOMAIN Only(l, K) = 1..Cardinality(K)
  BY <1>1, ListOnly
<1>4. Increases(K, Cardinality(K), Ascending(K))
  BY ListFacts, AscendingIs
<1>5. \A i \in 1..Cardinality(K) : Only(l, K)[i] = l[Ascending(K)[i]]
  BY DEF Only
<1>6. QED BY <1>1, <1>2, <1>3, <1>4, <1>5 DEF Increases

-----------------------------------------------------------------------------
\* What the log does to the account net and to the fill counts.

LEMMA LeadsTyped ==
    ASSUME NEW S, NEW l, IsList(l), NEW a, NEW b, Leads(S, l, a, b)
    PROVE  a \in Views /\ b \in Views
  BY ListFacts DEF Leads, Through

LEMMA LeadsNone ==
    ASSUME NEW S, NEW l, IsList(l), \A i \in DOMAIN l : l[i].k # "fill", NEW a \in Views
    PROVE  Leads(S, l, a, a)
<1> DEFINE c == [i \in 0..Len(l) |-> a]
<1>1. Len(l) \in Nat /\ DOMAIN l = 1..Len(l)
  BY ListFacts
<1>2. c \in [0..Len(l) -> Views] /\ c[0] = a /\ c[Len(l)] = a
  BY <1>1
<1>3. \A i \in 1..Len(l) : Moves(S, l[i], c[i - 1], c[i])
  BY <1>1 DEF Moves
<1> HIDE DEF c
<1>4. QED BY <1>2, <1>3 DEF Leads, Through

LEMMA LeadsConcat ==
    ASSUME NEW S, NEW l, NEW m, IsList(l), IsList(m), NEW a, NEW b, NEW d,
           Leads(S, l, a, b), Leads(S, m, b, d)
    PROVE  Leads(S, l \o m, a, d)
<1> DEFINE q == l \o m
           n == Len(l)
<1>0. n \in Nat /\ Len(m) \in Nat
  BY ListFacts
<1>1. /\ Len(q) = n + Len(m) /\ \A i \in 1..n : q[i] = l[i]
      /\ \A i \in 1..Len(m) : q[n + i] = m[i]
  BY ListConcat
<1> HIDE DEF q
<1>2. PICK c : Through(S, l, c) /\ c[0] = a /\ c[n] = b
  BY DEF Leads
<1>3. PICK e : Through(S, m, e) /\ e[0] = b /\ e[Len(m)] = d
  BY DEF Leads
<1> DEFINE f == [i \in 0..(n + Len(m)) |-> IF i <= n THEN c[i] ELSE e[i - n]]
<1>4. ASSUME NEW i \in 0..n PROVE f[i] = c[i] /\ c[i] \in Views
  BY <1>0, <1>2 DEF Through
<1>5. ASSUME NEW i \in 0..Len(m) PROVE f[n + i] = e[i] /\ e[i] \in Views
  <2>1. CASE i = 0
    BY <1>0, <1>2, <1>3, <1>4, <2>1 DEF Through
  <2>2. CASE i # 0
    <3>1. n + i \in 0..(n + Len(m)) /\ ~(n + i <= n) /\ (n + i) - n = i
      BY <1>0, <2>2
    <3>2. QED BY <1>3, <3>1 DEF Through
  <2>3. QED BY <2>1, <2>2
<1>6. \A i \in 0..(n + Len(m)) : i \in 0..n \/ (i - n \in 1..Len(m) /\ n + (i - n) = i)
  BY <1>0
<1>7. f \in [0..(n + Len(m)) -> Views]
  <2>1. \A i \in 0..(n + Len(m)) : f[i] \in Views
    <3> TAKE i \in 0..(n + Len(m))
    <3>1. CASE i \in 0..n
      <4>1. f[i] = c[i] /\ c[i] \in Views
        BY <1>4, <3>1
      <4>2. QED BY <4>1, Zenon
    <3>2. CASE i - n \in 1..Len(m) /\ n + (i - n) = i
      <4>1. i - n \in 0..Len(m)
        BY <1>0, <3>2
      <4>2. f[n + (i - n)] = e[i - n] /\ e[i - n] \in Views
        BY <1>5, <4>1
      <4>3. QED BY <3>2, <4>2, Zenon
    <3>3. QED BY <1>6, <3>1, <3>2
  <2>2. f = [i \in 0..(n + Len(m)) |-> f[i]]
    OBVIOUS
  <2> HIDE DEF f
  <2>3. QED BY <2>1, <2>2
<1>8. f[0] = a /\ f[n + Len(m)] = d
  <2>1. f[0] = c[0]
    BY <1>0, <1>4
  <2>2. f[n + Len(m)] = e[Len(m)]
    BY <1>0, <1>5
  <2>3. QED BY <1>2, <1>3, <2>1, <2>2, Zenon
<1> HIDE DEF f
<1>9. ASSUME NEW i \in 1..(n + Len(m)) PROVE Moves(S, q[i], f[i - 1], f[i])
  <2>1. CASE i \in 1..n
    <3>1. i - 1 \in 0..n /\ i \in 0..n
      BY <1>0, <2>1
    <3>2. q[i] = l[i] /\ f[i - 1] = c[i - 1] /\ f[i] = c[i]
      BY <1>1, <1>4, <2>1, <3>1
    <3>3. Moves(S, l[i], c[i - 1], c[i])
      BY <1>2, <2>1 DEF Through
    <3>4. QED BY <3>2, <3>3, Zenon
  <2>2. CASE ~(i \in 1..n)
    <3> DEFINE j == i - n
    <3>1. j \in 1..Len(m) /\ j - 1 \in 0..Len(m) /\ j \in 0..Len(m) /\ n + j = i
          /\ n + (j - 1) = i - 1
      BY <1>0, <2>2
    <3> HIDE DEF j
    <3>2. q[i] = m[j] /\ f[i - 1] = e[j - 1] /\ f[i] = e[j]
      BY <1>1, <1>5, <3>1
    <3>3. Moves(S, m[j], e[j - 1], e[j])
      BY <1>3, <3>1 DEF Through
    <3>4. QED BY <3>2, <3>3, Zenon
  <2>3. QED BY <2>1, <2>2
<1>10. Through(S, q, f) /\ f[Len(q)] = d
  BY <1>1, <1>7, <1>8, <1>9 DEF Through
<1>11. QED BY <1>8, <1>10 DEF Leads, q

LEMMA LeadsSplit ==
    ASSUME NEW S, NEW l, NEW m, IsList(l), IsList(m), NEW a, NEW d, Leads(S, l \o m, a, d)
    PROVE  \E b : Leads(S, l, a, b) /\ Leads(S, m, b, d)
<1> DEFINE q == l \o m
           n == Len(l)
<1>0. n \in Nat /\ Len(m) \in Nat
  BY ListFacts
<1>1. /\ Len(q) = n + Len(m) /\ \A i \in 1..n : q[i] = l[i]
      /\ \A i \in 1..Len(m) : q[n + i] = m[i]
  BY ListConcat
<1>2. PICK f : Through(S, q, f) /\ f[0] = a /\ f[Len(q)] = d
  BY DEF Leads
<1> HIDE DEF q
<1> DEFINE c == [i \in 0..n |-> f[i]]
           e == [i \in 0..Len(m) |-> f[n + i]]
<1>3. /\ \A i \in 0..(n + Len(m)) : f[i] \in Views
      /\ \A i \in 1..(n + Len(m)) : Moves(S, q[i], f[i - 1], f[i])
  BY <1>1, <1>2 DEF Through
<1>4. c \in [0..n -> Views] /\ e \in [0..Len(m) -> Views]
  BY <1>0, <1>3
<1>5. c[0] = a /\ c[n] = f[n] /\ e[0] = f[n] /\ e[Len(m)] = d
  BY <1>0, <1>1, <1>2
<1>6. ASSUME NEW i \in 1..n PROVE Moves(S, l[i], c[i - 1], c[i])
  <2>1. i \in 1..(n + Len(m)) /\ i - 1 \in 0..n /\ i \in 0..n
    BY <1>0
  <2>2. c[i - 1] = f[i - 1] /\ c[i] = f[i] /\ q[i] = l[i]
    BY <1>1, <2>1
  <2>3. Moves(S, q[i], f[i - 1], f[i])
    BY <1>3, <2>1
  <2>4. QED BY <2>2, <2>3, Zenon
<1>7. ASSUME NEW i \in 1..Len(m) PROVE Moves(S, m[i], e[i - 1], e[i])
  <2>1. n + i \in 1..(n + Len(m)) /\ i - 1 \in 0..Len(m) /\ i \in 0..Len(m)
        /\ n + (i - 1) = (n + i) - 1
    BY <1>0
  <2>2. e[i - 1] = f[(n + i) - 1] /\ e[i] = f[n + i] /\ q[n + i] = m[i]
    BY <1>1, <2>1
  <2>3. Moves(S, q[n + i], f[(n + i) - 1], f[n + i])
    BY <1>3, <2>1
  <2>4. QED BY <2>2, <2>3, Zenon
<1> HIDE DEF c, e
<1>8. Leads(S, l, a, f[n])
  BY <1>4, <1>5, <1>6 DEF Leads, Through
<1>9. Leads(S, m, f[n], d)
  BY <1>4, <1>5, <1>7 DEF Leads, Through
<1>10. QED BY <1>8, <1>9

\* A list is its head before its tail.
LEMMA LeadsTail ==
    ASSUME NEW S, NEW l, IsList(l), l # <<>>, NEW a, NEW d, Leads(S, l, a, d)
    PROVE  \E b : Moves(S, Head(l), a, b) /\ Leads(S, Tail(l), b, d)
<1> DEFINE t == Tail(l)
           n == Len(l) - 1
<1>1. /\ Len(l) \in Nat \ {0} /\ IsList(t) /\ Len(t) = n /\ Head(l) = l[1]
      /\ \A i \in 1..n : t[i] = l[i + 1]
  BY ListTail
<1> HIDE DEF t
<1>2. PICK f : Through(S, l, f) /\ f[0] = a /\ f[Len(l)] = d
  BY DEF Leads
<1>3. /\ \A i \in 0..Len(l) : f[i] \in Views
      /\ \A i \in 1..Len(l) : Moves(S, l[i], f[i - 1], f[i])
  BY <1>2 DEF Through
<1> DEFINE e == [i \in 0..n |-> f[i + 1]]
<1>4. e \in [0..n -> Views] /\ e[0] = f[1] /\ e[n] = d
  BY <1>1, <1>2, <1>3
<1>5. ASSUME NEW i \in 1..n PROVE Moves(S, t[i], e[i - 1], e[i])
  <2>1. i + 1 \in 1..Len(l) /\ i - 1 \in 0..n /\ i \in 0..n /\ (i - 1) + 1 = (i + 1) - 1
    BY <1>1
  <2>2. e[i - 1] = f[(i + 1) - 1] /\ e[i] = f[i + 1] /\ t[i] = l[i + 1]
    BY <1>1, <2>1
  <2>3. Moves(S, l[i + 1], f[(i + 1) - 1], f[i + 1])
    BY <1>3, <2>1
  <2>4. QED BY <2>2, <2>3, Zenon
<1>6. Moves(S, Head(l), a, f[1])
  <2>1. 1 \in 1..Len(l) /\ 1 - 1 = 0
    BY <1>1
  <2>2. Moves(S, l[1], f[1 - 1], f[1])
    BY <1>3, <2>1
  <2>3. QED BY <1>1, <1>2, <2>1, <2>2, Zenon
<1> HIDE DEF e
<1>7. Leads(S, t, f[1], d)
  BY <1>1, <1>4, <1>5 DEF Leads, Through
<1>8. QED BY <1>6, <1>7 DEF t

LEMMA LeadsOne ==
    ASSUME NEW S, NEW m, NEW a \in Views, NEW b \in Views, Moves(S, m, a, b)
    PROVE  IsList(<<m>>) /\ Leads(S, <<m>>, a, b)
<1> DEFINE c == [i \in 0..1 |-> IF i = 0 THEN a ELSE b]
           l == <<m>>
<1>1. Len(l) = 1 /\ l[1] = m /\ IsList(l)
  BY DEF IsList
<1>2. c \in [0..1 -> Views] /\ c[0] = a /\ c[1] = b
  OBVIOUS
<1> HIDE DEF c, l
<1>3. \A i \in 1..1 : i = 1 /\ i - 1 = 0
  OBVIOUS
<1>4. Through(S, l, c)
  BY <1>1, <1>2, <1>3 DEF Through
<1>5. QED BY <1>1, <1>2, <1>4 DEF Leads, l

\* An event more.
LEMMA LeadsAppend ==
    ASSUME NEW S, NEW l, IsList(l), NEW m, NEW a, NEW b, NEW d \in Views,
           Leads(S, l, a, b), Moves(S, m, b, d)
    PROVE  Leads(S, Append(l, m), a, d)
<1>1. b \in Views
  BY LeadsTyped
<1> DEFINE r == <<m>>
<1>2. IsList(r) /\ Leads(S, r, b, d)
  BY <1>1, LeadsOne
<1>3. Append(l, m) = l \o r
  BY DEF IsList
<1> HIDE DEF r
<1>4. Leads(S, l \o r, a, d)
  BY <1>2, LeadsConcat
<1>5. QED BY <1>3, <1>4, Zenon

\* Events that fill nothing may come in between.
LEMMA LeadsInsert ==
    ASSUME NEW S, NEW l, NEW r, NEW m, IsList(l), IsList(r), IsList(m),
           \A i \in DOMAIN r : r[i].k # "fill",
           NEW a, NEW d, Leads(S, l \o m, a, d)
    PROVE  Leads(S, (l \o r) \o m, a, d)
<1>1. PICK b : Leads(S, l, a, b) /\ Leads(S, m, b, d)
  BY LeadsSplit
<1>2. b \in Views
  BY <1>1, LeadsTyped
<1>3. Leads(S, r, b, b)
  BY <1>2, LeadsNone
<1>4. Leads(S, l \o r, a, b)
  BY <1>1, <1>3, LeadsConcat
<1> DEFINE q == l \o r
<1>5. IsList(q)
  BY ListConcat
<1>6. Leads(S, q, a, b)
  BY <1>4
<1> HIDE DEF q
<1>7. Leads(S, q \o m, a, d)
  BY <1>1, <1>5, <1>6, LeadsConcat
<1>8. QED BY <1>7 DEF q

\* What the log does depends on the terms of the orders filled in it.
LEMMA LeadsSame ==
    ASSUME NEW S, NEW T, NEW l, NEW a, NEW b, Leads(S, l, a, b),
           \A o \in Orders : S[o] \in Menu => T[o] = S[o]
    PROVE  Leads(T, l, a, b)
<1>1. PICK c : Through(S, l, c) /\ c[0] = a /\ c[Len(l)] = b
  BY DEF Leads
<1>2. \A m, x, y : Moves(S, m, x, y) => Moves(T, m, x, y)
  BY DEF Moves
<1>3. Through(T, l, c)
  BY <1>1, <1>2 DEF Through
<1>4. QED BY <1>1, <1>3 DEF Leads

-----------------------------------------------------------------------------
\* Sums over a finite set, as the library defines them: one element at a time.

Pick(s) == CHOOSE x \in s : TRUE

\* g sums fun over the subsets of S of at most k elements.
SumsTo(g, fun, S, k) ==
    g = [s \in {t \in SUBSET S : Cardinality(t) <= k} |->
            IF s = {} THEN 0 ELSE fun[Pick(s)] + g[s \ {Pick(s)}]]

Sums(g, fun, S) ==
    g = [s \in SUBSET S |-> IF s = {} THEN 0 ELSE fun[Pick(s)] + g[s \ {Pick(s)}]]

LEMMA SumIs ==
    ASSUME NEW fun, NEW S
    PROVE  SumFunctionOnSet(fun, S) = (CHOOSE g : Sums(g, fun, S))[S]
  BY DEF SumFunctionOnSet, FoldFunctionOnSet, MapThenFoldSet, Sums, Pick

LEMMA PickIs ==
    ASSUME NEW s, IsFiniteSet(s), s # {}
    PROVE  /\ Pick(s) \in s /\ IsFiniteSet(s \ {Pick(s)})
           /\ Cardinality(s) \in Nat \ {0}
           /\ Cardinality(s \ {Pick(s)}) = Cardinality(s) - 1
<1>1. Pick(s) \in s
  BY DEF Pick
<1>2. Cardinality(s) \in Nat /\ Cardinality(s) # 0
  BY FS_CardinalityType, FS_EmptySet
<1>3. QED BY <1>1, <1>2, FS_RemoveElement

LEMMA SumsExist ==
    ASSUME NEW fun, NEW S, IsFiniteSet(S)
    PROVE  \E g : Sums(g, fun, S)
<1> DEFINE C == {k \in Nat : \E g : SumsTo(g, fun, S, k)}
<1>0. \A t \in SUBSET S : IsFiniteSet(t) /\ Cardinality(t) \in Nat
  BY FS_Subset, FS_CardinalityType
<1>1. 0 \in C
  <2> DEFINE g == [s \in {t \in SUBSET S : Cardinality(t) <= 0} |-> 0]
  <2>1. \A s \in {t \in SUBSET S : Cardinality(t) <= 0} : s = {}
    BY <1>0, FS_EmptySet
  <2>2. SumsTo(g, fun, S, 0)
    BY <2>1 DEF SumsTo
  <2>3. QED BY <2>2
<1>2. ASSUME NEW k \in Nat, k \in C PROVE k + 1 \in C
  <2>1. PICK g : SumsTo(g, fun, S, k)
    BY <1>2
  <2> DEFINE D(n) == {t \in SUBSET S : Cardinality(t) <= n}
             val(w, s) == IF s = {} THEN 0 ELSE fun[Pick(s)] + w[s \ {Pick(s)}]
             h == [s \in D(k + 1) |-> IF s \in D(k) THEN g[s] ELSE val(g, s)]
  <2>2. g = [s \in D(k) |-> val(g, s)]
    BY <2>1 DEF SumsTo
  <2>3. \A s \in D(k) : s \in D(k + 1) /\ g[s] = val(g, s) /\ h[s] = g[s]
    <3> TAKE s \in D(k)
    <3>1. Cardinality(s) \in Nat /\ Cardinality(s) <= k /\ s \in SUBSET S
      BY <1>0
    <3>2. s \in D(k + 1)
      BY <3>1
    <3>3. h[s] = g[s]
      BY <3>2
    <3>4. g[s] = val(g, s)
      BY <2>2, Zenon
    <3>5. QED BY <3>2, <3>3, <3>4, Zenon
  <2>4. ASSUME NEW s \in D(k + 1), s # {} PROVE s \ {Pick(s)} \in D(k)
    BY <1>0, <2>4, PickIs
  <2>5. \A s \in D(k + 1) : val(h, s) = val(g, s)
    BY <2>3, <2>4
  <2>6. \A s \in D(k + 1) : h[s] = val(h, s)
    BY <2>3, <2>5
  <2>7. h = [s \in D(k + 1) |-> h[s]]
    OBVIOUS
  <2> HIDE DEF h
  <2>8. h = [s \in D(k + 1) |-> val(h, s)]
    BY <2>6, <2>7
  <2>9. SumsTo(h, fun, S, k + 1)
    BY <2>8 DEF SumsTo
  <2>10. QED BY <2>9
<1>3. Cardinality(S) \in C
  <2>1. \A k \in Nat : k \in C => k + 1 \in C
    BY <1>2
  <2> HIDE DEF C
  <2>2. QED BY <1>0, <1>1, <2>1, ClimbNat
<1>4. PICK g : SumsTo(g, fun, S, Cardinality(S))
  BY <1>3
<1>5. {t \in SUBSET S : Cardinality(t) <= Cardinality(S)} = SUBSET S
  BY FS_Subset
<1>6. Sums(g, fun, S)
  BY <1>4, <1>5 DEF SumsTo, Sums
<1>7. QED BY <1>6

\* Such functions agree on the sets where what they sum agrees.
LEMMA SumsAgree ==
    ASSUME NEW fun, NEW S, IsFiniteSet(S), NEW g, Sums(g, fun, S),
           NEW gun, NEW T, IsFiniteSet(T), NEW h, Sums(h, gun, T),
           NEW s, s \subseteq S, s \subseteq T, \A x \in s : fun[x] = gun[x]
    PROVE  g[s] = h[s]
<1> DEFINE C == {k \in Nat : \A t \in SUBSET s : Cardinality(t) = k => g[t] = h[t]}
<1>0. \A t \in SUBSET s : /\ IsFiniteSet(t) /\ Cardinality(t) \in Nat
                          /\ t \in SUBSET S /\ t \in SUBSET T
  BY FS_Subset, FS_CardinalityType
<1>1. /\ \A t \in SUBSET S : g[t] = IF t = {} THEN 0 ELSE fun[Pick(t)] + g[t \ {Pick(t)}]
      /\ \A t \in SUBSET T : h[t] = IF t = {} THEN 0 ELSE gun[Pick(t)] + h[t \ {Pick(t)}]
  BY DEF Sums
<1>2. 0 \in C
  <2>1. \A t \in SUBSET s : Cardinality(t) = 0 => t = {}
    BY <1>0, FS_EmptySet
  <2>2. QED BY <1>0, <1>1, <2>1
<1>3. ASSUME NEW k \in Nat, k \in C PROVE k + 1 \in C
  <2>1. ASSUME NEW t \in SUBSET s, Cardinality(t) = k + 1 PROVE g[t] = h[t]
    <3>1. t # {} /\ IsFiniteSet(t)
      BY <1>0, <2>1, FS_EmptySet
    <3>2. Pick(t) \in t /\ Cardinality(t \ {Pick(t)}) = k
      <4>1. Pick(t) \in t /\ Cardinality(t \ {Pick(t)}) = Cardinality(t) - 1
        BY <3>1, PickIs
      <4>2. (k + 1) - 1 = k
        OBVIOUS
      <4>3. QED BY <2>1, <4>1, <4>2, Zenon
    <3>3. t \ {Pick(t)} \in SUBSET s /\ fun[Pick(t)] = gun[Pick(t)]
      BY <3>2
    <3>4. g[t \ {Pick(t)}] = h[t \ {Pick(t)}]
      BY <1>3, <3>2, <3>3
    <3>5. /\ g[t] = fun[Pick(t)] + g[t \ {Pick(t)}]
          /\ h[t] = gun[Pick(t)] + h[t \ {Pick(t)}]
      BY <1>0, <1>1, <3>1
    <3>6. QED BY <3>3, <3>4, <3>5
  <2>2. QED BY <2>1
<1>4. Cardinality(s) \in C
  <2>1. \A k \in Nat : k \in C => k + 1 \in C
    BY <1>3
  <2>2. Cardinality(s) \in Nat
    BY <1>0
  <2> HIDE DEF C
  <2>3. QED BY <1>2, <2>1, <2>2, ClimbNat
<1>5. QED BY <1>4

\* A sum takes the elements one after another.
LEMMA SumUnfolds ==
    ASSUME NEW fun, NEW S, IsFiniteSet(S)
    PROVE  SumFunctionOnSet(fun, S) =
              IF S = {} THEN 0
              ELSE fun[Pick(S)] + SumFunctionOnSet(fun, S \ {Pick(S)})
<1> DEFINE g == CHOOSE g : Sums(g, fun, S)
           T == S \ {Pick(S)}
           h == CHOOSE h : Sums(h, fun, T)
<1>1. IsFiniteSet(T)
  BY FS_RemoveElement
<1>2. Sums(g, fun, S) /\ Sums(h, fun, T)
  BY <1>1, SumsExist
<1>3. SumFunctionOnSet(fun, S) = g[S] /\ SumFunctionOnSet(fun, T) = h[T]
  BY SumIs
<1>4. g[S] = IF S = {} THEN 0 ELSE fun[Pick(S)] + g[T]
  BY <1>2 DEF Sums
<1> HIDE DEF g, h
<1>5. g[T] = h[T]
  BY <1>1, <1>2, SumsAgree
<1>6. QED BY <1>3, <1>4, <1>5

\* It depends on nothing but what it sums.
LEMMA SumSame ==
    ASSUME NEW fun, NEW gun, NEW S, IsFiniteSet(S), \A x \in S : fun[x] = gun[x]
    PROVE  SumFunctionOnSet(fun, S) = SumFunctionOnSet(gun, S)
<1> DEFINE g == CHOOSE g : Sums(g, fun, S)
           h == CHOOSE h : Sums(h, gun, S)
<1>1. Sums(g, fun, S) /\ Sums(h, gun, S)
  BY SumsExist
<1>2. SumFunctionOnSet(fun, S) = g[S] /\ SumFunctionOnSet(gun, S) = h[S]
  BY SumIs
<1> HIDE DEF g, h
<1>3. QED BY <1>1, <1>2, SumsAgree

\* The sum of integers is one.
LEMMA SumInt ==
    ASSUME NEW fun, NEW S, IsFiniteSet(S), \A x \in S : fun[x] \in Int
    PROVE  \A t \in SUBSET S : SumFunctionOnSet(fun, t) \in Int
<1> DEFINE Amount(t) == SumFunctionOnSet(fun, t)
           C == {k \in Nat : \A t \in SUBSET S : Cardinality(t) = k => Amount(t) \in Int}
<1>0. \A t \in SUBSET S : IsFiniteSet(t) /\ Cardinality(t) \in Nat
  BY FS_Subset, FS_CardinalityType
<1>1. ASSUME NEW t \in SUBSET S
      PROVE  Amount(t) = IF t = {} THEN 0 ELSE fun[Pick(t)] + Amount(t \ {Pick(t)})
  BY <1>0, SumUnfolds
<1> HIDE DEF Amount
<1>2. 0 \in C
  <2>1. ASSUME NEW t \in SUBSET S, Cardinality(t) = 0 PROVE Amount(t) \in Int
    <3>1. t = {}
      BY <1>0, <2>1, FS_EmptySet
    <3>2. Amount(t) = 0
      BY <1>1, <3>1
    <3>3. QED BY <3>2
  <2>2. QED BY <2>1
<1>3. ASSUME NEW k \in Nat, k \in C PROVE k + 1 \in C
  <2>1. ASSUME NEW t \in SUBSET S, Cardinality(t) = k + 1 PROVE Amount(t) \in Int
    <3>1. t # {} /\ IsFiniteSet(t)
      BY <1>0, <2>1, FS_EmptySet
    <3>2. Pick(t) \in t /\ Cardinality(t \ {Pick(t)}) = Cardinality(t) - 1
      BY <3>1, PickIs
    <3>3. Cardinality(t \ {Pick(t)}) = k
      <4>1. (k + 1) - 1 = k
        OBVIOUS
      <4>2. QED BY <2>1, <3>2, <4>1, Zenon
    <3>4. Amount(t \ {Pick(t)}) \in Int
      <4>1. t \ {Pick(t)} \in SUBSET S
        OBVIOUS
      <4>2. QED BY <1>3, <3>3, <4>1
    <3>5. fun[Pick(t)] \in Int
      BY <3>2
    <3>6. Amount(t) = fun[Pick(t)] + Amount(t \ {Pick(t)})
      BY <1>1, <3>1
    <3>7. QED BY <3>4, <3>5, <3>6
  <2>2. QED BY <2>1
<1>4. ASSUME NEW t \in SUBSET S PROVE Amount(t) \in Int
  <2>1. \A k \in Nat : k \in C => k + 1 \in C
    BY <1>3
  <2>2. Cardinality(t) \in Nat
    BY <1>0
  <2>3. Cardinality(t) \in C
    <3> HIDE DEF C
    <3>1. QED BY <1>2, <2>1, <2>2, ClimbNat
  <2>4. QED BY <2>3
<1>5. QED BY <1>4 DEF Amount

\* Any element can be taken out of it.
LEMMA SumSplits ==
    ASSUME NEW fun, NEW S, IsFiniteSet(S), \A x \in S : fun[x] \in Int
    PROVE  \A x \in S :
              SumFunctionOnSet(fun, S) = fun[x] + SumFunctionOnSet(fun, S \ {x})
<1> DEFINE Amount(t) == SumFunctionOnSet(fun, t)
           Good(t) == \A x \in t : Amount(t) = fun[x] + Amount(t \ {x})
           C == {k \in Nat : \A t \in SUBSET S : Cardinality(t) = k => Good(t)}
<1>0. \A t \in SUBSET S : IsFiniteSet(t) /\ Cardinality(t) \in Nat
  BY FS_Subset, FS_CardinalityType
<1>1. ASSUME NEW t \in SUBSET S
      PROVE  Amount(t) = IF t = {} THEN 0 ELSE fun[Pick(t)] + Amount(t \ {Pick(t)})
  BY <1>0, SumUnfolds
<1>i. \A t \in SUBSET S : Amount(t) \in Int
  BY SumInt
<1> HIDE DEF Amount
<1>2. 0 \in C
  <2>1. ASSUME NEW t \in SUBSET S, Cardinality(t) = 0 PROVE Good(t)
    <3>1. t = {}
      BY <1>0, <2>1, FS_EmptySet
    <3>2. QED BY <3>1
  <2>2. QED BY <2>1
<1>3. ASSUME NEW k \in Nat, k \in C PROVE k + 1 \in C
  <2>1. ASSUME NEW t \in SUBSET S, Cardinality(t) = k + 1 PROVE Good(t)
    <3> DEFINE p == Pick(t)
    <3>1. t # {} /\ IsFiniteSet(t)
      BY <1>0, <2>1, FS_EmptySet
    <3>2. p \in t
      BY <3>1, PickIs
    <3>3. ASSUME NEW x \in t PROVE Good(t \ {x})
      <4>1. Cardinality(t \ {x}) = Cardinality(t) - 1
        BY <3>1, FS_RemoveElement
      <4>2. (k + 1) - 1 = k
        OBVIOUS
      <4>3. Cardinality(t \ {x}) = k
        BY <2>1, <4>1, <4>2, Zenon
      <4>4. t \ {x} \in SUBSET S
        OBVIOUS
      <4>5. QED BY <1>3, <4>3, <4>4
    <3>5. Amount(t) = fun[p] + Amount(t \ {p})
      BY <1>1, <3>1
    <3> HIDE DEF p
    <3>8. ASSUME NEW x \in t, x # p PROVE Amount(t) = fun[x] + Amount(t \ {x})
      <4> DEFINE u == (t \ {p}) \ {x}
      <4>1. u = (t \ {x}) \ {p} /\ x \in t \ {p} /\ p \in t \ {x} /\ u \in SUBSET S
        BY <3>2, <3>8
      <4> HIDE DEF u
      <4>2. Amount(t \ {p}) = fun[x] + Amount(u)
        <5>1. Good(t \ {p})
          BY <3>2, <3>3
        <5>2. QED BY <4>1, <5>1 DEF u
      <4>3. Amount(t \ {x}) = fun[p] + Amount(u)
        <5>1. Good(t \ {x})
          BY <3>3
        <5>2. QED BY <4>1, <5>1
      <4>4. fun[x] \in Int /\ fun[p] \in Int
        BY <3>2
      <4>5. Amount(u) \in Int
        BY <1>i, <4>1
      <4>6. QED BY <3>5, <4>2, <4>3, <4>4, <4>5
    <3>9. QED BY <3>5, <3>8
  <2>2. QED BY <2>1
<1>4. Cardinality(S) \in C
  <2>1. \A k \in Nat : k \in C => k + 1 \in C
    BY <1>3
  <2>2. Cardinality(S) \in Nat
    BY <1>0
  <2> HIDE DEF C
  <2>3. QED BY <1>2, <2>1, <2>2, ClimbNat
<1>5. Good(S)
  BY <1>4
<1>6. QED BY <1>5 DEF Amount

LEMMA TotalIs ==
    ASSUME NEW U, IsFiniteSet(U), \A f \in U : f.size \in Int
    PROVE  Total(U) \in Int
<1> DEFINE fun == [f \in U |-> f.size]
<1>1. DOMAIN fun = U /\ \A x \in U : fun[x] \in Int
  OBVIOUS
<1>2. Total(U) = SumFunctionOnSet(fun, U)
  BY <1>1 DEF Total, SumFunction
<1> HIDE DEF fun
<1>3. SumFunctionOnSet(fun, U) \in Int
  BY <1>1, SumInt
<1>4. QED BY <1>2, <1>3

LEMMA TotalAdd ==
    ASSUME NEW U, IsFiniteSet(U), \A f \in U : f.size \in Int,
           NEW g, g \notin U, g.size \in Int
    PROVE  Total(U \cup {g}) = Total(U) + g.size
<1> DEFINE V == U \cup {g}
           fun == [f \in U |-> f.size]
           gun == [f \in V |-> f.size]
<1>1. /\ IsFiniteSet(V) /\ V \ {g} = U /\ g \in V
      /\ \A x \in V : gun[x] \in Int
      /\ \A x \in U : gun[x] = fun[x]
      /\ gun[g] = g.size
  BY FS_AddElement
<1>2. Total(U) = SumFunctionOnSet(fun, U) /\ Total(V) = SumFunctionOnSet(gun, V)
  BY DEF Total, SumFunction
<1> HIDE DEF fun, gun, V
<1>3. SumFunctionOnSet(gun, V) = gun[g] + SumFunctionOnSet(gun, V \ {g})
  BY <1>1, SumSplits
<1>4. SumFunctionOnSet(gun, U) = SumFunctionOnSet(fun, U)
  BY <1>1, SumSame
<1>5. Total(U) \in Int
  BY TotalIs
<1>6. Total(V) = g.size + Total(U)
  BY <1>1, <1>2, <1>3, <1>4, Zenon
<1>7. g.size + Total(U) = Total(U) + g.size
  BY <1>5
<1>8. QED BY <1>6, <1>7, Zenon DEF V

-----------------------------------------------------------------------------
\* The venue as a reduce-only order needs it.

LEMMA NetIs ==
    ASSUME NEW v
    PROVE  Net(v) = StoreNet + Total(Unapplied(v))
  BY DEF Net, Total

LEMMA UnappliedIs ==
    ASSUME NEW v, CountsFills(v)
    PROVE  /\ IsFiniteSet(Unapplied(v)) /\ Unapplied(v) \subseteq v.unapplied
           /\ \A f \in Unapplied(v) : f.size \in Int
<1>1. Unapplied(v) \subseteq v.unapplied
  BY DEF Unapplied
<1>2. IsFiniteSet(Unapplied(v))
  BY <1>1, FS_Subset DEF CountsFills
<1>3. QED BY <1>1, <1>2 DEF CountsFills, Records

LEMMA NetInt ==
    ASSUME Solid, NEW v, CountsFills(v)
    PROVE  Net(v) \in Int /\ StoreNet \in Int /\ View(v) \in Views
<1>1. Total(Unapplied(v)) \in Int
  BY UnappliedIs, TotalIs
<1>2. StoreNet \in Int
  BY DEF Solid, StoreNet
<1>3. Net(v) \in Int
  BY <1>1, <1>2, NetIs
<1>4. QED BY <1>2, <1>3 DEF View, Views, CountsFills

LEMMA SameNet ==
    ASSUME NEW v, NEW w, w.unapplied = v.unapplied
    PROVE  Net(w) = Net(v)
  BY DEF Net, Unapplied

LEMMA AbsIs ==
    ASSUME NEW n \in Int
    PROVE  Abs(n) \in Nat /\ (n > 0 => Abs(n) = n) /\ (n < 0 => Abs(n) = -n)
           /\ (n = 0 => Abs(n) = 0)
  BY DEF Abs

LEMMA MinOf ==
    ASSUME NEW m \in Int, NEW n \in Int
    PROVE  Min({m, n}) = IF m <= n THEN m ELSE n
<1> DEFINE P(x) == x \in {m, n} /\ \A y \in {m, n} : x <= y
           least == IF m <= n THEN m ELSE n
<1>1. P(least)
  OBVIOUS
<1>2. \A x : P(x) => x = least
  OBVIOUS
<1>3. Min({m, n}) = CHOOSE x \in {m, n} : \A y \in {m, n} : x <= y
  BY DEF Min
<1>4. QED BY <1>1, <1>2, <1>3

\* An order to buy or to sell.
LEMMA TermsAre ==
    ASSUME NEW o, signals[o] \in Menu
    PROVE  /\ signals[o].side \in {"buy", "sell"} /\ signals[o].raw \in Nat
           /\ signals[o].reduceOnly \in BOOLEAN
           /\ Direction(Side(o)) \in {1, -1}
           /\ (Direction(Side(o)) = 1 <=> Side(o) # "sell")
  BY PaperAssumption DEF Direction, Side

\* What a fill of part of the net it reduces does to the net.
LEMMA PartShrinks ==
    ASSUME Solid, NEW v, CountsFills(v), NEW o, signals[o] \in Menu, ReducesNet(v, o),
           NEW size \in Nat \ {0}, size <= Abs(Net(v))
    PROVE  Shrinks(Net(v), Net(v) + Direction(Side(o)) * size)
<1> DEFINE n == Net(v)
           d == Direction(Side(o))
<1>0. SUFFICES Shrinks(n, n + d * size)
  OBVIOUS
<1>1. n \in Int
  BY NetInt
<1>2. \/ d = -1 /\ n > 0
      \/ d = 1 /\ n < 0
  BY TermsAre DEF ReducesNet, Direction, Side
<1>3. size <= Abs(n)
  OBVIOUS
<1> HIDE DEF n, d
<1>4. CASE d = -1 /\ n > 0
  <2>1. n + d * size = n - size /\ n - size >= 0 /\ n - size < n
    BY <1>1, <1>3, <1>4 DEF Abs
  <2> DEFINE r == n + d * size
  <2>2. r \in Int /\ r >= 0 /\ r < n
    BY <1>1, <2>1
  <2> HIDE DEF r
  <2>3. Shrinks(n, r)
    BY <1>1, <1>4, <2>2 DEF Shrinks, Abs
  <2>4. QED BY <2>3 DEF r
<1>5. CASE d = 1 /\ n < 0
  <2>1. n + d * size = n + size /\ n + size <= 0 /\ n + size > n
    BY <1>1, <1>3, <1>5 DEF Abs
  <2> DEFINE r == n + d * size
  <2>2. r \in Int /\ r <= 0 /\ r > n
    BY <1>1, <2>1
  <2> HIDE DEF r
  <2>3. Shrinks(n, r)
    BY <1>1, <1>5, <2>2 DEF Shrinks, Abs
  <2>4. QED BY <2>3 DEF r
<1>7. QED BY <1>2, <1>4, <1>5

\* A status moves nothing.
LEMMA SayMoves ==
    ASSUME Solid, NEW v, Known(v), NEW o, NEW st
    PROVE  /\ Known(Say(v, o, st)) /\ BookOf(Say(v, o, st)) = BookOf(v)
           /\ Net(Say(v, o, st)) = Net(v)
           /\ Fits(v) => Fits(Say(v, o, st))
           /\ \A s : Tells(v, s) => Tells(Say(v, o, st), s)
           /\ v.unapplied \subseteq Say(v, o, st).unapplied
<1> DEFINE w == Say(v, o, st)
           m == StatusReport(o, st)
<1>1. Tame(w)
  BY SayTame DEF Known
<1>2. /\ w.book = v.book /\ w.count = v.count /\ w.unapplied = v.unapplied
      /\ w.out = Append(v.out, m)
  BY DEF Say, Known, Tame
<1> HIDE DEF w
<1>3. Known(w) /\ BookOf(w) = BookOf(v)
  BY <1>1, <1>2 DEF Known, CountsFills, WorksOnce, BookOf
<1>4. Net(w) = Net(v)
  BY <1>2, SameNet
<1>5. Fits(v) => Fits(w)
  BY <1>2, <1>4 DEF Fits, ReducesNet
<1>6. ASSUME NEW s, Tells(v, s) PROVE Tells(w, s)
  <2>1. View(w) = View(v) /\ View(v) \in Views
    BY <1>2, <1>4, NetInt DEF View, Known
  <2>2. m.k # "fill"
    BY DEF StatusReport
  <2> HIDE DEF m
  <2>3. Moves(signals, m, View(v), View(v))
    BY <2>2 DEF Moves
  <2>4. IsList(v.out)
    BY DEF Known, Tame, Reports
  <2>5. Leads(signals, Append(v.out, m), s, View(v))
    BY <1>6, <2>1, <2>3, <2>4, LeadsAppend DEF Tells
  <2>6. Leads(signals, w.out, s, View(w))
    BY <1>2, <2>1, <2>5, Zenon
  <2>7. ASSUME NEW i \in DOMAIN w.out, w.out[i].k = "fill"
        PROVE  Record(signals, w.out[i]) \in w.unapplied
    <3>1. /\ Len(v.out) \in Nat /\ DOMAIN v.out = 1..Len(v.out)
          /\ DOMAIN Append(v.out, m) = 1..(Len(v.out) + 1)
          /\ \A j \in 1..Len(v.out) : Append(v.out, m)[j] = v.out[j]
          /\ Append(v.out, m)[Len(v.out) + 1] = m
      BY <2>4, ListFacts, ListAppend
    <3>2. /\ DOMAIN w.out = 1..(Len(v.out) + 1)
          /\ \A j \in 1..Len(v.out) : w.out[j] = v.out[j]
          /\ w.out[Len(v.out) + 1] = m
      BY <1>2, <3>1, Zenon
    <3>3. i \in 1..Len(v.out)
      BY <2>2, <2>7, <3>1, <3>2
    <3>4. w.out[i] = v.out[i] /\ i \in DOMAIN v.out
      BY <3>1, <3>2, <3>3
    <3>5. Record(signals, v.out[i]) \in v.unapplied
      BY <1>6, <2>7, <3>4 DEF Tells
    <3>6. QED BY <1>2, <3>4, <3>5
  <2>8. QED BY <2>6, <2>7 DEF Tells
<1>7. QED BY <1>2, <1>3, <1>4, <1>5, <1>6 DEF w

LEMMA ThinMoves ==
    ASSUME NEW v, Known(v), NEW w, Tame(w), w.count = v.count, w.unapplied = v.unapplied,
           NEW h, Thins(v, w, h)
    PROVE  Known(w) /\ BookOf(w) \subseteq BookOf(v) /\ Net(w) = Net(v)
<1>1. CountsFills(w)
  BY DEF Known, CountsFills
<1>2. WorksOnce(w)
  <2>1. \A i \in DOMAIN w.book : /\ w.book[i] \in Entries /\ signals[w.book[i].o] \in Menu
                                 /\ w.book[i].filled < w.book[i].working
    BY DEF Known, WorksOnce, Thins
  <2>2. ASSUME NEW i \in DOMAIN w.book, NEW j \in DOMAIN w.book, w.book[i].o = w.book[j].o
        PROVE  i = j
    BY <2>2 DEF Known, WorksOnce, Thins
  <2>3. QED BY <2>1, <2>2 DEF WorksOnce
<1>3. BookOf(w) \subseteq BookOf(v)
  BY DEF BookOf, Thins
<1>4. QED BY <1>1, <1>2, <1>3, SameNet DEF Known

LEMMA SameTells ==
    ASSUME NEW v, NEW w, NEW s, Tells(v, s), w.count = v.count, w.unapplied = v.unapplied,
           w.out = v.out, Net(w) = Net(v)
    PROVE  Tells(w, s)
  BY DEF Tells, View

LEMMA TakeOffMoves ==
    ASSUME NEW v, Known(v), NEW o
    PROVE  /\ Known(TakeOff(v, o)) /\ BookOf(TakeOff(v, o)) \subseteq BookOf(v)
           /\ Net(TakeOff(v, o)) = Net(v) /\ TakeOff(v, o).count = v.count
           /\ Fits(v) => Fits(TakeOff(v, o))
           /\ \A s : Tells(v, s) => Tells(TakeOff(v, o), s)
           /\ v.unapplied \subseteq TakeOff(v, o).unapplied
<1> DEFINE w == TakeOff(v, o)
           K == {i \in DOMAIN v.book : v.book[i].o # o}
           h == Ascending(K)
<1>1. Tame(w)
  BY TakeOffTame DEF Known
<1>2. /\ w.book = Only(v.book, K) /\ w.count = v.count /\ w.unapplied = v.unapplied
      /\ w.out = v.out
  BY DEF TakeOff, Known, Tame
<1>3. IsList(v.book) /\ K \subseteq DOMAIN v.book
  BY DEF Known, Tame
<1> HIDE DEF K
<1>4. /\ Cardinality(K) \in Nat /\ DOMAIN Only(v.book, K) = 1..Cardinality(K)
      /\ \A i \in 1..Cardinality(K) : h[i] \in K /\ Only(v.book, K)[i] = v.book[h[i]]
      /\ \A i, j \in 1..Cardinality(K) : i < j => h[i] < h[j]
  BY <1>3, OnlyPicks
<1> HIDE DEF w, h
<1>5. /\ DOMAIN w.book = 1..Cardinality(K)
      /\ \A i \in DOMAIN w.book : h[i] \in DOMAIN v.book /\ w.book[i] = v.book[h[i]]
  BY <1>2, <1>3, <1>4
<1>6. Thins(v, w, h)
  <2>1. \A i, j \in DOMAIN w.book : h[i] = h[j] => i = j
    <3>0. DOMAIN v.book \subseteq Nat
      BY <1>3, ListFacts
    <3>1. SUFFICES ASSUME NEW i \in DOMAIN w.book, NEW j \in DOMAIN w.book, h[i] = h[j], i # j
                   PROVE  FALSE
      OBVIOUS
    <3>2. i < j \/ j < i
      BY <1>4, <1>5, <3>1
    <3>3. h[i] < h[j] \/ h[j] < h[i]
      BY <1>4, <1>5, <3>2
    <3>4. h[i] \in Nat /\ h[j] \in Nat
      BY <1>5, <3>0
    <3>5. QED BY <3>1, <3>3, <3>4
  <2>2. QED BY <1>5, <2>1 DEF Thins, Known, WorksOnce
<1>7. Known(w) /\ BookOf(w) \subseteq BookOf(v) /\ Net(w) = Net(v)
  BY <1>1, <1>2, <1>6, ThinMoves
<1>8. Fits(v) => Fits(w)
  BY <1>5, <1>7 DEF Fits, ReducesNet
<1>9. \A s : Tells(v, s) => Tells(w, s)
  BY <1>2, <1>7, SameTells
<1>10. QED BY <1>2, <1>7, <1>8, <1>9 DEF w

\* The entry of a resting order.
LEMMA EntryIs ==
    ASSUME NEW v, Known(v), NEW o, o \in BookOf(v)
    PROVE  \E i \in DOMAIN v.book : v.book[i].o = o /\ Entry(v, o) = v.book[i]
<1>1. Resting(v, o) # {}
  BY DEF BookOf, Resting
<1>2. (CHOOSE i \in Resting(v, o) : TRUE) \in Resting(v, o)
  BY <1>1
<1>3. QED BY <1>2 DEF Entry, Resting

\* A fill of no more than an order works leaves a book.
LEMMA BookFillMoves ==
    ASSUME NEW v, Known(v), NEW o, o \in BookOf(v), NEW size \in Nat \ {0},
           size <= Entry(v, o).working - Entry(v, o).filled
    PROVE  /\ Known(BookFill(v, o, size)) /\ BookOf(BookFill(v, o, size)) \subseteq BookOf(v)
           /\ Net(BookFill(v, o, size)) = Net(v) /\ BookFill(v, o, size).count = v.count
           /\ \A s : Tells(v, s) => Tells(BookFill(v, o, size), s)
           /\ v.unapplied \subseteq BookFill(v, o, size).unapplied
<1> DEFINE e == Entry(v, o)
           filled == e.filled + Min({size, e.working - e.filled})
           book == [i \in DOMAIN v.book |->
               IF v.book[i].o = o THEN [v.book[i] EXCEPT !.filled = filled] ELSE v.book[i]]
           w == [v EXCEPT !.book = book]
<1>1. e \in Entries /\ \A i \in DOMAIN v.book : v.book[i].o = o => v.book[i] = e
  BY EntryIs DEF Known, WorksOnce
<1>2. BookFill(v, o, size) = IF filled >= e.working THEN TakeOff(v, o) ELSE w
  BY DEF BookFill
<1>3. CASE ~(filled >= e.working)
  <2>1. BookFill(v, o, size) = w
    BY <1>2, <1>3, Zenon
  <2>2. Tame(BookFill(v, o, size))
    BY BookFillTame DEF Known
  <2>3. filled \in Nat /\ filled < e.working
    <3>1. e.filled \in Nat /\ e.working \in Nat /\ size <= e.working - e.filled
      BY <1>1 DEF Entries
    <3> HIDE DEF e
    <3>2. Min({size, e.working - e.filled}) = size
      BY <3>1, MinOf
    <3>3. QED BY <1>3, <3>1, <3>2
  <2> HIDE DEF filled, e
  <2>4. w.book = book /\ w.count = v.count /\ w.unapplied = v.unapplied /\ w.out = v.out
    BY DEF Known, Tame
  <2>5. ASSUME NEW i \in DOMAIN v.book
        PROVE  book[i].o = v.book[i].o /\ book[i] \in Entries /\ book[i].filled < book[i].working
    <3>1. v.book[i] \in Entries /\ v.book[i].filled < v.book[i].working
      BY DEF Known, WorksOnce
    <3>2. CASE v.book[i].o = o
      BY <1>1, <2>3, <3>1, <3>2 DEF Entries
    <3>3. CASE v.book[i].o # o
      BY <3>1, <3>3
    <3>4. QED BY <3>2, <3>3
  <2>6. Thins(v, w, [i \in DOMAIN v.book |-> i])
    BY <2>4, <2>5 DEF Thins
  <2> HIDE DEF w, book
  <2>7. Known(w) /\ BookOf(w) \subseteq BookOf(v) /\ Net(w) = Net(v)
    BY <2>1, <2>2, <2>4, <2>6, ThinMoves
  <2>8. \A s : Tells(v, s) => Tells(w, s)
    BY <2>4, <2>7, SameTells
  <2>9. QED BY <2>1, <2>4, <2>7, <2>8
<1>4. CASE filled >= e.working
  <2>1. BookFill(v, o, size) = TakeOff(v, o)
    BY <1>2, <1>4, Zenon
  <2>2. QED BY <2>1, TakeOffMoves
<1>5. QED BY <1>3, <1>4

\* What an order starts to work at.
LEMMA WorkingIs ==
    ASSUME Solid, NEW v, CountsFills(v), NEW o, signals[o] \in Menu, NEW size \in Nat \ {0},
           signals[o].reduceOnly => ReducesNet(v, o)
    PROVE  /\ WorkingSize(v, o, size) \in 1..size
           /\ signals[o].reduceOnly => WorkingSize(v, o, size) <= Abs(Net(v))
<1>1. Net(v) \in Int
  BY NetInt
<1>2. CASE signals[o].reduceOnly
  <2>1. Net(v) # 0
    BY <1>1, <1>2 DEF ReducesNet
  <2>2. Abs(Net(v)) \in Nat \ {0}
    BY <1>1, <2>1 DEF Abs
  <2>3. Min({size, Abs(Net(v))}) = IF size <= Abs(Net(v)) THEN size ELSE Abs(Net(v))
    BY <2>2, MinOf
  <2>4. WorkingSize(v, o, size) = Min({size, Abs(Net(v))})
    BY <1>2 DEF WorkingSize
  <2> DEFINE a == Abs(Net(v))
  <2> HIDE DEF a
  <2>5. (IF size <= a THEN size ELSE a) \in 1..size /\ (IF size <= a THEN size ELSE a) <= a
    BY <2>2 DEF a
  <2>6. QED BY <2>3, <2>4, <2>5 DEF a
<1>3. CASE ~signals[o].reduceOnly
  <2>1. WorkingSize(v, o, size) = size
    BY <1>3 DEF WorkingSize
  <2>2. QED BY <1>3, <2>1
<1>4. QED BY <1>2, <1>3

LEMMA RestMoves ==
    ASSUME Solid, NEW v, Known(v), NEW o \in Orders, o \notin BookOf(v), signals[o] \in Menu,
           NEW size \in Nat \ {0}, signals[o].reduceOnly => ReducesNet(v, o)
    PROVE  /\ Known(Rest(v, o, size)) /\ BookOf(Rest(v, o, size)) = BookOf(v) \cup {o}
           /\ Net(Rest(v, o, size)) = Net(v)
           /\ Fits(v) => Fits(Rest(v, o, size))
           /\ \A s : Tells(v, s) => Tells(Rest(v, o, size), s)
           /\ v.unapplied \subseteq Rest(v, o, size).unapplied
<1> DEFINE w == Rest(v, o, size)
           working == WorkingSize(v, o, size)
           e == [o |-> o, asked |-> size, filled |-> 0, working |-> working]
           n == Len(v.book)
<1>0. working \in 1..size /\ (signals[o].reduceOnly => working <= Abs(Net(v)))
  BY WorkingIs DEF Known
<1>1. Tame(w)
  BY RestTame DEF Known
<1>2. /\ w.book = Append(v.book, e) /\ w.count = v.count /\ w.unapplied = v.unapplied
      /\ w.out = v.out
  BY DEF Rest, Known, Tame
<1> HIDE DEF working
<1>3. e \in Entries /\ e.o = o /\ e.filled < e.working /\ e.working - e.filled = working
  BY <1>0 DEF Entries
<1> HIDE DEF w, e
<1>4. n \in Nat /\ DOMAIN v.book = 1..n
  BY ListFacts DEF Known, Tame
<1>5. /\ DOMAIN w.book = 1..(n + 1) /\ \A i \in 1..n : w.book[i] = v.book[i]
      /\ w.book[n + 1] = e
  <2>1. /\ DOMAIN Append(v.book, e) = 1..(n + 1)
        /\ \A i \in 1..n : Append(v.book, e)[i] = v.book[i]
        /\ Append(v.book, e)[n + 1] = e
    BY ListAppend DEF Known, Tame
  <2>2. QED BY <1>2, <2>1, Zenon
<1>6. \A i \in 1..(n + 1) : i \in 1..n \/ i = n + 1
  BY <1>4
<1>7. CountsFills(w)
  BY <1>2 DEF Known, CountsFills
<1>8. \A i \in 1..n : v.book[i].o # o
  BY <1>4 DEF BookOf
<1>9. WorksOnce(w)
  <2>1. ASSUME NEW i \in 1..(n + 1)
        PROVE  /\ w.book[i] \in Entries /\ signals[w.book[i].o] \in Menu
               /\ w.book[i].filled < w.book[i].working
    BY <1>3, <1>4, <1>5, <1>6 DEF Known, WorksOnce
  <2>2. ASSUME NEW i \in 1..(n + 1), NEW j \in 1..(n + 1), w.book[i].o = w.book[j].o
        PROVE  i = j
    <3>1. CASE i \in 1..n /\ j \in 1..n
      BY <1>4, <1>5, <2>2, <3>1 DEF Known, WorksOnce
    <3>2. CASE i \in 1..n /\ j = n + 1
      BY <1>3, <1>5, <1>8, <2>2, <3>2
    <3>3. CASE i = n + 1 /\ j \in 1..n
      BY <1>3, <1>5, <1>8, <2>2, <3>3
    <3>4. QED BY <1>6, <3>1, <3>2, <3>3
  <2>3. QED BY <1>5, <2>1, <2>2 DEF WorksOnce
<1>10. BookOf(w) = BookOf(v) \cup {o}
  <2>1. \A i \in 1..n : w.book[i].o = v.book[i].o /\ i \in 1..(n + 1)
    BY <1>4, <1>5
  <2>2. n + 1 \in 1..(n + 1) /\ w.book[n + 1].o = o
    BY <1>3, <1>4, <1>5
  <2>3. BookOf(w) = {w.book[i].o : i \in 1..(n + 1)}
    BY <1>5 DEF BookOf
  <2>4. BookOf(v) = {v.book[i].o : i \in 1..n}
    BY <1>4 DEF BookOf
  <2>5. QED BY <1>6, <2>1, <2>2, <2>3, <2>4
<1>11. Net(w) = Net(v)
  BY <1>2, SameNet
<1>12. Fits(v) => Fits(w)
  <2>1. SUFFICES ASSUME Fits(v), NEW i \in 1..(n + 1), signals[w.book[i].o].reduceOnly
                 PROVE  /\ ReducesNet(w, w.book[i].o)
                        /\ w.book[i].working - w.book[i].filled <= Abs(Net(w))
    BY <1>5 DEF Fits
  <2>2. CASE i \in 1..n
    BY <1>4, <1>5, <1>11, <2>1, <2>2 DEF Fits, ReducesNet
  <2>3. CASE i = n + 1
    BY <1>0, <1>3, <1>5, <1>11, <2>1, <2>3 DEF ReducesNet
  <2>4. QED BY <1>6, <2>2, <2>3
<1>13. \A s : Tells(v, s) => Tells(w, s)
  BY <1>2, <1>11, SameTells
<1>14. QED BY <1>1, <1>2, <1>7, <1>9, <1>10, <1>11, <1>12, <1>13 DEF Known, w

LEMMA NumberedMoves ==
    ASSUME Solid, NEW v, Known(v), NEW o \in Orders, signals[o] \in Menu, NEW size \in Nat \ {0},
           signals[o].reduceOnly => ReducesNet(v, o) /\ size <= Abs(Net(v))
    PROVE  /\ Known(Numbered(v, o, size)) /\ BookOf(Numbered(v, o, size)) = BookOf(v)
           /\ Net(Numbered(v, o, size)) = Net(v) + Direction(Side(o)) * size
           /\ \A s : Tells(v, s) => Tells(Numbered(v, o, size), s)
           /\ v.unapplied \subseteq Numbered(v, o, size).unapplied
<1> DEFINE w == Numbered(v, o, size)
           n == v.count[o] + 1
           d == Direction(Side(o)) * size
           f == [o |-> o, n |-> n, size |-> d]
           m == FillReport(o, n, size)
<1>0. d \in Int
  BY TermsAre
<1>1. Tame(w)
  BY NumberedTame DEF Known
<1>2. /\ w.book = v.book /\ w.count = [v.count EXCEPT ![o] = n]
      /\ w.unapplied = v.unapplied \cup {f} /\ w.out = Append(v.out, m)
  BY DEF Numbered, Known, Tame
<1>3. /\ m.k = "fill" /\ m.o = o /\ m.n = n /\ m.size = size /\ Record(signals, m) = f
  BY DEF FillReport, Record, Side
<1> HIDE DEF w, m, d
<1>4. n \in Nat /\ n > v.count[o] /\ v.count \in [Orders -> Nat]
  BY DEF Known, CountsFills
<1> HIDE DEF n
<1>5. f.o = o /\ f.n = n /\ f.size = d /\ f \in Records
  BY <1>0, <1>4 DEF Records
<1> HIDE DEF f
<1>6. \A p \in Orders : w.count[p] = (IF p = o THEN n ELSE v.count[p]) /\ v.count[p] \in Nat
                        /\ v.count[p] <= w.count[p]
  BY <1>2, <1>4
<1>7. \A g \in v.unapplied : g \in Records /\ g.o \in Orders /\ g.n \in Nat /\ g.n <= v.count[g.o]
  BY DEF Known, CountsFills, Records
<1>8. \A g \in v.unapplied : ~(g.o = f.o /\ g.n = f.n)
  BY <1>4, <1>5, <1>7
<1>9. CountsFills(w)
  <2>1. w.count \in [Orders -> Nat]
    BY <1>2, <1>4
  <2>2. \A p \in Orders : \A k \in rows[p].trades : k \in Nat /\ k <= w.count[p]
    <3> TAKE p \in Orders
    <3> TAKE k \in rows[p].trades
    <3>1. k \in Nat /\ k <= v.count[p]
      BY DEF Known, CountsFills
    <3>2. v.count[p] \in Nat /\ w.count[p] \in Nat /\ v.count[p] <= w.count[p]
      BY <1>6, <2>1
    <3>3. QED BY <3>1, <3>2
  <2>3. IsFiniteSet(w.unapplied)
    <3>1. IsFiniteSet(v.unapplied)
      BY DEF Known, CountsFills
    <3>2. IsFiniteSet(v.unapplied \cup {f})
      BY <3>1, FS_AddElement
    <3>3. QED BY <1>2, <3>2, Zenon
  <2>4. ASSUME NEW g \in w.unapplied PROVE g \in Records /\ g.n <= w.count[g.o]
    <3>1. CASE g = f
      BY <1>4, <1>5, <1>6, <3>1
    <3>2. CASE g \in v.unapplied
      <4>1. g.o \in Orders /\ g.n \in Nat /\ g.n <= v.count[g.o]
        BY <1>7, <3>2
      <4>2. v.count[g.o] \in Nat /\ w.count[g.o] \in Nat /\ v.count[g.o] <= w.count[g.o]
        BY <1>6, <2>1, <4>1
      <4>3. QED BY <1>7, <3>2, <4>1, <4>2
    <3>3. QED BY <1>2, <3>1, <3>2
  <2>5. ASSUME NEW g \in w.unapplied, NEW h \in w.unapplied, g.o = h.o, g.n = h.n PROVE g = h
    BY <1>2, <1>8, <2>5 DEF Known, CountsFills
  <2>6. QED BY <2>1, <2>2, <2>3, <2>4, <2>5 DEF CountsFills
<1>10. Known(w) /\ BookOf(w) = BookOf(v)
  BY <1>1, <1>2, <1>9 DEF Known, WorksOnce, BookOf
<1>11. Net(w) = Net(v) + d
  <2>1. f.n \notin rows[f.o].trades
    BY <1>4, <1>5 DEF Known, CountsFills
  <2>2. Unapplied(w) = Unapplied(v) \cup {f}
    BY <1>2, <2>1 DEF Unapplied
  <2>3. f \notin Unapplied(v)
    BY <1>8 DEF Unapplied
  <2>4. /\ IsFiniteSet(Unapplied(v)) /\ \A g \in Unapplied(v) : g.size \in Int
    BY UnappliedIs DEF Known
  <2>5. Total(Unapplied(w)) = Total(Unapplied(v)) + d
    BY <1>0, <1>5, <2>2, <2>3, <2>4, TotalAdd
  <2>6. Total(Unapplied(v)) \in Int
    BY <2>4, TotalIs
  <2>7. StoreNet \in Int
    BY DEF Solid, StoreNet
  <2>8. Net(w) = StoreNet + Total(Unapplied(w)) /\ Net(v) = StoreNet + Total(Unapplied(v))
    BY NetIs
  <2>9. QED BY <1>0, <2>5, <2>6, <2>7, <2>8
<1>12. ASSUME NEW s, Tells(v, s) PROVE Tells(w, s)
  <2>0. View(v) \in Views /\ View(w) \in Views
    BY <1>10, NetInt DEF Known
  <2>1. IsList(v.out)
    BY DEF Known, Tame, Reports
  <2>2. /\ View(w).net = View(v).net + d /\ View(w).count = [View(v).count EXCEPT ![o] = n]
        /\ View(v).count[o] = v.count[o] /\ View(v).net = Net(v)
    BY <1>2, <1>11 DEF View
  <2>3. signals[o].reduceOnly => Shrinks(View(v).net, View(w).net)
    BY <2>2, PartShrinks DEF Known, d
  <2>4. Moves(signals, m, View(v), View(w))
    <3>1. n = View(v).count[o] + 1
      BY <2>2 DEF n
    <3>2. d = Direction(signals[o].side) * size
      BY DEF d, Side
    <3>3. QED BY <1>3, <2>2, <2>3, <3>1, <3>2 DEF Moves
  <2>5. Leads(signals, Append(v.out, m), s, View(w))
    BY <1>12, <2>0, <2>1, <2>4, LeadsAppend DEF Tells
  <2>6. Leads(signals, w.out, s, View(w))
    BY <1>2, <2>5, Zenon
  <2>7. ASSUME NEW i \in DOMAIN w.out, w.out[i].k = "fill"
        PROVE  Record(signals, w.out[i]) \in w.unapplied
    <3>1. /\ Len(v.out) \in Nat /\ DOMAIN v.out = 1..Len(v.out)
          /\ DOMAIN Append(v.out, m) = 1..(Len(v.out) + 1)
          /\ \A j \in 1..Len(v.out) : Append(v.out, m)[j] = v.out[j]
          /\ Append(v.out, m)[Len(v.out) + 1] = m
      BY <2>1, ListFacts, ListAppend
    <3>2. /\ DOMAIN w.out = 1..(Len(v.out) + 1)
          /\ \A j \in 1..Len(v.out) : w.out[j] = v.out[j]
          /\ w.out[Len(v.out) + 1] = m
      BY <1>2, <3>1, Zenon
    <3>3. CASE i \in 1..Len(v.out)
      <4>1. w.out[i] = v.out[i] /\ i \in DOMAIN v.out
        BY <3>1, <3>2, <3>3
      <4>2. Record(signals, v.out[i]) \in v.unapplied
        BY <2>7, <1>12, <4>1 DEF Tells
      <4>3. QED BY <1>2, <4>1, <4>2
    <3>4. CASE i = Len(v.out) + 1
      BY <1>2, <1>3, <3>2, <3>4
    <3>5. QED BY <3>1, <3>2, <3>3, <3>4
  <2>8. QED BY <2>6, <2>7 DEF Tells
<1>13. QED BY <1>2, <1>10, <1>11, <1>12 DEF w, d

LEMMA RecheckMoves ==
    ASSUME Solid, NEW v, Known(v)
    PROVE  /\ Known(RecheckReduceOnly(v)) /\ BookOf(RecheckReduceOnly(v)) \subseteq BookOf(v)
           /\ Net(RecheckReduceOnly(v)) = Net(v) /\ Fits(RecheckReduceOnly(v))
           /\ \A s : Tells(v, s) => Tells(RecheckReduceOnly(v), s)
           /\ v.unapplied \subseteq RecheckReduceOnly(v).unapplied
<1> DEFINE Holding(e) == ~signals[e.o].reduceOnly \/ ReducesNet(v, e.o)
           Fit(e) == IF signals[e.o].reduceOnly
                THEN [e EXCEPT !.working =
                         e.filled + Min({e.working - e.filled, Abs(Net(v))})]
                ELSE e
           kept == {i \in DOMAIN v.book : Holding(v.book[i])}
           fit == [i \in DOMAIN v.book |-> Fit(v.book[i])]
           gone == Only(v.book, DOMAIN v.book \ kept)
           said == [i \in DOMAIN gone |-> StatusReport(gone[i].o, "CANCELLED")]
           told == v.statuses \cup {gone[i].o : i \in DOMAIN gone}
           w == RecheckReduceOnly(v)
           h == Ascending(kept)
<1>1. w = [v EXCEPT !.book = Only(fit, kept), !.out = @ \o said, !.statuses = told]
  BY DEF RecheckReduceOnly
<1>2. Tame(w)
  BY RecheckTame DEF Known
<1>3. IsList(v.book) /\ kept \subseteq DOMAIN v.book
  BY DEF Known, Tame
<1>4. IsList(said) /\ \A i \in DOMAIN said : said[i].k = "status"
  <2>1. IsFiniteSet(DOMAIN v.book \ kept)
    BY <1>3, IndicesFinite
  <2>2. IsList(gone)
    BY <2>1, ListOnly
  <2> HIDE DEF gone
  <2>3. IsList(said) /\ DOMAIN said = DOMAIN gone
    BY <2>2, ListMapped
  <2>4. QED BY <2>3 DEF StatusReport
<1> HIDE DEF said, told
<1>5. /\ w.book = Only(fit, kept) /\ w.out = v.out \o said
      /\ w.count = v.count /\ w.unapplied = v.unapplied
  <2> HIDE DEF fit, kept, w
  <2>1. QED BY <1>1 DEF Known, Tame
<1> HIDE DEF w
<1>6. Net(w) = Net(v) /\ Net(v) \in Int
  BY <1>5, SameNet, NetInt DEF Known
<1>7. ASSUME NEW i \in kept
      PROVE  /\ fit[i].o = v.book[i].o /\ fit[i] \in Entries /\ fit[i].filled < fit[i].working
             /\ signals[v.book[i].o].reduceOnly =>
                   ReducesNet(v, v.book[i].o) /\ fit[i].working - fit[i].filled <= Abs(Net(v))
  <2> DEFINE e == v.book[i]
             a == Abs(Net(v))
  <2>1. e \in Entries /\ e.filled < e.working /\ i \in DOMAIN v.book /\ Holding(e)
    BY DEF Known, WorksOnce
  <2>2. fit[i] = Fit(e)
    BY <2>1
  <2> HIDE DEF fit, e
  <2>3. CASE ~signals[e.o].reduceOnly
    BY <2>1, <2>2, <2>3 DEF e
  <2>4. CASE signals[e.o].reduceOnly
    <3>1. ReducesNet(v, e.o)
      BY <2>1, <2>4
    <3>2. a \in Nat /\ a # 0
      BY <1>6, <3>1 DEF ReducesNet, Abs
    <3> HIDE DEF a
    <3> DEFINE left == Min({e.working - e.filled, a})
    <3>3. e.working - e.filled \in Nat \ {0} /\ e.filled \in Nat
      BY <2>1 DEF Entries
    <3>4. left = IF e.working - e.filled <= a THEN e.working - e.filled ELSE a
      BY <3>2, <3>3, MinOf
    <3>5. left \in Nat \ {0} /\ left <= a
      BY <3>2, <3>3, <3>4
    <3>6. fit[i] = [e EXCEPT !.working = e.filled + left]
      BY <2>2, <2>4 DEF a
    <3> HIDE DEF left
    <3>7. fit[i].o = e.o /\ fit[i].filled = e.filled /\ fit[i].working = e.filled + left
          /\ fit[i] \in Entries
      BY <2>1, <3>3, <3>5, <3>6 DEF Entries
    <3>8. fit[i].filled < fit[i].working /\ fit[i].working - fit[i].filled = left
      BY <3>3, <3>5, <3>7
    <3>9. QED BY <3>1, <3>5, <3>7, <3>8 DEF a, e
  <2>5. QED BY <2>3, <2>4
<1> DEFINE c == Cardinality(kept)
<1>8. /\ c \in Nat /\ DOMAIN w.book = 1..c
      /\ \A i \in DOMAIN w.book : h[i] \in kept /\ w.book[i] = fit[h[i]]
      /\ \A i, j \in 1..c : i < j => h[i] < h[j]
  <2>1. IsList(fit) /\ DOMAIN fit = DOMAIN v.book
    BY <1>3, ListMapped
  <2> HIDE DEF fit, kept
  <2>2. kept \subseteq DOMAIN fit
    BY <1>3, <2>1
  <2>3. /\ c \in Nat /\ DOMAIN Only(fit, kept) = 1..c
        /\ \A i \in 1..c : h[i] \in kept /\ Only(fit, kept)[i] = fit[h[i]]
        /\ \A i, j \in 1..c : i < j => h[i] < h[j]
    BY <2>1, <2>2, OnlyPicks
  <2>4. QED BY <1>5, <2>3
<1> HIDE DEF fit, kept, h
<1>9. Thins(v, w, h)
  <2>1. \A i, j \in DOMAIN w.book : h[i] = h[j] => i = j
    <3>0. DOMAIN v.book \subseteq Nat
      BY <1>3, ListFacts
    <3>1. SUFFICES ASSUME NEW i \in DOMAIN w.book, NEW j \in DOMAIN w.book, h[i] = h[j], i # j
                   PROVE  FALSE
      OBVIOUS
    <3>2. i < j \/ j < i
      BY <1>8, <3>1
    <3>3. h[i] < h[j] \/ h[j] < h[i]
      BY <1>8, <3>2
    <3>4. h[i] \in Nat /\ h[j] \in Nat
      BY <1>3, <1>8, <3>0
    <3>5. QED BY <3>1, <3>3, <3>4
  <2>2. QED BY <1>3, <1>7, <1>8, <2>1 DEF Thins
<1>10. Known(w) /\ BookOf(w) \subseteq BookOf(v)
  BY <1>2, <1>5, <1>9, ThinMoves
<1>11. Fits(w)
  <2>1. SUFFICES ASSUME NEW i \in DOMAIN w.book, signals[w.book[i].o].reduceOnly
                 PROVE  /\ ReducesNet(w, w.book[i].o)
                        /\ w.book[i].working - w.book[i].filled <= Abs(Net(w))
    BY DEF Fits
  <2>2. h[i] \in kept /\ w.book[i] = fit[h[i]]
    BY <1>8
  <2>3. /\ w.book[i].o = v.book[h[i]].o
        /\ signals[v.book[h[i]].o].reduceOnly =>
              ReducesNet(v, v.book[h[i]].o) /\ w.book[i].working - w.book[i].filled <= Abs(Net(v))
    BY <1>7, <2>2
  <2>4. QED BY <1>6, <2>1, <2>3 DEF ReducesNet
<1>12. ASSUME NEW s, Tells(v, s) PROVE Tells(w, s)
  <2>1. View(w) = View(v) /\ View(v) \in Views
    BY <1>5, <1>6, NetInt DEF View, Known
  <2>2. IsList(v.out)
    BY DEF Known, Tame, Reports
  <2>3. Leads(signals, said, View(v), View(v))
    BY <1>4, <2>1, LeadsNone
  <2>4. Leads(signals, v.out \o said, s, View(v))
    BY <1>4, <1>12, <2>2, <2>3, LeadsConcat DEF Tells
  <2>5. Leads(signals, w.out, s, View(w))
    BY <1>5, <2>1, <2>4, Zenon
  <2>6. /\ Len(v.out) \in Nat /\ Len(said) \in Nat
        /\ DOMAIN v.out = 1..Len(v.out) /\ DOMAIN said = 1..Len(said)
        /\ DOMAIN (v.out \o said) = 1..(Len(v.out) + Len(said))
        /\ \A i \in 1..Len(v.out) : (v.out \o said)[i] = v.out[i]
        /\ \A i \in 1..Len(said) : (v.out \o said)[Len(v.out) + i] = said[i]
    BY <1>4, <2>2, ListFacts, ListConcat
  <2>7. /\ DOMAIN w.out = 1..(Len(v.out) + Len(said))
        /\ \A i \in 1..Len(v.out) : w.out[i] = v.out[i]
        /\ \A i \in 1..Len(said) : w.out[Len(v.out) + i] = said[i]
    BY <1>5, <2>6, Zenon
  <2>8. ASSUME NEW i \in DOMAIN w.out, w.out[i].k = "fill"
        PROVE  Record(signals, w.out[i]) \in w.unapplied
    <3>0. Len(v.out) \in Nat /\ Len(said) \in Nat /\ DOMAIN v.out = 1..Len(v.out)
          /\ DOMAIN said = 1..Len(said)
      BY <2>6
    <3>1. CASE i \in 1..Len(v.out)
      <4>1. w.out[i] = v.out[i] /\ i \in DOMAIN v.out
        BY <2>7, <3>0, <3>1
      <4>2. Record(signals, v.out[i]) \in v.unapplied
        BY <2>8, <1>12, <4>1 DEF Tells
      <4>3. QED BY <1>5, <4>1, <4>2
    <3>2. CASE ~(i \in 1..Len(v.out))
      <4> DEFINE j == i - Len(v.out)
      <4>1. j \in 1..Len(said) /\ Len(v.out) + j = i
        BY <2>7, <3>0, <3>2
      <4> HIDE DEF j
      <4>2. w.out[i] = said[j] /\ said[j].k = "status"
        BY <1>4, <2>7, <3>0, <4>1
      <4>3. QED BY <2>8, <4>2
    <3>3. QED BY <3>1, <3>2
  <2>9. QED BY <2>5, <2>8 DEF Tells
<1>13. QED BY <1>5, <1>6, <1>10, <1>11, <1>12 DEF w

LEMMA OfferIs ==
    ASSUME NEW n \in Nat \ {0}
    PROVE  Offer(n) \in Nat \ {0}
  BY DEF Offer

LEMMA CrossingKeeps ==
    ASSUME Solid, NEW v, Known(v), Fits(v), NEW o \in BookOf(v), NEW missed
    PROVE  /\ Keeps(v, FillCrossingLimit(v, o, missed))
           /\ BookOf(FillCrossingLimit(v, o, missed)) \subseteq BookOf(v)
<1> DEFINE e == Entry(v, o)
           size == Min({Offer(e.working), e.working - e.filled})
           done == e.filled + size >= e.working
           booked == BookFill(v, o, size)
           filled == Numbered(booked, o, size)
           after == IF done /\ e.working < e.asked
                    THEN Say(filled, o, "CANCELLED") ELSE filled
           w == RecheckReduceOnly(after)
<1>1. /\ o \in Orders /\ signals[o] \in Menu /\ e \in Entries /\ e.filled < e.working
      /\ signals[o].reduceOnly =>
            ReducesNet(v, o) /\ e.working - e.filled <= Abs(Net(v))
  BY EntryIs DEF Known, WorksOnce, Fits, Entries
<1>2. Net(v) \in Int /\ Abs(Net(v)) \in Nat
  BY NetInt, AbsIs DEF Known
<1> HIDE DEF e
<1>3. size \in Nat \ {0} /\ size <= e.working - e.filled
  <2>1. e.working \in Nat \ {0} /\ e.working - e.filled \in Nat \ {0}
    BY <1>1 DEF Entries
  <2>2. Offer(e.working) \in Nat \ {0}
    BY <2>1, OfferIs
  <2>3. size = IF Offer(e.working) <= e.working - e.filled THEN Offer(e.working)
               ELSE e.working - e.filled
    BY <2>1, <2>2, MinOf
  <2>4. QED BY <2>1, <2>2, <2>3
<1> HIDE DEF size
<1>4. signals[o].reduceOnly => ReducesNet(v, o) /\ size <= Abs(Net(v))
  <2>1. e.working - e.filled \in Int
    BY <1>1 DEF Entries
  <2>2. QED BY <1>1, <1>2, <1>3, <2>1
<1>5. /\ Known(booked) /\ BookOf(booked) \subseteq BookOf(v) /\ Net(booked) = Net(v)
      /\ \A s : Tells(v, s) => Tells(booked, s)
      /\ v.unapplied \subseteq booked.unapplied
  BY <1>3, BookFillMoves DEF e
<1> HIDE DEF booked
<1>6. signals[o].reduceOnly => ReducesNet(booked, o) /\ size <= Abs(Net(booked))
  BY <1>4, <1>5 DEF ReducesNet
<1>7. /\ Known(filled) /\ BookOf(filled) = BookOf(booked)
      /\ \A s : Tells(booked, s) => Tells(filled, s)
      /\ booked.unapplied \subseteq filled.unapplied
  BY <1>1, <1>3, <1>5, <1>6, NumberedMoves
<1> HIDE DEF filled
<1>8. /\ Known(after) /\ BookOf(after) = BookOf(filled)
      /\ \A s : Tells(filled, s) => Tells(after, s)
      /\ filled.unapplied \subseteq after.unapplied
  BY <1>7, SayMoves
<1> HIDE DEF after
<1>9. /\ Known(w) /\ BookOf(w) \subseteq BookOf(after) /\ Fits(w)
      /\ \A s : Tells(after, s) => Tells(w, s)
      /\ after.unapplied \subseteq w.unapplied
  BY <1>8, RecheckMoves
<1>10. FillCrossingLimit(v, o, missed) = IF missed THEN v ELSE w
  BY DEF FillCrossingLimit, w, after, filled, booked, size, e
<1> HIDE DEF w
<1>11. Keeps(v, w) /\ BookOf(w) \subseteq BookOf(v)
  BY <1>5, <1>7, <1>8, <1>9 DEF Keeps
<1>12. Keeps(v, v)
  BY DEF Keeps
<1>13. QED BY <1>10, <1>11, <1>12

LEMMA KeepsOn ==
    ASSUME NEW u, NEW v, NEW w, Keeps(u, v), Keeps(v, w)
    PROVE  Keeps(u, w)
  BY DEF Keeps

\* What a tick starts from: the fills the store has applied are forgotten.
LEMMA PrunedKeeps ==
    ASSUME Solid, NEW v, Known(v), Fits(v), v.out = <<>>, NEW price,
           NEW w, w = [v EXCEPT !.price = price, !.unapplied = Unapplied(v)]
    PROVE  /\ Known(w) /\ Fits(w) /\ BookOf(w) = BookOf(v) /\ w.out = <<>>
           /\ Net(w) = Net(v) /\ w.unapplied = Unapplied(v) /\ w.count = v.count
<1>1. /\ w.book = v.book /\ w.count = v.count /\ w.unapplied = Unapplied(v)
      /\ w.out = <<>> /\ Tame(w)
  BY DEF Known, Tame
<1>2. Unapplied(w) = Unapplied(v)
  BY <1>1 DEF Unapplied
<1>3. Net(w) = Net(v)
  BY <1>2, NetIs
<1>4. Known(w)
  <2>1. IsFiniteSet(Unapplied(v)) /\ Unapplied(v) \subseteq v.unapplied
    BY UnappliedIs DEF Known
  <2>2. CountsFills(w)
    BY <1>1, <2>1 DEF Known, CountsFills
  <2>3. QED BY <1>1, <2>2 DEF Known, WorksOnce
<1>5. Fits(w)
  BY <1>1, <1>3 DEF Fits, ReducesNet
<1>6. QED BY <1>1, <1>3, <1>4, <1>5 DEF BookOf

\* The walk over the book on a tick.
LEMMA MatchKeeps ==
    ASSUME Solid, NEW v, Known(v), Fits(v), v.out = <<>>, NEW price, NEW missed
    PROVE  \E u : /\ Keeps(u, MatchBook(v, price, missed))
                  /\ BookOf(MatchBook(v, price, missed)) \subseteq BookOf(v)
                  /\ u = [v EXCEPT !.price = price, !.unapplied = Unapplied(v)]
<1> DEFINE n == Len(v.book)
           u == [v EXCEPT !.price = price, !.unapplied = Unapplied(v)]
<1>0. n \in Nat
  BY ListFacts DEF Known, Tame
<1>1. PICK w : /\ Walks(v, w, n, price, missed)
               /\ MatchBook(v, price, missed) = w[n]
  BY <1>0, MatchIsWalk
<1>2. \A i \in 0..n : w[i] = Walked(v, w, i, price, missed)
  <2>1. w = [i \in 0..n |-> Walked(v, w, i, price, missed)]
    BY <1>1 DEF Walks
  <2>2. QED BY <2>1
<1>3. Known(u) /\ Fits(u) /\ BookOf(u) = BookOf(v)
  BY PrunedKeeps
<1>4. w[0] = u
  BY <1>0, <1>2 DEF Walked
<1> HIDE DEF u
<1> DEFINE C == {k \in Nat : k <= n => Keeps(u, w[k]) /\ BookOf(w[k]) \subseteq BookOf(v)}
<1>5. 0 \in C
  BY <1>3, <1>4 DEF Keeps
<1>6. ASSUME NEW k \in Nat, k \in C, k + 1 <= n
      PROVE  Keeps(u, w[k + 1]) /\ BookOf(w[k + 1]) \subseteq BookOf(v)
  <2>1. Keeps(u, w[k]) /\ BookOf(w[k]) \subseteq BookOf(v)
    BY <1>0, <1>6
  <2>2. k + 1 \in 0..n /\ k + 1 # 0 /\ (k + 1) - 1 = k
    BY <1>0, <1>6
  <2>3. w[k + 1] = Walked(v, w, k + 1, price, missed)
    BY <1>2, <2>2
  <2> DEFINE o == v.book[k + 1].o
  <2>4. \/ Resting(w[k], o) # {} /\ w[k + 1] = FillCrossingLimit(w[k], o, o \in missed)
        \/ w[k + 1] = w[k]
    BY <2>2, <2>3 DEF Walked
  <2> HIDE DEF o
  <2>5. CASE w[k + 1] = w[k]
    BY <2>1, <2>5
  <2>6. CASE Resting(w[k], o) # {} /\ w[k + 1] = FillCrossingLimit(w[k], o, o \in missed)
    <3>1. o \in BookOf(w[k])
      BY <2>6 DEF Resting, BookOf
    <3>2. Known(w[k]) /\ Fits(w[k])
      BY <2>1 DEF Keeps
    <3>3. Keeps(w[k], w[k + 1]) /\ BookOf(w[k + 1]) \subseteq BookOf(w[k])
      BY <2>6, <3>1, <3>2, CrossingKeeps
    <3>4. QED BY <2>1, <3>3, KeepsOn
  <2>7. QED BY <2>4, <2>5, <2>6
<1>7. n \in C
  <2>1. \A k \in Nat : k \in C => k + 1 \in C
    BY <1>6
  <2> HIDE DEF C
  <2>2. QED BY <1>0, <1>5, <2>1, ClimbNat
<1>8. Keeps(u, w[n]) /\ BookOf(w[n]) \subseteq BookOf(v)
  BY <1>0, <1>7
<1>9. QED BY <1>1, <1>8 DEF u

LEMMA SayKeeps ==
    ASSUME Solid, NEW v, Known(v), Fits(v), NEW o, NEW st
    PROVE  Keeps(v, Say(v, o, st)) /\ BookOf(Say(v, o, st)) = BookOf(v)
  BY SayMoves DEF Keeps

LEMMA TakeOffKeeps ==
    ASSUME Solid, NEW v, Known(v), Fits(v), NEW o
    PROVE  Keeps(v, TakeOff(v, o)) /\ BookOf(TakeOff(v, o)) \subseteq BookOf(v)
  BY TakeOffMoves DEF Keeps

LEMMA MarketKeeps ==
    ASSUME NEW v, NEW o, NEW size, Arrives(v, o, size),
           signals[o].reduceOnly => ReducesNet(v, o)
    PROVE  Keeps(v, PlaceMarket(v, o, size)) /\ BookOf(PlaceMarket(v, o, size)) \subseteq BookOf(v)
<1> DEFINE working == WorkingSize(v, o, size)
           filled == Numbered(v, o, working)
           after == IF working < size THEN Say(filled, o, "CANCELLED") ELSE filled
           w == RecheckReduceOnly(after)
<1>0. Solid /\ Known(v) /\ Fits(v) /\ o \in Orders /\ signals[o] \in Menu /\ size \in Nat \ {0}
  BY DEF Arrives
<1>1. /\ working \in Nat \ {0}
      /\ signals[o].reduceOnly => working <= Abs(Net(v))
  BY <1>0, WorkingIs DEF Known
<1>2. \/ PlaceMarket(v, o, size) = Say(v, o, "REJECTED")
      \/ PlaceMarket(v, o, size) = w
  BY DEF PlaceMarket
<1> HIDE DEF working
<1>3. /\ Known(filled) /\ BookOf(filled) = BookOf(v)
      /\ \A s : Tells(v, s) => Tells(filled, s)
      /\ v.unapplied \subseteq filled.unapplied
  BY <1>0, <1>1, NumberedMoves
<1> HIDE DEF filled
<1>4. /\ Known(after) /\ BookOf(after) = BookOf(filled)
      /\ \A s : Tells(filled, s) => Tells(after, s)
      /\ filled.unapplied \subseteq after.unapplied
  BY <1>0, <1>3, SayMoves
<1> HIDE DEF after
<1>5. /\ Known(w) /\ BookOf(w) \subseteq BookOf(after) /\ Fits(w)
      /\ \A s : Tells(after, s) => Tells(w, s)
      /\ after.unapplied \subseteq w.unapplied
  BY <1>0, <1>4, RecheckMoves
<1> HIDE DEF w
<1>6. Keeps(v, w) /\ BookOf(w) \subseteq BookOf(v)
  BY <1>3, <1>4, <1>5 DEF Keeps
<1>7. QED BY <1>0, <1>2, <1>6, SayKeeps

LEMMA LimitKeeps ==
    ASSUME NEW v, NEW o, NEW size, Arrives(v, o, size), NEW missed,
           signals[o].reduceOnly => ReducesNet(v, o)
    PROVE  /\ Keeps(v, PlaceLimit(v, o, size, missed))
           /\ BookOf(PlaceLimit(v, o, size, missed)) \subseteq BookOf(v) \cup {o}
<1> DEFINE rested == Rest(v, o, size)
           arrived == FillCrossingLimit(rested, o, missed)
           Good(w) == Keeps(v, w) /\ BookOf(w) \subseteq BookOf(v) \cup {o}
<1>0. Solid /\ Known(v) /\ Fits(v) /\ o \in Orders /\ signals[o] \in Menu /\ size \in Nat \ {0}
      /\ o \notin BookOf(v)
  BY DEF Arrives
<1>1. \/ PlaceLimit(v, o, size, missed) = Say(v, o, "REJECTED")
      \/ PlaceLimit(v, o, size, missed) = arrived
      \/ PlaceLimit(v, o, size, missed) = Say(TakeOff(arrived, o), o, "CANCELLED")
      \/ PlaceLimit(v, o, size, missed) = Say(arrived, o, "LIVE")
      \/ PlaceLimit(v, o, size, missed) = Say(v, o, "CANCELLED")
      \/ PlaceLimit(v, o, size, missed) = Say(rested, o, "LIVE")
  BY DEF PlaceLimit
<1>2. Good(rested) /\ o \in BookOf(rested)
  BY <1>0, RestMoves DEF Keeps
<1> HIDE DEF rested
<1>3. Good(arrived)
  <2>1. Keeps(rested, arrived) /\ BookOf(arrived) \subseteq BookOf(rested)
    BY <1>0, <1>2, CrossingKeeps DEF Keeps
  <2>2. QED BY <1>2, <2>1, KeepsOn
<1> HIDE DEF arrived
<1>4. ASSUME NEW w, Good(w) PROVE Good(TakeOff(w, o))
  <2>1. Keeps(w, TakeOff(w, o)) /\ BookOf(TakeOff(w, o)) \subseteq BookOf(w)
    BY <1>0, <1>4, TakeOffKeeps DEF Keeps
  <2>2. QED BY <1>4, <2>1, KeepsOn
<1>5. ASSUME NEW w, Good(w), NEW st PROVE Good(Say(w, o, st))
  <2>1. Keeps(w, Say(w, o, st)) /\ BookOf(Say(w, o, st)) = BookOf(w)
    BY <1>0, <1>5, SayKeeps DEF Keeps
  <2>2. QED BY <1>5, <2>1, KeepsOn
<1>6. Good(v)
  BY <1>0 DEF Keeps
<1> HIDE DEF Good
<1>7. Good(PlaceLimit(v, o, size, missed))
  BY <1>1, <1>2, <1>3, <1>4, <1>5, <1>6
<1>8. QED BY <1>7 DEF Good

LEMMA PlaceKeeps ==
    ASSUME NEW v, NEW o, NEW size, Arrives(v, o, size), NEW missed
    PROVE  /\ Keeps(v, Place(v, o, size, missed))
           /\ BookOf(Place(v, o, size, missed)) \subseteq BookOf(v) \cup {o}
<1>0. Solid /\ Known(v) /\ Fits(v)
  BY DEF Arrives
<1>1. ASSUME NEW st PROVE Keeps(v, Say(v, o, st)) /\ BookOf(Say(v, o, st)) = BookOf(v)
  BY <1>0, SayKeeps
<1>2. CASE signals[o].reduceOnly /\ ~ReducesNet(v, o)
  BY <1>1, <1>2 DEF Place
<1>3. CASE ~(signals[o].reduceOnly /\ ~ReducesNet(v, o))
  <2>1. \/ Place(v, o, size, missed) = Say(v, o, "FAILED")
        \/ Place(v, o, size, missed) = PlaceMarket(v, o, size)
        \/ Place(v, o, size, missed) = PlaceLimit(v, o, size, missed)
    BY <1>3 DEF Place
  <2>2. QED BY <1>1, <1>3, <2>1, MarketKeeps, LimitKeeps
<1>4. QED BY <1>2, <1>3

LEMMA CancelKeeps ==
    ASSUME Solid, NEW v, Known(v), Fits(v), NEW o
    PROVE  Keeps(v, Cancel(v, o)) /\ BookOf(Cancel(v, o)) \subseteq BookOf(v)
<1> DEFINE u == TakeOff(v, o)
<1>1. Keeps(v, u) /\ BookOf(u) \subseteq BookOf(v)
  BY TakeOffKeeps
<1>2. Cancel(v, o) = v \/ Cancel(v, o) = Say(u, o, "CANCELLED")
  BY DEF Cancel
<1> HIDE DEF u
<1>3. Keeps(u, Say(u, o, "CANCELLED")) /\ BookOf(Say(u, o, "CANCELLED")) = BookOf(u)
  BY <1>1, SayKeeps DEF Keeps
<1>4. Keeps(v, v)
  BY DEF Keeps
<1>5. QED BY <1>1, <1>2, <1>3, <1>4, KeepsOn

-----------------------------------------------------------------------------
\* What the bus does to the events the store has still to handle.

LEMMA SameList ==
    ASSUME NEW l, NEW m, IsList(l), IsList(m), Len(l) = Len(m),
           \A i \in 1..Len(l) : l[i] = m[i]
    PROVE  l = m
<1> DEFINE S == {l[i] : i \in DOMAIN l}
           T == {m[i] : i \in DOMAIN m}
<1>1. l \in Seq(S \cup T) /\ m \in Seq(S \cup T)
  BY DEF IsList
<1>2. QED BY <1>1, SeqEqual

LEMMA ConcatNothing ==
    ASSUME NEW l, IsList(l)
    PROVE  l \o <<>> = l
  BY ConcatEmptySeq DEF IsList

LEMMA OneMore ==
    ASSUME NEW l, IsList(l), NEW m
    PROVE  IsList(<<m>>) /\ DOMAIN <<m>> = {1} /\ <<m>>[1] = m /\ Append(l, m) = l \o <<m>>
<1> DEFINE S == {l[i] : i \in DOMAIN l} \cup {m}
           one == <<m>>
<1>1. IsList(one)
  BY DEF IsList
<1>2. l \in Seq(S) /\ m \in S
  <2> DEFINE T == {l[i] : i \in DOMAIN l}
  <2>1. l \in Seq(T)
    BY DEF IsList
  <2>2. T \subseteq S
    OBVIOUS
  <2> HIDE DEF S, T
  <2>3. l \in Seq(S)
    BY <2>1, <2>2
  <2>4. QED BY <2>3 DEF S
<1>3. DOMAIN one = {1} /\ one[1] = m
  OBVIOUS
<1> HIDE DEF S, one
<1>4. Append(l, m) = l \o <<m>>
  BY <1>2, AppendIsConcat
<1>5. QED BY <1>1, <1>3, <1>4, Zenon DEF one

\* An event that moves from what is held to the end of the queue.
LEMMA FlushSame ==
    ASSUME NEW q, NEW h, IsList(q), IsList(h), q # <<>>, h # <<>>
    PROVE  Tail(Append(q, Head(h))) \o Tail(h) = Tail(q) \o h
<1> DEFINE r == Append(q, Head(h))
           a == Tail(r)
           b == Tail(h)
           c == Tail(q)
           l == a \o b
           m == c \o h
           n == Len(q) - 1
           k == Len(h)
<1>1. /\ IsList(b) /\ k \in Nat \ {0} /\ Len(b) = k - 1 /\ Head(h) = h[1]
      /\ \A i \in 1..(k - 1) : b[i] = h[i + 1]
  BY ListTail
<1>2. /\ IsList(c) /\ n \in Nat /\ Len(c) = n /\ \A i \in 1..n : c[i] = q[i + 1]
  BY ListTail
<1>3. /\ IsList(r) /\ Len(r) = n + 2 /\ \A i \in 1..(n + 1) : r[i] = q[i]
      /\ r[n + 2] = h[1]
  <2>1. /\ IsList(r) /\ Len(r) = Len(q) + 1 /\ \A i \in 1..Len(q) : r[i] = q[i]
        /\ r[Len(q) + 1] = Head(h)
    BY ListAppend
  <2>2. Len(q) = n + 1 /\ Len(q) + 1 = n + 2
    BY <1>2, ListFacts
  <2>3. QED BY <1>1, <2>1, <2>2
<1> HIDE DEF r
<1>4. r # <<>>
  BY <1>2, <1>3, ListEmpty
<1>5. /\ IsList(a) /\ Len(a) = n + 1 /\ \A i \in 1..(n + 1) : a[i] = r[i + 1]
  <2>1. /\ IsList(a) /\ Len(a) = Len(r) - 1 /\ \A i \in 1..(Len(r) - 1) : a[i] = r[i + 1]
    BY <1>3, <1>4, ListTail
  <2>2. Len(r) - 1 = n + 1
    BY <1>2, <1>3
  <2>3. QED BY <2>1, <2>2
<1> HIDE DEF a, b, c, n, k
<1>6. /\ IsList(l) /\ Len(l) = Len(a) + Len(b) /\ \A i \in 1..Len(a) : l[i] = a[i]
      /\ \A i \in 1..Len(b) : l[Len(a) + i] = b[i]
  BY <1>1, <1>5, ListConcat
<1>7. /\ IsList(m) /\ Len(m) = Len(c) + Len(h) /\ \A i \in 1..Len(c) : m[i] = c[i]
      /\ \A i \in 1..Len(h) : m[Len(c) + i] = h[i]
  BY <1>2, ListConcat
<1> HIDE DEF l, m
<1>8. Len(h) = k
  BY DEF k
<1>9. Len(l) = Len(m) /\ Len(l) = n + k
  BY <1>1, <1>2, <1>5, <1>6, <1>7, <1>8
<1>10. ASSUME NEW i \in 1..(n + k) PROVE l[i] = m[i]
  <2>1. CASE i \in 1..n
    <3>1. i \in 1..(n + 1) /\ i + 1 \in 1..(n + 1)
      BY <1>2, <2>1
    <3>2. l[i] = a[i] /\ a[i] = r[i + 1] /\ r[i + 1] = q[i + 1]
      BY <1>3, <1>5, <1>6, <3>1
    <3>3. m[i] = c[i] /\ c[i] = q[i + 1]
      BY <1>2, <1>7, <2>1
    <3>4. QED BY <3>2, <3>3
  <2>2. CASE i = n + 1
    <3>1. i \in 1..(n + 1) /\ i + 1 = n + 2 /\ 1 \in 1..k
      BY <1>1, <1>2, <2>2
    <3>2. l[i] = a[i] /\ a[i] = r[i + 1] /\ r[i + 1] = h[1]
      BY <1>3, <1>5, <1>6, <3>1
    <3>3. m[n + 1] = h[1]
      BY <1>2, <1>7, <1>8, <3>1
    <3>4. QED BY <2>2, <3>2, <3>3
  <2>3. CASE ~(i \in 1..n) /\ i # n + 1
    <3> DEFINE j == i - (n + 1)
    <3>1. j \in 1..(k - 1) /\ (n + 1) + j = i /\ j + 1 \in 1..k /\ n + (j + 1) = i
      BY <1>1, <1>2, <2>3
    <3> HIDE DEF j
    <3>2. l[(n + 1) + j] = b[j] /\ b[j] = h[j + 1]
      BY <1>1, <1>5, <1>6, <3>1
    <3>3. m[n + (j + 1)] = h[j + 1]
      BY <1>2, <1>7, <1>8, <3>1
    <3>4. QED BY <3>1, <3>2, <3>3
  <2>4. QED BY <2>1, <2>2, <2>3
<1>11. l = m
  BY <1>6, <1>7, <1>9, <1>10, SameList
<1>12. QED BY <1>11 DEF l, m, a, b, c, r

\* What joins at the end of a queue joins at the end of its tail.
LEMMA TailConcat ==
    ASSUME NEW q, NEW r, IsList(q), IsList(r), q # <<>>
    PROVE  Tail(q \o r) = Tail(q) \o r
<1> DEFINE t == Tail(q)
           u == q \o r
           l == Tail(u)
           m == t \o r
           n == Len(q) - 1
<1>1. /\ IsList(t) /\ n \in Nat /\ Len(t) = n /\ \A i \in 1..n : t[i] = q[i + 1]
      /\ Len(q) = n + 1
  BY ListTail, ListFacts
<1>2. Len(r) \in Nat
  BY ListFacts
<1>3. /\ IsList(u) /\ Len(u) = (n + 1) + Len(r) /\ \A i \in 1..(n + 1) : u[i] = q[i]
      /\ \A i \in 1..Len(r) : u[(n + 1) + i] = r[i]
  <2>1. /\ IsList(u) /\ Len(u) = Len(q) + Len(r) /\ \A i \in 1..Len(q) : u[i] = q[i]
        /\ \A i \in 1..Len(r) : u[Len(q) + i] = r[i]
    BY ListConcat
  <2> HIDE DEF u, n
  <2>2. QED BY <1>1, <2>1
<1> HIDE DEF t, u, n
<1>4. u # <<>>
  BY <1>1, <1>2, <1>3, ListEmpty
<1>5. IsList(l) /\ Len(l) = Len(u) - 1 /\ \A i \in 1..(Len(u) - 1) : l[i] = u[i + 1]
  BY <1>3, <1>4, ListTail
<1>6. /\ IsList(m) /\ Len(m) = n + Len(r) /\ \A i \in 1..n : m[i] = t[i]
      /\ \A i \in 1..Len(r) : m[n + i] = r[i]
  <2>1. /\ IsList(m) /\ Len(m) = Len(t) + Len(r) /\ \A i \in 1..Len(t) : m[i] = t[i]
        /\ \A i \in 1..Len(r) : m[Len(t) + i] = r[i]
    BY <1>1, ListConcat
  <2> HIDE DEF m
  <2>2. QED BY <1>1, <2>1
<1> HIDE DEF l, m
<1>7. Len(l) = n + Len(r) /\ Len(u) - 1 = n + Len(r)
  BY <1>1, <1>2, <1>3, <1>5
<1>8. ASSUME NEW i \in 1..(n + Len(r)) PROVE l[i] = m[i]
  <2>1. l[i] = u[i + 1]
    BY <1>5, <1>7
  <2>2. CASE i \in 1..n
    <3>1. i + 1 \in 1..(n + 1)
      BY <1>1, <2>2
    <3>2. QED BY <1>1, <1>3, <1>6, <2>1, <2>2, <3>1
  <2>3. CASE ~(i \in 1..n)
    <3> DEFINE j == i - n
    <3>1. j \in 1..Len(r) /\ n + j = i /\ (n + 1) + j = i + 1
      BY <1>1, <1>2, <2>3
    <3> HIDE DEF j
    <3>2. u[(n + 1) + j] = r[j] /\ m[n + j] = r[j]
      BY <1>3, <1>6, <3>1
    <3>3. QED BY <2>1, <3>1, <3>2
  <2>4. QED BY <2>2, <2>3
<1>9. l = m
  BY <1>5, <1>6, <1>7, <1>8, SameList
<1>10. QED BY <1>9 DEF l, m, t, u

-----------------------------------------------------------------------------
\* The net as the reduce-only orders find it, while no process was killed.

LEMMA MostIs ==
    /\ MostOrders \in Nat /\ Orders = 1..MostOrders
    /\ \A budget \in Budgets : budget.signals <= MostOrders
<1>1. PICK most \in Budgets : \A budget \in Budgets : budget.signals <= most.signals
  BY PaperAssumption
<1> DEFINE sent == {budget.signals : budget \in Budgets}
<1>2. \A n \in sent : n \in Nat
  BY PaperAssumption
<1>3. most.signals \in sent /\ \A n \in sent : most.signals >= n
  BY <1>1, <1>2, PaperAssumption
<1>4. \A budget \in Budgets : budget.signals \in sent
  OBVIOUS
<1> HIDE DEF sent
<1>5. Max(sent) \in sent /\ \A n \in sent : Max(sent) >= n
  BY <1>3 DEF Max
<1>6. MostOrders = Max(sent)
  BY DEF MostOrders, sent
<1>7. \A budget \in Budgets : budget.signals <= MostOrders
  <2> TAKE budget \in Budgets
  <2>1. budget.signals \in sent /\ MostOrders >= budget.signals /\ MostOrders \in Nat
        /\ budget.signals \in Nat
    BY <1>2, <1>4, <1>5, <1>6
  <2>2. QED BY <2>1
<1>8. QED BY <1>2, <1>5, <1>6, <1>7 DEF Orders, MostOrders

LEMMA PendingList ==
    ASSUME Bus
    PROVE  /\ IsList(Base) /\ IsList(held) /\ IsList(Pending)
           /\ (~dispatched /\ held = <<>> => Pending = queue)
<1>1. IsList(queue) /\ IsList(held) /\ (dispatched => IsList(Tail(queue)))
  BY ListTail DEF Bus
<1>2. IsList(Base)
  BY <1>1 DEF Base
<1>3. IsList(Pending)
  BY <1>1, <1>2, ListConcat DEF Pending
<1>4. ASSUME ~dispatched, held = <<>> PROVE Pending = queue
  BY <1>1, <1>4, ConcatNothing DEF Pending, Base
<1>5. QED BY <1>1, <1>2, <1>3, <1>4

\* What holds at the start.
LEMMA ReduceInitially == Init => ReduceInv
<1> SUFFICES ASSUME Init PROVE ReduceInv
  OBVIOUS
<1>1. KnownOrders
  <2>1. own \in Int /\ other \in Int
    BY PaperAssumption DEF Init
  <2>2. QED BY <2>1 DEF Init, KnownOrders, Solid, HasRow, NoRow
<1>2. SentFirst
  <2>1. Sent = 1..0
    BY DEF Init, Sent
  <2>2. bounds.signals <= MostOrders /\ bounds.signals \in Nat
    BY MostIs, PaperAssumption DEF Init
  <2>3. QED BY <2>1, <2>2 DEF SentFirst
<1>3. BusShape
  BY NoReports, ListEmpty DEF Init, BusShape
<1>4. Bus
  BY FundInitially DEF FundInv
<1>5. Pending = <<>>
  BY <1>4, PendingList DEF Init
<1>6. Known(venue) /\ Fits(venue) /\ BookOf(venue) = {}
  <2>1. Tame(venue)
    BY FundInitially DEF FundInv, TameVenue
  <2>2. venue.book = <<>> /\ venue.count = [o \in Orders |-> 0] /\ venue.unapplied = {}
    BY DEF Init, NewVenue
  <2>3. CountsFills(venue)
    <3>1. \A o \in Orders : rows[o].trades = {}
      BY DEF Init, NoRow
    <3>2. IsFiniteSet(venue.unapplied)
      BY <2>2, FS_EmptySet
    <3>3. venue.count \in [Orders -> Nat]
      BY <2>2
    <3>4. QED BY <2>2, <3>1, <3>2, <3>3 DEF CountsFills
  <2>4. DOMAIN venue.book = {}
    BY <2>2, ListEmpty
  <2>5. QED BY <2>1, <2>3, <2>4 DEF Known, WorksOnce, Fits, BookOf
<1>7. VenueAhead
  BY <1>5, <1>6, ListEmpty DEF VenueAhead
<1>8. LogReduces
  <2> DEFINE s == View(venue)
  <2>1. s \in Views
    BY <1>1, <1>6, NetInt DEF KnownOrders, Known
  <2>2. Leads(signals, <<>>, s, s)
    BY <2>1, ListEmpty, LeadsNone
  <2>3. Net(venue) = StoreNet
    <3>1. venue.unapplied = {}
      BY DEF Init, NewVenue
    <3>2. Unapplied(venue) = {}
      BY <3>1 DEF Unapplied
    <3>3. Total({}) = 0
      <4>1. SumFunctionOnSet([f \in {} |-> f.size], {}) = 0
        BY FS_EmptySet, SumUnfolds
      <4>2. DOMAIN [f \in {} |-> f.size] = {}
        OBVIOUS
      <4>3. QED BY <4>1, <4>2 DEF Total, SumFunction
    <3>4. StoreNet \in Int
      BY <1>1 DEF KnownOrders, Solid, StoreNet
    <3>5. QED BY <3>2, <3>3, <3>4, NetIs
  <2>4. Stored(s)
    BY <2>3 DEF Stored, View, Init, NoRow
  <2>5. QED BY <1>5, <2>2, <2>4 DEF LogReduces
<1>9. phase = "running"
  BY DEF Init
<1>10. QED BY <1>1, <1>2, <1>3, <1>7, <1>8, <1>9 DEF ReduceInv

-----------------------------------------------------------------------------
\* Steps that leave the rows, the venue and the terms of the orders alone.

\* What is pending stays, and so do the orders.
LEMMA StillKeeps ==
    ASSUME ReduceInv, ~crashed, Settled, signals' = signals, bounds'.signals = bounds.signals,
           BusShape', Pending' = Pending
    PROVE  ReduceInv'
<1>1. UNCHANGED <<rows, own, other, venue, phase, fault, crashed, signals, kafka>>
  BY DEF Settled
<1>2. KnownOrders' /\ SentFirst'
  BY <1>1 DEF ReduceInv, KnownOrders, SentFirst, Solid, HasRow, Sent
<1>3. Net(venue)' = Net(venue) /\ StoreNet' = StoreNet
  BY <1>1 DEF Net, StoreNet, Unapplied
<1>4. View(venue)' = View(venue)
  BY <1>1, <1>3 DEF View
<1>5. VenueAhead => VenueAhead'
  BY <1>1, <1>3 DEF VenueAhead, Known, CountsFills, WorksOnce, Fits, ReducesNet, Side,
    BookOf, HasRow
<1>6. LogReduces'
  <2>1. PICK s, t : Leads(signals, Pending, s, t) /\ Stored(s)
                    /\ (phase = "running" => t = View(venue))
    BY DEF ReduceInv, LogReduces
  <2>2. Stored(s)'
    BY <1>1, <1>3, <2>1 DEF Stored
  <2>3. QED BY <1>1, <1>4, <2>1, <2>2 DEF LogReduces
<1>7. QED BY <1>1, <1>2, <1>5, <1>6 DEF ReduceInv

\* What is in a list that another is inserted in.
FromEither(p, r, l) ==
    \A i \in DOMAIN p : (\E j \in DOMAIN r : p[i] = r[j]) \/ (\E j \in DOMAIN l : l[j] = p[i])

LEMMA InsertedIn ==
    ASSUME NEW a, NEW r, NEW h, IsList(a), IsList(r), IsList(h)
    PROVE  FromEither((a \o r) \o h, r, a \o h)
<1> DEFINE q == a \o r
           p == q \o h
           l == a \o h
           n == Len(a)
           k == Len(r)
           e == Len(h)
<1>1. n \in Nat /\ k \in Nat /\ e \in Nat /\ DOMAIN r = 1..k
  BY ListFacts
<1>2. /\ IsList(q) /\ Len(q) = n + k /\ \A j \in 1..n : q[j] = a[j]
      /\ \A j \in 1..k : q[n + j] = r[j]
  BY ListConcat
<1>3. /\ DOMAIN l = 1..(n + e) /\ \A j \in 1..n : l[j] = a[j]
      /\ \A j \in 1..e : l[n + j] = h[j]
  BY ListConcat
<1> HIDE DEF q, n, k, e, l
<1>4. /\ DOMAIN p = 1..(Len(q) + Len(h)) /\ \A j \in 1..Len(q) : p[j] = q[j]
      /\ \A j \in 1..Len(h) : p[Len(q) + j] = h[j]
  BY <1>2, ListConcat
<1> HIDE DEF p
<1>5. /\ DOMAIN p = 1..((n + k) + e) /\ \A j \in 1..(n + k) : p[j] = q[j]
      /\ \A j \in 1..e : p[(n + k) + j] = h[j]
  BY <1>2, <1>4 DEF e
<1>6. ASSUME NEW i \in DOMAIN p
      PROVE  (\E j \in DOMAIN r : p[i] = r[j]) \/ (\E j \in DOMAIN l : l[j] = p[i])
  <2>1. CASE i \in 1..n
    <3>1. i \in 1..(n + k) /\ i \in 1..(n + e)
      BY <1>1, <2>1
    <3>2. p[i] = a[i] /\ l[i] = a[i] /\ i \in DOMAIN l
      BY <1>2, <1>3, <1>5, <2>1, <3>1
    <3>3. QED BY <3>2
  <2>2. CASE ~(i \in 1..n) /\ i \in 1..(n + k)
    <3> DEFINE j == i - n
    <3>1. j \in 1..k /\ n + j = i
      BY <1>1, <2>2
    <3> HIDE DEF j
    <3>2. p[i] = r[j] /\ j \in DOMAIN r
      BY <1>1, <1>2, <1>5, <2>2, <3>1
    <3>3. QED BY <3>2
  <2>3. CASE ~(i \in 1..(n + k))
    <3> DEFINE j == i - (n + k)
    <3>1. j \in 1..e /\ (n + k) + j = i /\ n + j \in 1..(n + e)
      BY <1>1, <1>5, <2>3
    <3> HIDE DEF j
    <3>2. p[i] = h[j] /\ l[n + j] = h[j] /\ n + j \in DOMAIN l
      BY <1>3, <1>5, <3>1
    <3>3. QED BY <3>2
  <2>4. QED BY <2>1, <2>2, <2>3
<1>7. FromEither(p, r, l)
  BY <1>6 DEF FromEither
<1>8. QED BY <1>7, Zenon DEF p, q, l

\* Events that fill nothing join the queue, and an order may be sent.
LEMMA InsertKeeps ==
    ASSUME FundInv, FundInv', ReduceInv, ~crashed, Settled,
           UNCHANGED <<held, dispatched>>,
           NEW r, IsList(r), \A i \in DOMAIN r : r[i].k # "fill", queue' = queue \o r,
           KnownOrders', SentFirst', BusShape',
           \A o \in Orders : signals[o] \in Menu => signals'[o] = signals[o]
    PROVE  ReduceInv'
<1>1. UNCHANGED <<rows, own, other, venue, phase, fault, crashed>>
  BY DEF Settled
<1>2. Net(venue)' = Net(venue) /\ StoreNet' = StoreNet
  BY <1>1 DEF Net, StoreNet, Unapplied
<1>3. View(venue)' = View(venue)
  BY <1>1, <1>2 DEF View
<1>4. Bus /\ IsList(queue) /\ (dispatched => queue # <<>>) /\ Bus'
  BY DEF FundInv, Bus
<1>5. Base' = Base \o r
  <2>1. CASE dispatched
    <3>1. Tail(queue \o r) = Tail(queue) \o r
      BY <1>4, <2>1, TailConcat
    <3>2. Base' = Tail(queue') /\ Base = Tail(queue)
      BY <2>1 DEF Base
    <3>3. QED BY <3>1, <3>2, Zenon
  <2>2. CASE ~dispatched
    BY <2>2 DEF Base
  <2>3. QED BY <2>1, <2>2
<1>6. Pending' = (Base \o r) \o held
  BY <1>5 DEF Pending
<1>7. IsList(Base) /\ IsList(held) /\ IsList(Pending)
  BY <1>4, PendingList
<1>8. LogReduces'
  <2>1. PICK s, t : Leads(signals, Pending, s, t) /\ Stored(s)
                    /\ (phase = "running" => t = View(venue))
    BY DEF ReduceInv, LogReduces
  <2>2. Leads(signals, (Base \o r) \o held, s, t)
    <3>1. Leads(signals, Base \o held, s, t)
      BY <2>1 DEF Pending
    <3>2. QED BY <1>7, <3>1, LeadsInsert
  <2>3. Leads(signals', (Base \o r) \o held, s, t)
    BY <2>2, LeadsSame
  <2>4. Leads(signals', Pending', s, t)
    BY <1>6, <2>3, Zenon
  <2>5. Stored(s)'
    BY <1>1, <1>2, <2>1 DEF Stored
  <2>6. QED BY <1>1, <1>3, <2>1, <2>4, <2>5 DEF LogReduces
<1>9. ASSUME VenueAhead, KnownOrders PROVE VenueAhead'
  <2>1. WorksOnce(venue)' /\ Fits(venue)'
    <3>1. \A i \in DOMAIN venue.book : /\ venue.book[i].o \in Orders
                                       /\ signals'[venue.book[i].o] = signals[venue.book[i].o]
      BY <1>9 DEF VenueAhead, Known, WorksOnce, Entries
    <3>2. QED BY <1>1, <1>2, <1>9, <3>1 DEF VenueAhead, Known, WorksOnce, Fits, ReducesNet, Side
  <2>2. CountsFills(venue)' /\ Tame(venue)'
    BY <1>1, <1>9 DEF VenueAhead, Known, CountsFills
  <2>3. \A o \in BookOf(venue)' : HasRow(o)'
    BY <1>1, <1>9 DEF VenueAhead, BookOf, HasRow
  <2>4. ASSUME NEW i \in DOMAIN Pending', Pending'[i].k = "fill"
        PROVE  Record(signals', Pending'[i]) \in venue'.unapplied
    <3>4. \E j \in DOMAIN Pending : Pending[j] = Pending'[i]
      <4>1. Pending = Base \o held
        BY DEF Pending
      <4>2. FromEither((Base \o r) \o held, r, Base \o held)
        BY <1>7, InsertedIn, Zenon
      <4>3. FromEither(Pending', r, Pending)
        BY <1>6, <4>1, <4>2, Zenon
      <4>4. QED BY <2>4, <4>3 DEF FromEither
    <3>5. PICK j \in DOMAIN Pending : Pending[j] = Pending'[i]
      BY <3>4
    <3> DEFINE f == Record(signals, Pending[j])
    <3>6. f \in venue.unapplied
      BY <1>9, <2>4, <3>5 DEF VenueAhead
    <3>7. signals[Pending[j].o] \in Menu /\ Pending[j].o \in Orders
      <4>1. PICK s, t : Leads(signals, Pending, s, t)
        BY DEF ReduceInv, LogReduces
      <4>2. PICK c : \A k \in 1..Len(Pending) : Moves(signals, Pending[k], c[k - 1], c[k])
        BY <4>1 DEF Leads, Through
      <4>3. j \in 1..Len(Pending)
        BY <1>7, ListFacts
      <4>4. Moves(signals, Pending[j], c[j - 1], c[j])
        BY <4>2, <4>3
      <4>5. QED BY <2>4, <3>5, <4>4 DEF Moves
    <3>8. Record(signals', Pending'[i]) = f
      <4>1. signals'[Pending[j].o] = signals[Pending[j].o]
        BY <3>7
      <4>2. QED BY <3>5, <4>1 DEF Record
    <3>9. QED BY <1>1, <3>6, <3>8
  <2>5. QED BY <2>1, <2>2, <2>3, <2>4 DEF VenueAhead, Known
<1>10. QED BY <1>1, <1>8, <1>9 DEF ReduceInv

\* What an event more leaves of a queue.
Joined(p, a, r) ==
    /\ IsList(p)
    /\ \A i \in DOMAIN p : \/ i \in DOMAIN a /\ p[i] = a[i]
                           \/ \E j \in DOMAIN r : p[i] = r[j]
    /\ a # <<>> => p # <<>> /\ Head(p) = Head(a)

LEMMA JoinedIs ==
    ASSUME NEW a, NEW r, IsList(a), IsList(r)
    PROVE  Joined(a \o r, a, r)
<1> DEFINE p == a \o r
           n == Len(a)
           k == Len(r)
<1>1. n \in Nat /\ k \in Nat /\ DOMAIN a = 1..n /\ DOMAIN r = 1..k
  BY ListFacts
<1>2. /\ IsList(p) /\ Len(p) = n + k /\ DOMAIN p = 1..(n + k) /\ \A i \in 1..n : p[i] = a[i]
      /\ \A i \in 1..k : p[n + i] = r[i]
  BY ListConcat
<1> HIDE DEF p, n, k
<1>3. ASSUME NEW i \in DOMAIN p
      PROVE  (i \in DOMAIN a /\ p[i] = a[i]) \/ (\E j \in DOMAIN r : p[i] = r[j])
  <2>1. CASE i \in 1..n
    BY <1>1, <1>2, <2>1
  <2>2. CASE ~(i \in 1..n)
    <3> DEFINE j == i - n
    <3>1. j \in 1..k /\ n + j = i
      BY <1>1, <1>2, <2>2
    <3> HIDE DEF j
    <3>2. p[i] = r[j] /\ j \in DOMAIN r
      BY <1>1, <1>2, <3>1
    <3>3. QED BY <3>2
  <2>3. QED BY <2>1, <2>2
<1>4. ASSUME a # <<>> PROVE p # <<>> /\ Head(p) = Head(a)
  <2>1. n \in Nat \ {0} /\ Head(a) = a[1]
    BY <1>4, ListTail DEF n
  <2>2. p # <<>>
    BY <1>1, <1>2, <2>1, ListEmpty
  <2>3. Head(p) = p[1]
    BY <1>2, <2>2, ListTail
  <2>4. p[1] = a[1]
    BY <1>2, <2>1
  <2>5. QED BY <2>1, <2>2, <2>3, <2>4
<1>5. Joined(p, a, r)
  BY <1>2, <1>3, <1>4 DEF Joined
<1>6. QED BY <1>5, Zenon DEF p

LEMMA AppendJoined ==
    ASSUME NEW a, IsList(a), NEW m
    PROVE  /\ Joined(Append(a, m), a, <<m>>) /\ Append(a, m) = a \o <<m>>
           /\ IsList(<<m>>) /\ DOMAIN <<m>> = {1} /\ <<m>>[1] = m
<1>1. IsList(<<m>>) /\ DOMAIN <<m>> = {1} /\ <<m>>[1] = m /\ Append(a, m) = a \o <<m>>
  BY OneMore
<1>2. Joined(a \o <<m>>, a, <<m>>)
  BY <1>1, JoinedIs, Zenon
<1>3. QED BY <1>1, <1>2, Zenon

\* What is left when an event left the head.
LEMMA TailOf ==
    ASSUME NEW l, IsList(l), l # <<>>
    PROVE  \A i \in DOMAIN Tail(l) : i + 1 \in DOMAIN l /\ Tail(l)[i] = l[i + 1]
  BY ListTail, ListFacts

LEMMA PlacingsJoined ==
    ASSUME NEW p, NEW a, NEW r, Joined(p, a, r), NEW S, NEW T, Placings(a, S), Placings(r, T),
           \A o \in Orders : S[o] \in Menu => T[o] = S[o]
    PROVE  Placings(p, T)
  BY DEF Joined, Placings

LEMMA ReportsPlaceNothing ==
    ASSUME NEW q, Reports(q), NEW S
    PROVE  Placings(q, S)
  BY DEF Reports, Placings

LEMMA ReportsTail ==
    ASSUME NEW q, Reports(q), q # <<>>
    PROVE  Reports(Tail(q))
<1>1. IsList(Tail(q)) /\ \A i \in DOMAIN Tail(q) : i + 1 \in DOMAIN q /\ Tail(q)[i] = q[i + 1]
  BY ListTail, TailOf DEF Reports
<1>2. QED BY <1>1 DEF Reports

-----------------------------------------------------------------------------
\* Each step keeps ReduceInv.

\* The bus delivers what is held, one event after the other.
LEMMA FlushKeeps ==
    ASSUME FundInv, ReduceInv, ~crashed, FlushHeld
    PROVE  ReduceInv'
<1>1. /\ Settled /\ signals' = signals /\ bounds' = bounds /\ rows' = rows /\ kafka' = kafka
      /\ dispatched /\ dispatched' /\ held # <<>>
      /\ queue' = Append(queue, Head(held)) /\ held' = Tail(held)
  BY DEF FlushHeld, Settled, config, durable, memory, history
<1>2. IsList(queue) /\ IsList(held) /\ queue # <<>> /\ BusShape
  BY <1>1 DEF FundInv, Bus, ReduceInv
<1>3. Pending' = Pending
  <2>1. Tail(Append(queue, Head(held))) \o Tail(held) = Tail(queue) \o held
    BY <1>1, <1>2, FlushSame
  <2>2. Pending' = Tail(Append(queue, Head(held))) \o Tail(held)
    BY <1>1 DEF Pending, Base
  <2>3. Pending = Tail(queue) \o held
    BY <1>1 DEF Pending, Base
  <2>4. QED BY <2>1, <2>2, <2>3, Zenon
<1>4. BusShape'
  <2> DEFINE one == <<Head(held)>>
  <2>1. Joined(queue', queue, one) /\ DOMAIN one = {1} /\ one[1] = Head(held)
    <3>1. Joined(Append(queue, Head(held)), queue, one) /\ DOMAIN one = {1} /\ one[1] = Head(held)
      BY <1>2, AppendJoined, Zenon
    <3>2. QED BY <1>1, <3>1, Zenon
  <2>2. Head(held) = held[1] /\ 1 \in DOMAIN held
    BY <1>1, <1>2, ListTail, ListFacts
  <2> HIDE DEF one
  <2>3. Placings(one, signals)
    BY <1>2, <2>1, <2>2 DEF Placings, BusShape, Reports
  <2>4. Placings(queue, signals)
    BY <1>2 DEF BusShape, Placings
  <2>5. Placings(queue', signals)
    BY <2>1, <2>3, <2>4, PlacingsJoined
  <2>6. Reports(held')
    BY <1>1, <1>2, ReportsTail DEF BusShape
  <2>7. Head(queue') = Head(queue)
    BY <1>2, <2>1 DEF Joined
  <2>8. kafka
    BY <1>1, <1>2 DEF BusShape
  <2>9. QED BY <1>1, <1>2, <2>5, <2>6, <2>7, <2>8 DEF BusShape, Placings
<1>5. QED BY <1>1, <1>3, <1>4, StillKeeps

LEMMA CommitKeeps ==
    ASSUME FundInv, ReduceInv, ~crashed, Commit
    PROVE  ReduceInv'
<1>1. /\ Settled /\ signals' = signals /\ bounds' = bounds /\ rows' = rows /\ kafka' = kafka
      /\ dispatched /\ ~dispatched' /\ held = <<>>
      /\ queue' = Tail(queue) /\ held' = <<>>
  BY DEF Commit, Settled, config, durable, memory, history
<1>2. IsList(queue) /\ queue # <<>> /\ BusShape
  BY <1>1 DEF FundInv, Bus, ReduceInv
<1>3. Pending' = Pending
  BY <1>1 DEF Pending, Base
<1>4. BusShape'
  <2>1. \A i \in DOMAIN queue' : i + 1 \in DOMAIN queue /\ queue'[i] = queue[i + 1]
    BY <1>1, <1>2, TailOf
  <2>2. QED BY <1>1, <1>2, <2>1, NoReports DEF BusShape
<1>5. QED BY <1>1, <1>3, <1>4, StillKeeps

\* The clock and the switch touch nothing of it.
LEMMA ApartKeeps ==
    ASSUME FundInv, ReduceInv, ~crashed, Advance \/ Trip \/ Reset \/ UNCHANGED vars
    PROVE  ReduceInv'
<1>1. /\ Settled /\ signals' = signals /\ bounds'.signals = bounds.signals
      /\ UNCHANGED <<queue, held, dispatched, rows, kafka>>
  <2>1. bounds \in [signals : Nat, cancels : Nat, ticks : Nat, switches : Nat,
                    crashes : Nat, time : Nat]
    BY DEF FundInv, Clock
  <2>2. CASE Advance
    BY <2>1, <2>2 DEF Advance, Settled, config, durable, bus, memory
  <2>3. CASE Trip \/ Reset
    BY <2>1, <2>3 DEF Trip, Reset, Switches, Settled, config, bus
  <2>4. CASE UNCHANGED vars
    BY <2>4 DEF vars, Settled, config, durable, bus, memory, history
  <2>5. QED BY <2>2, <2>3, <2>4
<1>2. Pending' = Pending
  BY <1>1 DEF Pending, Base
<1>3. BusShape'
  BY <1>1 DEF ReduceInv, BusShape, Reports
<1>4. QED BY <1>1, <1>2, <1>3, StillKeeps

\* Those steps need a process that was killed.
LEMMA NeverKeeps ==
    ASSUME ReduceInv, ~crashed, Restart \/ ReconcileStartup \/ BarrierClears
    PROVE  FALSE
  BY DEF ReduceInv, Restart, ReconcileStartup, BarrierClears

\* An event that is no fill joins.
LEMMA PublishReduces ==
    ASSUME FundInv, FundInv', ReduceInv, ~crashed, Settled,
           NEW m, m.k # "fill", Publish(m), KnownOrders', SentFirst',
           m.k = "place" => m.o \in Orders /\ signals'[m.o] \in Menu,
           \A o \in Orders : signals[o] \in Menu => signals'[o] = signals[o]
    PROVE  ReduceInv'
<1> DEFINE one == <<m>>
<1>1. queue' = Append(queue, m) /\ UNCHANGED <<held, dispatched>>
  BY DEF Publish
<1>2. IsList(queue) /\ BusShape /\ UNCHANGED <<rows, kafka>> /\ (dispatched => queue # <<>>)
  BY DEF FundInv, Bus, ReduceInv, Settled
<1>3. /\ Joined(Append(queue, m), queue, one) /\ Append(queue, m) = queue \o one
      /\ IsList(one) /\ DOMAIN one = {1} /\ one[1] = m
  BY <1>2, AppendJoined, Zenon
<1> HIDE DEF one
<1>4. Joined(queue', queue, one) /\ queue' = queue \o one
  BY <1>1, <1>3, Zenon
<1>5. \A i \in DOMAIN one : one[i].k # "fill"
  BY <1>3
<1>6. BusShape'
  <2>1. Placings(one, signals')
    BY <1>3 DEF Placings
  <2>2. Placings(queue, signals)
    BY <1>2 DEF BusShape, Placings
  <2>3. Joined(queue', queue, one)
    BY <1>4
  <2>4. Placings(queue', signals')
    BY <2>1, <2>2, <2>3, PlacingsJoined
  <2>5. dispatched => Head(queue') = Head(queue)
    BY <1>2, <2>3 DEF Joined
  <2>6. QED BY <1>1, <1>2, <2>4, <2>5 DEF BusShape, Placings, Reports
<1>7. QED BY <1>1, <1>3, <1>4, <1>5, <1>6, InsertKeeps

LEMMA OrdersSame ==
    ASSUME ReduceInv, ~crashed, UNCHANGED <<signals, rows, own, other>>,
           bounds'.signals = bounds.signals
    PROVE  KnownOrders' /\ SentFirst'
  BY DEF ReduceInv, KnownOrders, SentFirst, Solid, HasRow, Sent

LEMMA BoundsAre ==
    ASSUME FundInv
    PROVE  bounds \in [signals : Nat, cancels : Nat, ticks : Nat, switches : Nat,
                       crashes : Nat, time : Nat]
  BY DEF FundInv, Clock

LEMMA PublishersReduce ==
    ASSUME FundInv, FundInv', ReduceInv, ~crashed,
           EmitCancel \/ FeedTick \/ \E o \in Orders : Ghost(o)
    PROVE  ReduceInv'
<1>1. CASE EmitCancel
  <2>1. PICK o \in Sent : Publish(CancelSignal(o))
    BY <1>1 DEF EmitCancel
  <2>2. Settled /\ signals' = signals /\ bounds'.signals = bounds.signals
    BY <1>1, BoundsAre DEF EmitCancel, Settled, config, durable, memory, history
  <2>3. KnownOrders' /\ SentFirst'
    BY <2>2, OrdersSame DEF Settled
  <2>4. QED BY <2>1, <2>2, <2>3, PublishReduces DEF CancelSignal
<1>2. CASE FeedTick
  <2>1. PICK price \in Prices : Publish(MarketTick(price))
    BY <1>2 DEF FeedTick
  <2>2. Settled /\ signals' = signals /\ bounds'.signals = bounds.signals
    BY <1>2, BoundsAre DEF FeedTick, Settled, config, durable, memory, history
  <2>3. KnownOrders' /\ SentFirst'
    BY <2>2, OrdersSame DEF Settled
  <2>4. QED BY <2>1, <2>2, <2>3, PublishReduces DEF MarketTick
<1>3. CASE \E o \in Orders : Ghost(o)
  <2>1. PICK o \in Orders : Ghost(o)
    BY <1>3
  <2>2. PICK st : Publish(StatusReport(o, st))
    BY <2>1 DEF Ghost
  <2>3. Settled /\ signals' = signals /\ bounds'.signals = bounds.signals
    BY <2>1 DEF Ghost, Settled, config, durable, memory
  <2>4. KnownOrders' /\ SentFirst'
    BY <2>3, OrdersSame DEF Settled
  <2>5. QED BY <2>2, <2>3, <2>4, PublishReduces DEF StatusReport
<1>4. QED BY <1>1, <1>2, <1>3

LEMMA MenuHasSides == NoSignal \notin Menu
<1>1. NoSignal.side = "none"
  BY DEF NoSignal
<1>2. \A signal \in Menu : signal.side \in {"buy", "sell"}
  BY PaperAssumption
<1>3. QED BY <1>1, <1>2

\* The next order is one no strategy sent.
LEMMA EmitPlaceReduces ==
    ASSUME FundInv, FundInv', ReduceInv, ~crashed, EmitPlace
    PROVE  ReduceInv'
<1>1. KnownOrders /\ SentFirst
  BY DEF ReduceInv
<1>2. PICK n \in Nat : Sent = 1..n /\ n + bounds.signals <= MostOrders
  BY <1>1 DEF SentFirst
<1>3. Cardinality(Sent) = n
  BY <1>2, FS_Interval
<1>4. PICK signal \in Menu :
         /\ bounds' = [bounds EXCEPT !.signals = @ - 1]
         /\ signals' = [signals EXCEPT ![Cardinality(Sent) + 1] = signal]
         /\ Publish(PlaceSignal(Cardinality(Sent) + 1))
  BY DEF EmitPlace
<1>5. bounds.signals \in Nat \ {0} /\ bounds'.signals = bounds.signals - 1
  BY <1>4, BoundsAre DEF EmitPlace
<1>6. n + 1 \in Orders /\ n + 1 \notin Sent /\ MostOrders \in Nat /\ Orders = 1..MostOrders
  BY <1>2, <1>5, MostIs
<1>7. DOMAIN signals = Orders /\ signals[n + 1] = NoSignal
  BY <1>1, <1>6 DEF KnownOrders, Sent
<1>8. /\ DOMAIN signals' = Orders /\ signals'[n + 1] = signal
      /\ \A o \in Orders : o # n + 1 => signals'[o] = signals[o]
  BY <1>3, <1>4, <1>6, <1>7
<1>9. signal # NoSignal /\ NoSignal \notin Menu
  BY MenuHasSides
<1>10. Sent' = 1..(n + 1)
  <2>1. Sent' = Sent \cup {n + 1}
    BY <1>6, <1>8, <1>9 DEF Sent
  <2>2. QED BY <1>2, <2>1
<1>11. SentFirst'
  <2>1. (n + 1) + bounds'.signals <= MostOrders
    BY <1>2, <1>5, <1>6
  <2>2. n + 1 \in Nat
    OBVIOUS
  <2>3. QED BY <1>10, <2>1, <2>2 DEF SentFirst
<1>12. Settled
  BY DEF EmitPlace, Settled, config, durable, memory, history
<1>13. KnownOrders'
  <2>1. UNCHANGED <<rows, own, other>>
    BY <1>12 DEF Settled
  <2>2. ASSUME NEW o \in Orders
        PROVE  /\ signals'[o] \in Menu \cup {NoSignal}
               /\ HasRow(o)' => signals'[o] \in Menu
               /\ ~HasRow(o)' => rows'[o].trades = {}
    BY <1>1, <1>8, <2>1 DEF KnownOrders, HasRow
  <2>3. QED BY <1>1, <1>8, <2>1, <2>2 DEF KnownOrders, Solid
<1>14. \A o \in Orders : signals[o] \in Menu => signals'[o] = signals[o]
  BY <1>7, <1>8, <1>9
<1> DEFINE m == PlaceSignal(n + 1)
<1>15. m.k = "place" /\ m.o = n + 1 /\ Publish(m)
  BY <1>3, <1>4 DEF PlaceSignal
<1> HIDE DEF m
<1>16. QED BY <1>6, <1>8, <1>11, <1>12, <1>13, <1>14, <1>15, PublishReduces

\* The funding loop publishes accruals.
LEMMA RunFundingReduces ==
    ASSUME FundInv, FundInv', ReduceInv, ~crashed, RunFunding
    PROVE  ReduceInv'
<1> DEFINE crossed == Boundaries(settled, now)
           r == [i \in DOMAIN crossed |-> FundingAccrual(crossed[i])]
<1>1. /\ UNCHANGED <<kafka, rows, own, other, venue, phase, fault, crashed>>
      /\ UNCHANGED <<signals, bounds, held, dispatched>>
      /\ queue' = queue \/ queue' = queue \o r
  BY DEF RunFunding, config, durable
<1>2. Settled
  BY <1>1 DEF Settled
<1>3. KnownOrders' /\ SentFirst'
  BY <1>1, <1>2, OrdersSame DEF Settled
<1>4. IsList(queue) /\ BusShape /\ UNCHANGED <<rows, kafka>> /\ (dispatched => queue # <<>>)
  BY <1>2 DEF FundInv, Bus, ReduceInv, Settled
<1>5. CASE queue' = queue
  <2>1. Pending' = Pending
    BY <1>1, <1>5 DEF Pending, Base
  <2>2. BusShape'
    BY <1>1, <1>4, <1>5 DEF BusShape, Reports
  <2>3. QED BY <1>1, <1>2, <2>1, <2>2, StillKeeps
<1>6. CASE queue' = queue \o r
  <2>1. IsList(crossed)
    <3>1. settled \in Nat /\ now \in Nat /\ settled <= now
      BY DEF FundInv, Clock
    <3>2. QED BY <3>1, BoundariesAre
  <2>2. IsList(r) /\ DOMAIN r = DOMAIN crossed
    <3>1. r = [i \in DOMAIN crossed |-> r[i]]
      OBVIOUS
    <3> HIDE DEF r, crossed
    <3>2. QED BY <2>1, <3>1, ListMapped
  <2>3. \A i \in DOMAIN r : r[i].k = "funding"
    BY DEF FundingAccrual
  <2> HIDE DEF r, crossed
  <2>4. Joined(queue \o r, queue, r)
    BY <1>4, <2>2, JoinedIs, Zenon
  <2>5. Joined(queue', queue, r)
    BY <1>6, <2>4, Zenon
  <2>6. BusShape'
    <3>1. Placings(r, signals)
      BY <2>3 DEF Placings
    <3>2. Placings(queue, signals)
      BY <1>4 DEF BusShape, Placings
    <3>3. Placings(queue', signals)
      BY <2>5, <3>1, <3>2, PlacingsJoined
    <3>4. dispatched => Head(queue') = Head(queue)
      BY <1>4, <2>5 DEF Joined
    <3>5. QED BY <1>1, <1>4, <3>3, <3>4 DEF BusShape, Placings, Reports
  <2>7. \A i \in DOMAIN r : r[i].k # "fill"
    BY <2>3
  <2>8. \A o \in Orders : signals[o] \in Menu => signals'[o] = signals[o]
    BY <1>1
  <2>9. UNCHANGED <<held, dispatched>>
    BY <1>1
  <2>10. QED BY <1>2, <1>3, <1>6, <2>2, <2>6, <2>7, <2>8, <2>9, InsertKeeps
<1>7. QED BY <1>1, <1>5, <1>6

\* The fill counts only grow along the log.
LEMMA CountsGrow ==
    ASSUME NEW S, NEW l, IsList(l), NEW c, Through(S, l, c), NEW o \in Orders
    PROVE  \A i, j \in 0..Len(l) : i <= j => c[i].count[o] <= c[j].count[o]
<1>1. Len(l) \in Nat /\ \A i \in 0..Len(l) : c[i] \in Views /\ c[i].count[o] \in Nat
  BY ListFacts DEF Through, Views
<1>2. ASSUME NEW i \in 1..Len(l) PROVE c[i - 1].count[o] <= c[i].count[o]
  <2>1. Moves(S, l[i], c[i - 1], c[i]) /\ i - 1 \in 0..Len(l) /\ i \in 0..Len(l)
    BY <1>1 DEF Through
  <2>2. CASE l[i].k = "fill"
    <3>1. /\ l[i].n = c[i - 1].count[l[i].o] + 1
          /\ c[i].count = [c[i - 1].count EXCEPT ![l[i].o] = l[i].n]
          /\ c[i - 1].count \in [Orders -> Nat]
      BY <1>1, <2>1, <2>2 DEF Moves, Views
    <3>2. CASE l[i].o = o
      BY <1>1, <2>1, <3>1, <3>2
    <3>3. CASE l[i].o # o
      BY <1>1, <2>1, <3>1, <3>3
    <3>4. QED BY <3>2, <3>3
  <2>3. CASE l[i].k # "fill"
    BY <1>1, <2>1, <2>3 DEF Moves
  <2>4. QED BY <2>2, <2>3
<1> DEFINE C == {k \in Nat : \A i \in 0..Len(l) : i + k \in 0..Len(l)
                                => c[i].count[o] <= c[i + k].count[o]}
<1>3. 0 \in C
  BY <1>1
<1>4. ASSUME NEW k \in Nat, k \in C PROVE k + 1 \in C
  <2>1. ASSUME NEW i \in 0..Len(l), i + (k + 1) \in 0..Len(l)
        PROVE  c[i].count[o] <= c[i + (k + 1)].count[o]
    <3>1. i + k \in 0..Len(l) /\ i + (k + 1) \in 1..Len(l) /\ (i + (k + 1)) - 1 = i + k
      BY <1>1, <2>1
    <3>2. c[i].count[o] <= c[i + k].count[o]
      BY <1>4, <3>1
    <3>3. c[(i + (k + 1)) - 1].count[o] <= c[i + (k + 1)].count[o]
      BY <1>2, <3>1
    <3>4. QED BY <1>1, <2>1, <3>1, <3>2, <3>3
  <2>2. QED BY <2>1
<1>5. \A k \in Nat : k \in C => k + 1 \in C
  BY <1>4
<1> HIDE DEF C
<1>6. Nat \subseteq C
  BY <1>3, <1>5, ClimbNat
<1>7. ASSUME NEW i \in 0..Len(l), NEW j \in 0..Len(l), i <= j
      PROVE  c[i].count[o] <= c[j].count[o]
  <2> DEFINE k == j - i
  <2>1. k \in Nat /\ i + k = j
    BY <1>1, <1>7
  <2> HIDE DEF k
  <2>2. k \in C
    BY <1>6, <2>1
  <2>3. QED BY <2>1, <2>2 DEF C
<1>8. QED BY <1>7

\* A fill of the log is numbered beyond what came before it, and no fill is in
\* it twice.
LEMMA FillsAreNew ==
    ASSUME NEW S, NEW l, IsList(l), NEW c, Through(S, l, c), NEW j \in 1..Len(l),
           l[j].k = "fill"
    PROVE  /\ l[j].o \in Orders /\ c[0].count[l[j].o] \in Nat
           /\ l[j].n \in Nat /\ c[0].count[l[j].o] < l[j].n
           /\ \A i \in 1..(j - 1) : ~(l[i].k = "fill" /\ l[i].o = l[j].o /\ l[i].n = l[j].n)
<1>1. Len(l) \in Nat /\ \A i \in 0..Len(l) : c[i] \in Views
  BY ListFacts DEF Through
<1>2. \A i \in 1..Len(l) : Moves(S, l[i], c[i - 1], c[i])
  BY DEF Through
<1> DEFINE o == l[j].o
<1>3. o \in Orders /\ l[j].n = c[j - 1].count[o] + 1
  BY <1>2 DEF Moves
<1>4. \A i \in 0..Len(l) : c[i].count[o] \in Nat
  BY <1>1, <1>3 DEF Views
<1>5. \A h, i \in 0..Len(l) : h <= i => c[h].count[o] <= c[i].count[o]
  BY <1>3, CountsGrow
<1>6. j - 1 \in 0..Len(l) /\ 0 \in 0..Len(l)
  BY <1>1
<1>7. c[0].count[o] <= c[j - 1].count[o]
  BY <1>5, <1>6
<1>8. ASSUME NEW i \in 1..(j - 1), l[i].k = "fill", l[i].o = o, l[i].n = l[j].n
      PROVE  FALSE
  <2>1. i \in 1..Len(l) /\ i \in 0..Len(l) /\ i <= j - 1 /\ i - 1 \in 0..Len(l)
    BY <1>1
  <2>2. Moves(S, l[i], c[i - 1], c[i])
    BY <1>2, <2>1
  <2>3. c[i].count[o] = l[i].n
    <3>1. c[i].count = [c[i - 1].count EXCEPT ![o] = l[i].n]
      BY <1>8, <2>2 DEF Moves
    <3>2. c[i - 1].count \in [Orders -> Nat]
      BY <1>1, <2>1 DEF Views
    <3>3. QED BY <1>3, <3>1, <3>2
  <2>4. c[i].count[o] <= c[j - 1].count[o]
    BY <1>5, <1>6, <2>1
  <2>5. QED BY <1>3, <1>4, <1>6, <1>8, <2>1, <2>3, <2>4
<1>9. QED BY <1>3, <1>4, <1>6, <1>7, <1>8

\* What the rows have booked is not on its way to them.
LEMMA FreshAhead ==
    ASSUME NEW S, NEW l, IsList(l), NEW s, NEW t, Leads(S, l, s, t), Stored(s)
    PROVE  \A j \in DOMAIN l : l[j].k = "fill" =>
              l[j].o \in Orders /\ l[j].n \notin rows[l[j].o].trades
<1>1. PICK c : Through(S, l, c) /\ c[0] = s
  BY DEF Leads
<1>2. ASSUME NEW j \in DOMAIN l, l[j].k = "fill"
      PROVE  l[j].o \in Orders /\ l[j].n \notin rows[l[j].o].trades
  <2>1. j \in 1..Len(l)
    BY ListFacts
  <2>2. l[j].o \in Orders /\ s.count[l[j].o] \in Nat /\ l[j].n \in Nat /\ s.count[l[j].o] < l[j].n
    BY <1>1, <1>2, <2>1, FillsAreNew
  <2>3. \A n \in rows[l[j].o].trades : n \in Nat /\ n <= s.count[l[j].o]
    BY <2>2 DEF Stored
  <2>4. QED BY <2>2, <2>3
<1>3. QED BY <1>2

\* What an event's handlers published is what the store handles last.
LEMMA DispatchShape ==
    ASSUME Bus, BusShape, ~dispatched, queue # <<>>, kafka' = kafka, signals' = signals,
           NEW out, Reports(out), Dispatch(out),
           Head(queue).k = "fill" => Head(queue).n \in rows'[Head(queue).o].trades
    PROVE  BusShape' /\ Pending' = Tail(queue) \o out
<1>1. IsList(queue) /\ IsList(out) /\ IsList(Tail(queue)) /\ held = <<>>
  BY ListTail DEF Bus, BusShape, Reports
<1> DEFINE t == Tail(queue)
           p == t \o out
<1>2. IsList(p) /\ p \o <<>> = p
  <2>1. IsList(p)
    BY <1>1, ListConcat
  <2> HIDE DEF p
  <2>2. QED BY <2>1, ConcatNothing
<1>3. CASE kafka
  <2>1. held' = out /\ dispatched' /\ queue' = queue
    BY <1>3 DEF Dispatch
  <2>2. Pending' = p
    BY <2>1 DEF Pending, Base
  <2> HIDE DEF p
  <2>3. BusShape'
    BY <1>3, <2>1 DEF BusShape
  <2>4. QED BY <2>2, <2>3 DEF p
<1>4. CASE ~kafka
  <2>1. held' = <<>> /\ ~dispatched' /\ queue' = p
    BY <1>1, <1>4 DEF Dispatch
  <2>2. Pending' = p
    <3>1. Pending' = queue' \o held'
      BY <2>1 DEF Pending, Base
    <3> HIDE DEF p
    <3>2. QED BY <1>2, <2>1, <3>1, Zenon
  <2>3. Joined(p, t, out)
    BY <1>1, JoinedIs, Zenon
  <2> HIDE DEF p
  <2>4. Placings(queue, signals)
    BY DEF BusShape, Placings
  <2>5. \A i \in DOMAIN t : i + 1 \in DOMAIN queue /\ t[i] = queue[i + 1]
    BY <1>1, TailOf
  <2> HIDE DEF t
  <2>6. Placings(t, signals)
    BY <2>4, <2>5 DEF Placings
  <2>7. Placings(out, signals)
    BY ReportsPlaceNothing
  <2>8. Placings(p, signals)
    BY <2>3, <2>6, <2>7, PlacingsJoined
  <2>9. BusShape'
    BY <1>4, <2>1, <2>8, NoReports DEF BusShape, Placings
  <2>10. QED BY <2>2, <2>9 DEF p, t
<1>5. QED BY <1>3, <1>4

\* A handler moves the rows as the event says, and the venue by what it
\* publishes.
LEMMA HandlerKeeps ==
    ASSUME FundInv, ReduceInv, ~crashed, ~dispatched, queue # <<>>, phase = "running",
           UNCHANGED <<kafka, signals, phase, fault, crashed, bounds>>,
           NEW out, Reports(out), Dispatch(out), KnownOrders',
           Head(queue).k = "fill" => Head(queue).n \in rows'[Head(queue).o].trades,
           \A s, b : s \in Views /\ Stored(s) /\ Moves(signals, Head(queue), s, b) => Stored(b)',
           Leads(signals, out, View(venue), View(venue)'),
           Known(venue)', Fits(venue)', \A o \in BookOf(venue)' : HasRow(o)',
           \A i \in DOMAIN out : out[i].k = "fill" => Record(signals, out[i]) \in venue'.unapplied,
           \A i \in DOMAIN queue : queue[i].k = "fill" =>
                Record(signals, queue[i]) \in venue'.unapplied
    PROVE  ReduceInv'
<1>1. /\ Bus /\ BusShape /\ VenueAhead /\ LogReduces /\ SentFirst
      /\ IsList(queue) /\ IsList(out) /\ IsList(Tail(queue))
      /\ held = <<>>
  BY ListTail DEF FundInv, Bus, ReduceInv, Reports, BusShape
<1>2. Pending = queue
  BY <1>1, PendingList
<1>3. BusShape' /\ Pending' = Tail(queue) \o out
  BY <1>1, DispatchShape
<1>4. PICK s, t : Leads(signals, queue, s, t) /\ Stored(s) /\ t = View(venue)
  BY <1>1, <1>2 DEF LogReduces
<1>5. PICK b : Moves(signals, Head(queue), s, b) /\ Leads(signals, Tail(queue), b, t)
  BY <1>1, <1>4, LeadsTail
<1>6. Stored(b)'
  BY <1>1, <1>4, <1>5, LeadsTyped
<1>7. Leads(signals, Tail(queue) \o out, b, View(venue)')
  <2>1. Leads(signals, Tail(queue), b, View(venue))
    BY <1>4, <1>5
  <2>2. QED BY <1>1, <2>1, LeadsConcat
<1>8. Leads(signals', Pending', b, View(venue)')
  <2>1. Leads(signals, Pending', b, View(venue)')
    BY <1>3, <1>7, Zenon
  <2>2. QED BY <2>1
<1>9. LogReduces'
  BY <1>6, <1>8 DEF LogReduces
<1>10. \A i \in DOMAIN Pending' : Pending'[i].k = "fill" =>
          Record(signals', Pending'[i]) \in venue'.unapplied
  <2> DEFINE w == Tail(queue)
  <2>1. Joined(w \o out, w, out)
    BY <1>1, JoinedIs, Zenon
  <2>2. Joined(Pending', w, out)
    BY <1>3, <2>1, Zenon
  <2>3. \A i \in DOMAIN w : i + 1 \in DOMAIN queue /\ w[i] = queue[i + 1]
    BY <1>1, TailOf
  <2> HIDE DEF w
  <2>4. QED BY <2>2, <2>3 DEF Joined, Record
<1>11. VenueAhead'
  BY <1>10 DEF VenueAhead
<1>12. SentFirst'
  BY <1>1 DEF SentFirst, Sent
<1>13. QED BY <1>3, <1>9, <1>11, <1>12 DEF ReduceInv

\* The rows' trades and the partition stand still, whatever else the rows do.
LEMMA StoredStill ==
    ASSUME SameTrades, UNCHANGED <<own, other>>, NEW m, m.k # "fill", NEW S
    PROVE  \A s, b : Stored(s) /\ Moves(S, m, s, b) => Stored(b)'
  BY DEF SameTrades, Stored, StoreNet, Moves

\* A venue that a handler leaves, once it has published.
LEMMA QuietVenue ==
    ASSUME SameTrades, UNCHANGED <<own, other, signals>>,
           NEW v, Known(v), Fits(v), venue' = v \/ venue' = [v EXCEPT !.out = <<>>]
    PROVE  /\ Known(venue)' /\ Fits(venue)' /\ View(venue)' = View(v)
           /\ BookOf(venue)' = BookOf(v) /\ venue'.unapplied = v.unapplied
<1>1. Tame(venue')
  BY QuietTame DEF Known
<1>2. venue'.book = v.book /\ venue'.count = v.count /\ venue'.unapplied = v.unapplied
  BY DEF Known, Tame
<1>3. Unapplied(venue)' = Unapplied(v)
  <2>1. \A f \in v.unapplied : f.o \in Orders
    BY DEF Known, CountsFills, Records
  <2>2. QED BY <1>2, <2>1 DEF SameTrades, Unapplied
<1>4. Net(venue)' = Net(v)
  BY <1>3 DEF Net, StoreNet
<1>5. CountsFills(venue)'
  BY <1>2 DEF Known, CountsFills, SameTrades
<1>6. WorksOnce(venue)'
  BY <1>2 DEF Known, WorksOnce
<1>7. Fits(venue)'
  BY <1>2, <1>4 DEF Fits, ReducesNet, Side
<1>8. QED BY <1>1, <1>2, <1>4, <1>5, <1>6, <1>7 DEF Known, View, BookOf

\* A process that handles an event runs.
LEMMA HandlingRuns ==
    ASSUME FundInv, ReduceInv, ~crashed, NEW kind, Handling(kind)
    PROVE  /\ phase = "running" /\ ~dispatched /\ queue # <<>> /\ Head(queue).k = kind
           /\ Solid /\ Known(venue) /\ Fits(venue) /\ venue.out = <<>>
           /\ \A o \in BookOf(venue) : HasRow(o)
           /\ KnownOrders /\ BusShape
  BY DEF FundInv, TameVenue, ReduceInv, Handling, VenueAhead, KnownOrders

\* The venue moves from u, what it was or what it forgot nothing of that counts,
\* to v, and publishes what it did.
LEMMA VenueHandlerKeeps ==
    ASSUME FundInv, ReduceInv, ~crashed, NEW kind, Handling(kind), kind # "fill",
           UNCHANGED <<kafka, signals, phase, fault, crashed, bounds, own, other>>,
           SameTrades, KnownOrders',
           NEW u, View(u) = View(venue), u.out = <<>>, Unapplied(venue) \subseteq u.unapplied,
           NEW v, Keeps(u, v), venue' = v \/ venue' = [v EXCEPT !.out = <<>>],
           \A o \in BookOf(v) : HasRow(o)',
           Dispatch(v.out)
    PROVE  ReduceInv'
<1>1. /\ phase = "running" /\ ~dispatched /\ queue # <<>> /\ Head(queue).k # "fill"
      /\ Solid /\ Known(venue) /\ BusShape
  BY HandlingRuns
<1>2. Known(v) /\ Fits(v) /\ Reports(v.out)
  BY DEF Keeps, Known, Tame
<1>3. /\ Known(venue)' /\ Fits(venue)' /\ View(venue)' = View(v)
      /\ BookOf(venue)' = BookOf(v) /\ venue'.unapplied = v.unapplied
  BY <1>2, QuietVenue
<1>4. Tells(v, View(venue))
  <2>1. View(venue) \in Views
    BY <1>1, NetInt DEF Known
  <2>2. Leads(signals, u.out, View(venue), View(u))
    <3>1. Leads(signals, <<>>, View(venue), View(venue))
      BY <2>1, ListEmpty, LeadsNone
    <3>2. QED BY <3>1
  <2>3. Tells(u, View(venue))
    BY <2>2, ListEmpty DEF Tells
  <2>4. QED BY <2>3 DEF Keeps
<1>5. Leads(signals, v.out, View(venue), View(venue)')
  BY <1>3, <1>4 DEF Tells
<1>6. \A i \in DOMAIN v.out : v.out[i].k = "fill" => Record(signals, v.out[i]) \in venue'.unapplied
  BY <1>3, <1>4 DEF Tells
<1>7. \A i \in DOMAIN queue : queue[i].k = "fill" => Record(signals, queue[i]) \in venue'.unapplied
  <2>1. Pending = queue /\ IsList(queue)
    BY <1>1, PendingList DEF FundInv, Bus, BusShape
  <2>2. PICK s, t : Leads(signals, queue, s, t) /\ Stored(s)
    BY <2>1 DEF ReduceInv, LogReduces
  <2>3. \A i \in DOMAIN queue : queue[i].k = "fill" => queue[i].n \notin rows[queue[i].o].trades
    BY <2>1, <2>2, FreshAhead
  <2>4. \A i \in DOMAIN queue : queue[i].k = "fill" => Record(signals, queue[i]) \in venue.unapplied
    BY <1>1, <2>1 DEF ReduceInv, VenueAhead
  <2>5. \A i \in DOMAIN queue : queue[i].k = "fill" => Record(signals, queue[i]) \in Unapplied(venue)
    BY <2>3, <2>4 DEF Unapplied, Record
  <2>6. u.unapplied \subseteq v.unapplied
    BY DEF Keeps
  <2>7. QED BY <1>3, <2>5, <2>6
<1>8. \A s, b : Stored(s) /\ Moves(signals, Head(queue), s, b) => Stored(b)'
  BY <1>1, StoredStill
<1>9. \A o \in BookOf(venue)' : HasRow(o)'
  BY <1>3
<1> DEFINE out == v.out
<1>10. Reports(out) /\ Dispatch(out)
  BY <1>2
<1>11. /\ Leads(signals, out, View(venue), View(venue)')
       /\ \A i \in DOMAIN out : out[i].k = "fill" => Record(signals, out[i]) \in venue'.unapplied
  BY <1>5, <1>6
<1> HIDE DEF out
<1>12. QED BY <1>1, <1>3, <1>7, <1>8, <1>9, <1>10, <1>11, HandlerKeeps

\* A handler that leaves the venue alone and publishes nothing.
LEMMA QuietHandlerKeeps ==
    ASSUME FundInv, ReduceInv, ~crashed, NEW kind, Handling(kind), kind # "fill",
           UNCHANGED <<kafka, signals, phase, fault, crashed, bounds, own, other, venue>>,
           SameTrades, KnownOrders', \A o \in Orders : HasRow(o) => HasRow(o)',
           Dispatch(<<>>)
    PROVE  ReduceInv'
<1>1. /\ Known(venue) /\ Fits(venue) /\ venue.out = <<>>
      /\ \A o \in BookOf(venue) : HasRow(o) /\ o \in Orders
  <2>1. /\ Known(venue) /\ Fits(venue) /\ venue.out = <<>>
        /\ \A o \in BookOf(venue) : HasRow(o)
    BY HandlingRuns
  <2>2. \A o \in BookOf(venue) : o \in Orders
    BY <2>1 DEF Known, WorksOnce, BookOf, Entries
  <2>3. QED BY <2>1, <2>2
<1>2. Keeps(venue, venue)
  BY <1>1 DEF Keeps
<1>3. \A o \in BookOf(venue) : HasRow(o)'
  BY <1>1
<1>4. Dispatch(venue.out)
  BY <1>1
<1>5. Unapplied(venue) \subseteq venue.unapplied
  BY DEF Unapplied
<1>6. QED BY <1>1, <1>2, <1>3, <1>4, <1>5, VenueHandlerKeeps

LEMMA PlacedReduces ==
    ASSUME FundInv, ReduceInv, ~crashed, SkipPlaced \/ Deny
    PROVE  ReduceInv'
<1>1. Handling("place") /\ Dispatch(<<>>) /\ KnownOrders /\ BusShape
  BY HandlingRuns DEF SkipPlaced, Deny
<1>2. UNCHANGED <<kafka, signals, phase, fault, crashed, bounds, own, other, venue>>
  BY DEF SkipPlaced, Deny, config, durable, memory, history
<1>3. CASE SkipPlaced
  <2>1. rows' = rows
    BY <1>3 DEF SkipPlaced, durable
  <2>2. SameTrades /\ KnownOrders' /\ \A o \in Orders : HasRow(o) => HasRow(o)'
    BY <1>1, <1>2, <2>1 DEF SameTrades, KnownOrders, Solid, HasRow
  <2>3. QED BY <1>1, <1>2, <2>2, QuietHandlerKeeps
<1>4. CASE Deny
  <2> DEFINE o == Head(queue).o
             row == NewRow(o, "DENIED")
  <2>1. rows' = [rows EXCEPT ![o] = row] /\ ~HasRow(o)
    BY <1>4 DEF Deny
  <2>2. row.trades = {} /\ row.st = "DENIED"
    BY DEF NewRow, NoRow
  <2>3. o \in Orders /\ signals[o] \in Menu
    <3>1. 1 \in DOMAIN queue /\ Head(queue) = queue[1] /\ queue[1].k = "place"
      BY <1>1, ListTail, ListFacts DEF Handling, FundInv, Bus
    <3>2. QED BY <1>1, <3>1 DEF BusShape
  <2> HIDE DEF o, row
  <2>4. rows[o].trades = {} /\ DOMAIN rows = Orders
    BY <1>1, <2>1, <2>3 DEF KnownOrders
  <2>5. \A p \in Orders : rows'[p] = IF p = o THEN row ELSE rows[p]
    BY <2>1, <2>4
  <2>6. DOMAIN rows' = Orders
    BY <2>1, <2>4
  <2>7. SameTrades /\ \A p \in Orders : HasRow(p) => HasRow(p)'
    BY <2>2, <2>4, <2>5 DEF SameTrades, HasRow
  <2>8. KnownOrders'
    BY <1>1, <1>2, <2>2, <2>3, <2>5, <2>6 DEF KnownOrders, Solid, HasRow
  <2>9. QED BY <1>1, <1>2, <2>7, <2>8, QuietHandlerKeeps
<1>5. QED BY <1>3, <1>4

LEMMA OnFundingReduces ==
    ASSUME FundInv, ReduceInv, ~crashed, OnFunding
    PROVE  ReduceInv'
<1>1. Handling("funding") /\ Dispatch(<<>>) /\ KnownOrders
  BY HandlingRuns DEF OnFunding
<1>2. UNCHANGED <<kafka, signals, phase, fault, crashed, bounds, own, other, venue, rows>>
  BY DEF OnFunding, config, memory
<1>3. SameTrades /\ KnownOrders' /\ \A o \in Orders : HasRow(o) => HasRow(o)'
  BY <1>1, <1>2 DEF SameTrades, KnownOrders, Solid, HasRow
<1>4. QED BY <1>1, <1>2, <1>3, QuietHandlerKeeps

\* A venue of the venue's own, before it steps.
LEMMA VenueSelf ==
    ASSUME FundInv, ReduceInv, ~crashed, NEW kind, Handling(kind)
    PROVE  /\ View(venue) = View(venue) /\ venue.out = <<>>
           /\ Unapplied(venue) \subseteq venue.unapplied
           /\ \A o \in BookOf(venue) : HasRow(o) /\ o \in Orders
<1>1. /\ Known(venue) /\ venue.out = <<>> /\ \A o \in BookOf(venue) : HasRow(o)
  BY HandlingRuns
<1>2. \A o \in BookOf(venue) : o \in Orders
  BY <1>1 DEF Known, WorksOnce, BookOf, Entries
<1>3. QED BY <1>1, <1>2 DEF Unapplied

LEMMA OnCancelReduces ==
    ASSUME FundInv, ReduceInv, ~crashed, OnCancel
    PROVE  ReduceInv'
<1> DEFINE o == Head(queue).o
           v == Cancel(venue, o)
<1>1. /\ Handling("cancel") /\ KnownOrders /\ Solid /\ Known(venue) /\ Fits(venue)
      /\ UNCHANGED <<kafka, signals, phase, fault, crashed, bounds, own, other>>
  BY HandlingRuns DEF OnCancel, config, history
<1>2. CASE IsOpenRow(o) /\ ~rows[o].cancel
  <2>1. /\ rows' = [rows EXCEPT ![o].cancel = TRUE]
        /\ venue' = [v EXCEPT !.out = <<>>] /\ Dispatch(v.out)
    BY <1>2 DEF OnCancel
  <2>2. Keeps(venue, v) /\ BookOf(v) \subseteq BookOf(venue)
    BY <1>1, CancelKeeps
  <2> HIDE DEF v, o
  <2>3. DOMAIN rows' = Orders
        /\ \A p \in Orders : rows'[p].trades = rows[p].trades /\ rows'[p].st = rows[p].st
    <3>1. DOMAIN rows = Orders
      BY <1>1 DEF KnownOrders
    <3>2. DOMAIN rows' = Orders
      BY <2>1, <3>1
    <3>3. ASSUME NEW p \in Orders
          PROVE  rows'[p].trades = rows[p].trades /\ rows'[p].st = rows[p].st
      <4>1. CASE p = o
        <5>1. rows'[p] = [rows[p] EXCEPT !.cancel = TRUE]
          BY <2>1, <3>1, <4>1
        <5>2. QED BY <5>1
      <4>2. CASE p # o
        BY <2>1, <3>1, <4>2
      <4>3. QED BY <4>1, <4>2
    <3>4. QED BY <3>2, <3>3
  <2>4. SameTrades /\ KnownOrders' /\ \A p \in Orders : HasRow(p) => HasRow(p)'
    BY <1>1, <2>3 DEF SameTrades, KnownOrders, Solid, HasRow
  <2>5. \A p \in BookOf(v) : HasRow(p)'
    BY <1>1, <2>2, <2>4, VenueSelf
  <2>6. QED BY <1>1, <2>1, <2>2, <2>4, <2>5, VenueSelf, VenueHandlerKeeps
<1>3. CASE ~(IsOpenRow(o) /\ ~rows[o].cancel)
  <2>1. Dispatch(<<>>) /\ UNCHANGED <<rows, venue>>
    BY <1>3 DEF OnCancel
  <2>2. SameTrades /\ KnownOrders' /\ \A p \in Orders : HasRow(p) => HasRow(p)'
    BY <1>1, <2>1 DEF SameTrades, KnownOrders, Solid, HasRow
  <2>3. QED BY <1>1, <2>1, <2>2, QuietHandlerKeeps
<1>4. QED BY <1>2, <1>3

LEMMA OnTickReduces ==
    ASSUME FundInv, ReduceInv, ~crashed, OnTick
    PROVE  ReduceInv'
<1>1. /\ Handling("tick") /\ KnownOrders /\ Solid /\ Known(venue) /\ Fits(venue)
      /\ venue.out = <<>>
      /\ UNCHANGED <<kafka, signals, phase, fault, crashed, bounds, own, other, rows>>
  BY HandlingRuns DEF OnTick, config, durable, history
<1>2. PICK missed : LET v == MatchBook(venue, Head(queue).price, missed)
                    IN  venue' = [v EXCEPT !.out = <<>>] /\ Dispatch(v.out)
  BY DEF OnTick
<1> DEFINE price == Head(queue).price
           v == MatchBook(venue, price, missed)
<1>3. venue' = [v EXCEPT !.out = <<>>] /\ Dispatch(v.out)
  BY <1>2
<1>4. PICK u : /\ Keeps(u, v) /\ BookOf(v) \subseteq BookOf(venue)
               /\ u = [venue EXCEPT !.price = price, !.unapplied = Unapplied(venue)]
  BY <1>1, MatchKeeps
<1> HIDE DEF v, price
<1>5. u.out = <<>> /\ Net(u) = Net(venue) /\ u.unapplied = Unapplied(venue) /\ u.count = venue.count
  BY <1>1, <1>4, PrunedKeeps
<1>6. View(u) = View(venue) /\ Unapplied(venue) \subseteq u.unapplied
  BY <1>5 DEF View
<1>7. SameTrades /\ KnownOrders' /\ \A p \in Orders : HasRow(p) => HasRow(p)'
  BY <1>1 DEF SameTrades, KnownOrders, Solid, HasRow
<1>8. \A p \in BookOf(v) : HasRow(p)'
  BY <1>1, <1>4, <1>7, VenueSelf
<1>9. QED BY <1>1, <1>3, <1>4, <1>5, <1>6, <1>7, <1>8, VenueHandlerKeeps

\* The order a strategy sent arrives at the venue.
LEMMA PlaceOrderReduces ==
    ASSUME FundInv, ReduceInv, ~crashed, PlaceOrder
    PROVE  ReduceInv'
<1> DEFINE o == Head(queue).o
           row == [NewRow(o, "SUBMITTED") EXCEPT !.entered = {"SUBMITTED"}]
           size == QuantizeSize(signals[o].raw)
<1>1. /\ Handling("place") /\ KnownOrders /\ Solid /\ Known(venue) /\ Fits(venue) /\ BusShape
      /\ UNCHANGED <<kafka, signals, phase, fault, crashed, bounds, own, other>>
      /\ rows' = [rows EXCEPT ![o] = row] /\ ~HasRow(o)
  BY HandlingRuns DEF PlaceOrder, config, history
<1>2. PICK missed : LET v == Place(venue, o, rows'[o].size, missed)
                    IN  venue' = [v EXCEPT !.out = <<>>] /\ Dispatch(v.out)
  BY DEF PlaceOrder
<1>3. o \in Orders /\ signals[o] \in Menu
  <2>1. 1 \in DOMAIN queue /\ Head(queue) = queue[1] /\ queue[1].k = "place"
    BY <1>1, ListTail, ListFacts DEF Handling, FundInv, Bus
  <2>2. QED BY <1>1, <2>1 DEF BusShape
<1>4. size \in Nat \ {0}
  <2>1. PICK mark \in Marks : Approves(signals[o], Reading(o, mark), tripped, approved, now)
    BY DEF PlaceOrder
  <2>2. size # 0
    BY <2>1 DEF Approves, Refused
  <2>3. signals[o].raw \in Nat
    BY <1>3, TermsAre
  <2>4. QED BY <2>2, <2>3, GuardAssumption DEF QuantizeSize
<1>5. row.trades = {} /\ row.st = "SUBMITTED" /\ row.size = size
  BY DEF NewRow, NoRow
<1> HIDE DEF o, row, size
<1>6. /\ DOMAIN rows' = Orders /\ DOMAIN rows = Orders /\ rows[o].trades = {}
      /\ \A p \in Orders : rows'[p] = IF p = o THEN row ELSE rows[p]
  BY <1>1, <1>3 DEF KnownOrders
<1> DEFINE v == Place(venue, o, size, missed)
<1>7. venue' = [v EXCEPT !.out = <<>>] /\ Dispatch(v.out)
  <2>1. rows'[o].size = size
    BY <1>3, <1>5, <1>6
  <2>2. QED BY <1>2, <2>1
<1>8. Keeps(venue, v) /\ BookOf(v) \subseteq BookOf(venue) \cup {o}
  <2>1. o \notin BookOf(venue)
    BY <1>1, VenueSelf
  <2>2. Arrives(venue, o, size)
    BY <1>1, <1>3, <1>4, <2>1 DEF Arrives
  <2>3. QED BY <2>2, PlaceKeeps
<1> HIDE DEF v
<1>9. SameTrades /\ \A p \in Orders : (HasRow(p) \/ p = o) => HasRow(p)'
  BY <1>5, <1>6 DEF SameTrades, HasRow
<1>10. KnownOrders'
  BY <1>1, <1>3, <1>5, <1>6 DEF KnownOrders, Solid, HasRow
<1>11. \A p \in BookOf(v) : HasRow(p)'
  BY <1>1, <1>3, <1>8, <1>9, VenueSelf
<1>12. QED BY <1>1, <1>7, <1>8, <1>9, <1>10, <1>11, VenueSelf, VenueHandlerKeeps

\* The run faults: what the store has not handled stays on Kafka's log, and is
\* gone with the in-memory bus.
LEMMA FaultReduces ==
    ASSUME FundInv, ReduceInv, ~crashed, NEW kind, Handling(kind), Faults
    PROVE  ReduceInv'
<1>1. /\ phase = "running" /\ ~dispatched /\ queue # <<>> /\ KnownOrders /\ BusShape
      /\ IsList(queue) /\ held = <<>>
  BY HandlingRuns DEF FundInv, Bus, BusShape
<1>2. /\ UNCHANGED <<kafka, signals, rows, own, other, bounds, crashed>>
      /\ fault' /\ phase' = "down" /\ ~dispatched' /\ held' = <<>>
      /\ queue' = IF kafka THEN queue ELSE <<>>
  BY DEF Faults, Down, config, durable
<1>3. IsList(queue')
  BY <1>1, <1>2, ListEmpty
<1>4. Pending = queue /\ Pending' = queue'
  <2>1. Pending = queue
    BY <1>1, PendingList DEF FundInv
  <2>2. Pending' = queue' \o <<>>
    BY <1>2 DEF Pending, Base
  <2>3. queue' \o <<>> = queue'
    BY <1>3, ConcatNothing
  <2>4. QED BY <2>1, <2>2, <2>3, Zenon
<1>5. BusShape'
  BY <1>1, <1>2, ListEmpty, NoReports DEF BusShape
<1>6. KnownOrders' /\ SentFirst'
  BY <1>2, OrdersSame
<1>7. LogReduces'
  <2>1. PICK s, t : Leads(signals, queue, s, t) /\ Stored(s)
    BY <1>4 DEF ReduceInv, LogReduces
  <2>2. Stored(s)'
    BY <1>2, <2>1 DEF Stored, StoreNet
  <2>3. \E b : Leads(signals, queue', s, b)
    <3>1. CASE kafka
      BY <1>2, <2>1, <3>1
    <3>2. CASE ~kafka
      <4>1. s \in Views
        BY <1>1, <2>1, LeadsTyped
      <4>2. Leads(signals, <<>>, s, s)
        BY <4>1, ListEmpty, LeadsNone
      <4>3. QED BY <1>2, <3>2, <4>2
    <3>3. QED BY <3>1, <3>2
  <2>4. QED BY <1>2, <1>4, <2>2, <2>3 DEF LogReduces
<1>8. QED BY <1>2, <1>5, <1>6, <1>7 DEF ReduceInv

LEMMA OnStatusReduces ==
    ASSUME FundInv, ReduceInv, ~crashed, OnStatus
    PROVE  ReduceInv'
<1> DEFINE m == Head(queue)
           row == rows[m.o]
<1>1. Handling("status") /\ KnownOrders
  BY HandlingRuns DEF OnStatus
<1>2. CASE IsTerminal(row) \/ SeenStatus(row, m.st)
  <2>1. /\ Dispatch(<<>>)
        /\ UNCHANGED <<kafka, signals, phase, fault, crashed, bounds, own, other, venue, rows>>
    BY <1>2 DEF OnStatus, config, durable, memory, history
  <2>2. SameTrades /\ KnownOrders' /\ \A p \in Orders : HasRow(p) => HasRow(p)'
    BY <1>1, <2>1 DEF SameTrades, KnownOrders, Solid, HasRow
  <2>3. QED BY <1>1, <2>1, <2>2, QuietHandlerKeeps
<1>3. CASE ~(IsTerminal(row) \/ SeenStatus(row, m.st)) /\ ~MayEnter(row, m.st)
  <2>1. Faults
    BY <1>3 DEF OnStatus
  <2>2. QED BY <1>1, <2>1, FaultReduces
<1>4. CASE ~(IsTerminal(row) \/ SeenStatus(row, m.st)) /\ MayEnter(row, m.st)
  <2>1. /\ Dispatch(<<>>)
        /\ UNCHANGED <<kafka, signals, phase, fault, crashed, bounds, own, other, venue>>
        /\ rows' = [rows EXCEPT ![m.o].st = m.st, ![m.o].entered = @ \cup {m.st}]
    BY <1>4 DEF OnStatus, config, memory, history
  <2>2. row.st # "none" /\ m.st # "none"
    BY <1>4 DEF MayEnter, LegalTransitions
  <2> DEFINE o == m.o
             st == m.st
  <2>3. rows' = [rows EXCEPT ![o].st = st, ![o].entered = @ \cup {st}]
    BY <2>1
  <2>4. rows[o].st # "none" /\ st # "none"
    BY <2>2
  <2> HIDE DEF o, st, m, row
  <2>5. DOMAIN rows = Orders /\ DOMAIN rows' = Orders
    BY <1>1, <2>3 DEF KnownOrders
  <2>6. ASSUME NEW p \in Orders
        PROVE  rows'[p].trades = rows[p].trades /\ (rows'[p].st = "none" <=> rows[p].st = "none")
    <3>1. CASE p # o
      BY <2>3, <2>5, <3>1
    <3>2. CASE p = o
      <4>1. rows'[p] = [[rows[p] EXCEPT !.st = st] EXCEPT !.entered = @ \cup {st}]
        BY <2>3, <2>5, <3>2
      <4>2. QED BY <2>4, <3>2, <4>1
    <3>3. QED BY <3>1, <3>2
  <2>7. SameTrades /\ KnownOrders' /\ \A p \in Orders : HasRow(p) => HasRow(p)'
    BY <1>1, <2>1, <2>5, <2>6 DEF SameTrades, KnownOrders, Solid, HasRow
  <2>8. QED BY <1>1, <2>1, <2>7, QuietHandlerKeeps
<1>5. QED BY <1>2, <1>3, <1>4

\* The fill at the head is the order's next: the venue counted it, and has it
\* among the fills the store has not applied.
LEMMA NextFill ==
    ASSUME FundInv, ReduceInv, ~crashed, Handling("fill"),
           NEW m, m = Head(queue), NEW f, f = Record(signals, m)
    PROVE  /\ m.k = "fill" /\ m.o \in Orders /\ signals[m.o] \in Menu /\ m.size \in Nat \ {0}
           /\ m.n \in Nat /\ m.n \notin rows[m.o].trades
           /\ f \in Unapplied(venue) /\ m.n <= venue.count[m.o]
           /\ f.size = Direction(Side(m.o)) * m.size /\ f.size \in Int
<1>1. /\ phase = "running" /\ ~dispatched /\ queue # <<>> /\ Head(queue).k = "fill"
      /\ Known(venue) /\ BusShape
  BY HandlingRuns
<1>2. IsList(queue) /\ Pending = queue
  BY <1>1, PendingList DEF FundInv, Bus, BusShape
<1>3. 1 \in DOMAIN queue /\ m = queue[1] /\ m.k = "fill"
  BY <1>1, <1>2, ListTail, ListFacts
<1>4. PICK s, t : Leads(signals, queue, s, t) /\ Stored(s)
  BY <1>2 DEF ReduceInv, LogReduces
<1>5. m.o \in Orders /\ m.n \notin rows[m.o].trades
  BY <1>2, <1>3, <1>4, FreshAhead
<1>6. f \in venue.unapplied
  BY <1>1, <1>2, <1>3 DEF ReduceInv, VenueAhead
<1>7. f.o = m.o /\ f.n = m.n /\ f.size = Direction(Side(m.o)) * m.size
  BY DEF Record, Side
<1>8. f \in Records /\ f.n <= venue.count[f.o]
  BY <1>1, <1>6 DEF Known, CountsFills
<1>9. signals[m.o] \in Menu /\ m.size \in Nat \ {0}
  <2>1. PICK b : Moves(signals, m, s, b)
    BY <1>1, <1>2, <1>4, LeadsTail
  <2>2. QED BY <1>3, <2>1 DEF Moves
<1>10. QED BY <1>3, <1>5, <1>6, <1>7, <1>8, <1>9 DEF Unapplied, Records

LEMMA AppliedReduces ==
    ASSUME FundInv, ReduceInv, ~crashed, Handling("fill"), NEW row, FillApplied(Head(queue), row)
    PROVE  ReduceInv'
<1> DEFINE m == Head(queue)
           f == Record(signals, m)
           o == m.o
<1>1. /\ m.k = "fill" /\ o \in Orders /\ signals[o] \in Menu /\ m.size \in Nat \ {0}
      /\ m.n \in Nat /\ m.n \notin rows[o].trades
      /\ f \in Unapplied(venue) /\ m.n <= venue.count[o]
      /\ f.size = Direction(Side(o)) * m.size /\ f.size \in Int
  BY NextFill
<1>2. /\ phase = "running" /\ ~dispatched /\ queue # <<>> /\ KnownOrders /\ BusShape
      /\ Solid /\ Known(venue) /\ Fits(venue)
      /\ \A p \in BookOf(venue) : HasRow(p)
  BY HandlingRuns
<1>3. /\ rows' = [rows EXCEPT ![o] = row]
      /\ row.st # "none" /\ row.trades = rows[o].trades \cup {m.n}
      /\ own' = own + f.size /\ venue' = venue /\ Dispatch(<<>>)
      /\ UNCHANGED <<kafka, signals, phase, fault, crashed, bounds, other>>
  BY <1>1 DEF FillApplied
<1>4. f.o = o /\ f.n = m.n
  BY DEF Record
<1>5. DOMAIN rows' = Orders /\ \A p \in Orders : rows'[p] = IF p = o THEN row ELSE rows[p]
  BY <1>1, <1>2, <1>3 DEF KnownOrders
<1>6. Solid'
  BY <1>1, <1>2, <1>3 DEF Solid
<1>7. KnownOrders'
  BY <1>1, <1>2, <1>3, <1>5, <1>6 DEF KnownOrders, HasRow
<1>8. ASSUME NEW s, NEW b, s \in Views, Stored(s), Moves(signals, m, s, b)
      PROVE  Stored(b)'
  <2>1. /\ m.n = s.count[o] + 1 /\ b.net = s.net + f.size
        /\ b.count = [s.count EXCEPT ![o] = m.n] /\ s.count \in [Orders -> Nat]
    BY <1>1, <1>8 DEF Moves, Views, Side
  <2>2. s.net = StoreNet /\ own \in Int /\ other \in Int
    BY <1>2, <1>8 DEF Stored, Solid
  <2>3. b.net = StoreNet'
    BY <1>1, <1>3, <2>1, <2>2 DEF StoreNet
  <2>4. ASSUME NEW p \in Orders, NEW n \in rows'[p].trades
        PROVE  n \in Nat /\ n <= b.count[p]
    <3>1. \A k \in rows[p].trades : k \in Nat /\ k <= s.count[p]
      BY <1>8 DEF Stored
    <3>2. CASE p # o
      BY <1>5, <2>1, <2>4, <3>1, <3>2
    <3>3. CASE p = o
      <4>1. n \in rows[p].trades \/ n = m.n
        BY <1>3, <1>5, <2>4, <3>3
      <4>2. b.count[p] = m.n /\ s.count[p] \in Nat /\ m.n = s.count[p] + 1
        BY <1>1, <2>1, <3>3
      <4>3. QED BY <1>1, <3>1, <4>1, <4>2
    <3>4. QED BY <3>2, <3>3
  <2>5. QED BY <2>3, <2>4 DEF Stored
<1>9. CountsFills(venue)
  BY <1>2 DEF Known
<1>10. Unapplied(venue)' = Unapplied(venue) \ {f}
  <2>1. \A g \in venue.unapplied : g.o = f.o /\ g.n = f.n => g = f
    BY <1>1, <1>9 DEF CountsFills, Unapplied
  <2>2. \A g \in venue.unapplied : g.o \in Orders
    BY <1>9 DEF CountsFills, Records
  <2>3. \A g \in venue.unapplied : g.n \notin rows'[g.o].trades
                                    <=> g.n \notin rows[g.o].trades /\ g # f
    BY <1>1, <1>3, <1>4, <1>5, <2>1, <2>2
  <2>4. Unapplied(venue)' = {g \in venue.unapplied : g.n \notin rows'[g.o].trades}
    BY <1>3 DEF Unapplied
  <2>5. QED BY <2>3, <2>4 DEF Unapplied
<1>11. Net(venue)' = Net(venue)
  <2> DEFINE V == Unapplied(venue) \ {f}
  <2>1. IsFiniteSet(V) /\ (\A g \in V : g.size \in Int) /\ f \notin V /\ Unapplied(venue) = V \cup {f}
    <3>1. IsFiniteSet(Unapplied(venue)) /\ \A g \in Unapplied(venue) : g.size \in Int
      BY <1>9, UnappliedIs
    <3>2. IsFiniteSet(V)
      BY <3>1, FS_Subset
    <3>3. QED BY <1>1, <3>1, <3>2
  <2> HIDE DEF V
  <2>2. Total(V \cup {f}) = Total(V) + f.size /\ Total(V) \in Int
    BY <1>1, <2>1, TotalAdd, TotalIs
  <2>3. Net(venue) = StoreNet + (Total(V) + f.size)
    <3>1. Net(venue) = StoreNet + Total(Unapplied(venue))
      BY NetIs
    <3>2. QED BY <2>1, <2>2, <3>1
  <2>4. Net(venue)' = StoreNet' + Total(V)
    <3>1. Unapplied(venue)' = V
      BY <1>10 DEF V
    <3>2. Net(venue)' = StoreNet' + SumFunction([g \in Unapplied(venue)' |-> g.size])
      BY DEF Net
    <3>3. QED BY <3>1, <3>2 DEF Total
  <2>5. StoreNet' = StoreNet + f.size /\ StoreNet \in Int
    BY <1>1, <1>2, <1>3 DEF StoreNet, Solid
  <2>6. QED BY <1>1, <2>2, <2>3, <2>4, <2>5
<1>12. View(venue)' = View(venue)
  BY <1>3, <1>11 DEF View
<1>13. Known(venue)'
  <2>1. CountsFills(venue)'
    <3>1. ASSUME NEW p \in Orders, NEW n \in rows'[p].trades
          PROVE  n \in Nat /\ n <= venue.count[p]
      <4>1. \A k \in rows[p].trades : k \in Nat /\ k <= venue.count[p]
        BY <1>9 DEF CountsFills
      <4>2. QED BY <1>1, <1>3, <1>5, <4>1
    <3>2. QED BY <1>3, <1>9, <3>1 DEF CountsFills
  <2>2. WorksOnce(venue)' /\ Tame(venue)'
    BY <1>2, <1>3 DEF Known, WorksOnce
  <2>3. QED BY <2>1, <2>2 DEF Known
<1>14. Fits(venue)' /\ \A p \in BookOf(venue)' : HasRow(p)'
  <2>1. Fits(venue)'
    BY <1>2, <1>3, <1>11 DEF Fits, ReducesNet, Side
  <2>2. \A p \in BookOf(venue) : p \in Orders
    BY <1>2 DEF Known, WorksOnce, BookOf, Entries
  <2>3. \A p \in BookOf(venue) : HasRow(p)'
    BY <1>2, <1>3, <1>5, <2>2 DEF HasRow
  <2>4. QED BY <1>3, <2>1, <2>3 DEF BookOf
<1>15. \A i \in DOMAIN queue : queue[i].k = "fill" => Record(signals, queue[i]) \in venue'.unapplied
  <2>1. Pending = queue
    BY <1>2, PendingList DEF FundInv, Bus, BusShape
  <2>2. QED BY <1>2, <1>3, <2>1 DEF ReduceInv, VenueAhead
<1> DEFINE out == <<>>
<1>16. /\ Reports(out) /\ Dispatch(out) /\ \A i \in DOMAIN out : FALSE
       /\ Leads(signals, out, View(venue), View(venue)')
  <2>1. View(venue) \in Views
    BY <1>2, <1>9, NetInt
  <2>2. Leads(signals, <<>>, View(venue), View(venue))
    BY <2>1, ListEmpty, LeadsNone
  <2>3. QED BY <1>3, <1>12, <2>2, NoReports, ListEmpty
<1>17. Head(queue).n \in rows'[Head(queue).o].trades
  BY <1>1, <1>3, <1>5
<1>18. /\ \A i \in DOMAIN out : out[i].k = "fill" => Record(signals, out[i]) \in venue'.unapplied
       /\ UNCHANGED <<kafka, signals, phase, fault, crashed, bounds>>
       /\ \A s, b : s \in Views /\ Stored(s) /\ Moves(signals, Head(queue), s, b) => Stored(b)'
  BY <1>3, <1>8, <1>16
<1> HIDE DEF out, m, f, o
<1>19. QED BY <1>2, <1>7, <1>13, <1>14, <1>15, <1>16, <1>17, <1>18, HandlerKeeps

LEMMA OnFillReduces ==
    ASSUME FundInv, ReduceInv, ~crashed, OnFill
    PROVE  ReduceInv'
<1> DEFINE m == Head(queue)
           row == rows[m.o]
           reached == IF row.cum + m.size >= row.size THEN "FILLED" ELSE "PARTIALLY_FILLED"
           next == [row EXCEPT !.st = reached, !.cum = @ + m.size, !.trades = @ \cup {m.n}]
<1>1. Handling("fill")
  BY DEF OnFill
<1>2. /\ m.n \notin rows[m.o].trades /\ m.n \in Nat
      /\ m.n <= venue.count[m.o]
  BY <1>1, NextFill
<1>3. CASE m.size = 0 \/ ~MayEnter(row, reached)
  <2>1. Faults
    BY <1>2, <1>3 DEF OnFill
  <2>2. QED BY <1>1, <2>1, FaultReduces
<1>4. CASE ~(m.size = 0 \/ ~MayEnter(row, reached))
  <2>1. /\ venue' = OnFillReport(venue, m) /\ rows' = [rows EXCEPT ![m.o] = next]
        /\ own' = own + Direction(Side(m.o)) * m.size /\ Dispatch(<<>>)
        /\ UNCHANGED <<kafka, signals, phase, fault, crashed, bounds, other>>
    BY <1>2, <1>4 DEF OnFill, config, history
  <2>2. venue' = venue
    BY <1>2, <2>1 DEF OnFillReport
  <2>3. next.st = reached /\ next.trades = rows[m.o].trades \cup {m.n}
    OBVIOUS
  <2>4. reached \in {"FILLED", "PARTIALLY_FILLED"}
    OBVIOUS
  <2> HIDE DEF next, reached
  <2>5. FillApplied(m, next)
    BY <2>1, <2>2, <2>3, <2>4 DEF FillApplied
  <2>6. QED BY <1>1, <2>5, AppliedReduces
<1>5. QED BY <1>3, <1>4

LEMMA ReduceStep == FundInv /\ FundInv' /\ ReduceInv /\ [Next]_vars => ReduceInv'
<1> SUFFICES ASSUME FundInv, FundInv', ReduceInv, [Next]_vars, ~crashed' PROVE ReduceInv'
  BY DEF ReduceInv
<1>1. CASE Crash \/ CrashInSwitch \/ CrashInPlace
  BY <1>1 DEF Crash, CrashInSwitch, CrashInPlace, Crashes
<1>2. CASE ~(Crash \/ CrashInSwitch \/ CrashInPlace)
  <2>1. crashed' = crashed
    <3>1. CASE UNCHANGED vars
      BY <3>1 DEF vars, history
    <3>2. CASE FlushHeld \/ Commit \/ Restart \/ ReconcileStartup \/ BarrierClears
      BY <3>2 DEF FlushHeld, Commit, Restart, ReconcileStartup, BarrierClears, history
    <3>3. CASE Advance \/ RunFunding \/ EmitPlace \/ EmitCancel \/ FeedTick \/ Trip \/ Reset
      BY <3>3 DEF Advance, RunFunding, EmitPlace, EmitCancel, FeedTick, Trip, Reset, history
    <3>4. CASE SkipPlaced \/ Deny \/ PlaceOrder \/ OnCancel \/ OnTick \/ OnFunding
      BY <3>4 DEF SkipPlaced, Deny, PlaceOrder, OnCancel, OnTick, OnFunding, history
    <3>5. CASE OnFill \/ OnStatus
      BY <3>5 DEF OnFill, OnStatus, Faults, history
    <3>6. CASE \E o \in Orders : Ghost(o)
      BY <3>6 DEF Ghost
    <3>7. QED BY <1>2, <3>1, <3>2, <3>3, <3>4, <3>5, <3>6 DEF Next
  <2>2. ~crashed
    BY <2>1
  <2>3. CASE UNCHANGED vars \/ Advance \/ Trip \/ Reset
    BY <2>2, <2>3, ApartKeeps
  <2>4. CASE FlushHeld
    BY <2>2, <2>4, FlushKeeps
  <2>5. CASE Commit
    BY <2>2, <2>5, CommitKeeps
  <2>6. CASE Restart \/ ReconcileStartup \/ BarrierClears
    BY <2>2, <2>6, NeverKeeps
  <2>7. CASE RunFunding
    BY <2>2, <2>7, RunFundingReduces
  <2>8. CASE EmitPlace
    BY <2>2, <2>8, EmitPlaceReduces
  <2>9. CASE EmitCancel \/ FeedTick \/ \E o \in Orders : Ghost(o)
    BY <2>2, <2>9, PublishersReduce
  <2>10. CASE SkipPlaced \/ Deny
    BY <2>2, <2>10, PlacedReduces
  <2>11. CASE PlaceOrder
    BY <2>2, <2>11, PlaceOrderReduces
  <2>12. CASE OnCancel
    BY <2>2, <2>12, OnCancelReduces
  <2>13. CASE OnTick
    BY <2>2, <2>13, OnTickReduces
  <2>14. CASE OnFill
    BY <2>2, <2>14, OnFillReduces
  <2>15. CASE OnStatus
    BY <2>2, <2>15, OnStatusReduces
  <2>16. CASE OnFunding
    BY <2>2, <2>16, OnFundingReduces
  <2>17. QED BY <1>2, <2>3, <2>4, <2>5, <2>6, <2>7, <2>8, <2>9, <2>10, <2>11, <2>12, <2>13,
                <2>14, <2>15, <2>16 DEF Next
<1>3. QED BY <1>1, <1>2

LEMMA ReduceInvHolds == Spec => []ReduceInv
<1>1. Init => ReduceInv
  BY ReduceInitially
<1>2. FundInv /\ FundInv' /\ ReduceInv /\ [Next]_vars => ReduceInv'
  BY ReduceStep
<1>3. QED BY <1>1, <1>2, FundInvHolds, PTL DEF Spec

-----------------------------------------------------------------------------
\* A running total exists, of however many terms.
Tallies(w, first, add, n) == w = [i \in 0..n |-> IF i = 0 THEN first ELSE w[i - 1] + add[i]]

LEMMA TallyExists ==
    ASSUME NEW first, NEW add, NEW n \in Nat
    PROVE  \E w : Tallies(w, first, add, n)
<1> DEFINE C == {k \in Nat : \E w : Tallies(w, first, add, k)}
<1>1. 0 \in C
  <2> DEFINE w == [i \in 0..0 |-> first]
  <2>1. Tallies(w, first, add, 0)
    BY DEF Tallies
  <2>2. QED BY <2>1
<1>2. ASSUME NEW k \in Nat, k \in C PROVE k + 1 \in C
  <2>1. PICK w : Tallies(w, first, add, k)
    BY <1>2
  <2> DEFINE last == w[k] + add[k + 1]
             u == [i \in 0..(k + 1) |-> IF i = k + 1 THEN last ELSE w[i]]
  <2>2. \A i \in 0..k : u[i] = w[i] /\ w[i] = IF i = 0 THEN first ELSE w[i - 1] + add[i]
    <3>1. w = [i \in 0..k |-> IF i = 0 THEN first ELSE w[i - 1] + add[i]]
      BY <2>1 DEF Tallies
    <3>2. \A i \in 0..k : w[i] = IF i = 0 THEN first ELSE w[i - 1] + add[i]
      BY <3>1
    <3>3. QED BY <3>2
  <2>3. u[k + 1] = last /\ u = [i \in 0..(k + 1) |-> u[i]]
    OBVIOUS
  <2> HIDE DEF u
  <2>4. ASSUME NEW i \in 0..(k + 1)
        PROVE  u[i] = IF i = 0 THEN first ELSE u[i - 1] + add[i]
    <3>1. CASE i \in 0..k
      <4>1. i # 0 => i - 1 \in 0..k
        BY <3>1
      <4>2. QED BY <2>2, <3>1, <4>1
    <3>2. CASE i = k + 1
      <4>1. i - 1 = k /\ k \in 0..k /\ i # 0
        BY <3>2
      <4>2. u[k] = w[k]
        BY <2>2, <4>1
      <4>3. QED BY <2>3, <3>2, <4>1, <4>2
    <3>3. QED BY <3>1, <3>2
  <2>5. Tallies(u, first, add, k + 1)
    BY <2>3, <2>4 DEF Tallies
  <2>6. QED BY <2>5
<1>3. \A k \in Nat : k \in C => k + 1 \in C
  BY <1>2
<1> HIDE DEF C
<1>4. n \in C
  BY <1>1, <1>3, ClimbNat
<1>5. QED BY <1>4 DEF C

LEMMA NetAfterIs ==
    ASSUME Len(Log) \in Nat
    PROVE  /\ NetAfter[0] = StoreNet
           /\ \A i \in 1..Len(Log) :
                 NetAfter[i] = NetAfter[i - 1] + (IF IsAhead(i) THEN Signed(Log[i]) ELSE 0)
<1> DEFINE add == [i \in 1..Len(Log) |-> IF IsAhead(i) THEN Signed(Log[i]) ELSE 0]
           n == Len(Log)
           IsNet(w) == w = [i \in 0..n |-> IF i = 0 THEN StoreNet
                                          ELSE w[i - 1] + (IF IsAhead(i) THEN Signed(Log[i]) ELSE 0)]
<1>1. PICK w : Tallies(w, StoreNet, add, n)
  BY TallyExists
<1>2. IsNet(w)
  <2>1. \A i \in 0..n : (IF i = 0 THEN StoreNet ELSE w[i - 1] + add[i])
           = (IF i = 0 THEN StoreNet ELSE w[i - 1] + (IF IsAhead(i) THEN Signed(Log[i]) ELSE 0))
    <3>1. \A i \in 0..n : i # 0 => i \in 1..n
      OBVIOUS
    <3>2. QED BY <3>1
  <2>2. QED BY <1>1, <2>1 DEF Tallies
<1>3. NetAfter = CHOOSE x : IsNet(x)
  BY DEF NetAfter
<1>4. IsNet(NetAfter)
  BY <1>2, <1>3
<1>5. \A i \in 0..n : NetAfter[i] = IF i = 0 THEN StoreNet
          ELSE NetAfter[i - 1] + (IF IsAhead(i) THEN Signed(Log[i]) ELSE 0)
  BY <1>4
<1>6. 0 \in 0..n /\ \A i \in 1..n : i \in 0..n /\ i # 0
  OBVIOUS
<1>7. QED BY <1>5, <1>6

\* The log is what is pending, after the dispatched record if there is one.
LEMMA LogIsPending ==
    ASSUME FundInv, ReduceInv, ~crashed
    PROVE  \E d \in {0, 1} :
              /\ IsList(Log) /\ Len(Log) = Len(Pending) + d
              /\ \A i \in 1..Len(Pending) : Log[i + d] = Pending[i]
              /\ d = 1 /\ Log[1].k = "fill" => Log[1].n \in rows[Log[1].o].trades
<1>1. IsList(queue) /\ IsList(held) /\ BusShape /\ (dispatched => queue # <<>>) /\ Bus
  BY DEF FundInv, Bus, ReduceInv
<1>2. IsList(Log)
  BY <1>1, ListConcat DEF Log
<1>3. CASE ~dispatched
  <2>1. Log = Pending
    BY <1>3 DEF Log, Pending, Base
  <2>2. IsList(Pending) /\ Len(Pending) \in Nat
    BY <1>1, PendingList, ListFacts
  <2>3. Len(Log) = Len(Pending) + 0 /\ \A i \in 1..Len(Pending) : Log[i + 0] = Pending[i]
    BY <2>1, <2>2
  <2>4. QED BY <1>2, <2>3
<1>4. CASE dispatched
  <2>1. Pending = Tail(Log)
    <3>1. Tail(queue \o held) = Tail(queue) \o held
      BY <1>1, <1>4, TailConcat
    <3>2. Pending = Tail(queue) \o held
      BY <1>4 DEF Pending, Base
    <3>3. QED BY <3>1, <3>2, Zenon DEF Log
  <2>2. Log # <<>> /\ Head(Log) = Head(queue)
    <3>1. Joined(queue \o held, queue, held)
      BY <1>1, JoinedIs, Zenon
    <3>2. Joined(Log, queue, held)
      BY <3>1, Zenon DEF Log
    <3>3. QED BY <1>1, <1>4, <3>2 DEF Joined
  <2>3. /\ Len(Log) \in Nat \ {0} /\ Len(Tail(Log)) = Len(Log) - 1 /\ Head(Log) = Log[1]
        /\ \A i \in 1..(Len(Log) - 1) : Tail(Log)[i] = Log[i + 1]
    BY <1>2, <2>2, ListTail
  <2>4. /\ Len(Log) = Len(Pending) + 1 /\ \A i \in 1..Len(Pending) : Log[i + 1] = Pending[i]
    <3>1. Len(Pending) = Len(Log) - 1 /\ \A i \in 1..(Len(Log) - 1) : Pending[i] = Log[i + 1]
      BY <2>1, <2>3, Zenon
    <3>2. QED BY <2>3, <3>1
  <2>5. Log[1].k = "fill" => Log[1].n \in rows[Log[1].o].trades
    BY <1>1, <1>4, <2>2, <2>3 DEF BusShape
  <2>6. QED BY <1>2, <2>4, <2>5
<1>5. QED BY <1>3, <1>4

\* The nets of the log are those the venue's view goes through.
LEMMA LogNets ==
    ASSUME FundInv, ReduceInv, ~crashed,
           NEW s, NEW t, Leads(signals, Pending, s, t), Stored(s)
    PROVE  \E d \in {0, 1} : \E c :
              /\ Through(signals, Pending, c) /\ c[0] = s /\ c[Len(Pending)] = t
              /\ Len(Log) = Len(Pending) + d /\ (d = 1 => ~IsAhead(1))
              /\ \A j \in 1..Len(Pending) : /\ Log[j + d] = Pending[j]
                                            /\ IsAhead(j + d) <=> Pending[j].k = "fill"
              /\ \A k \in 0..Len(Pending) : NetAfter[k + d] = c[k].net
<1>1. PICK d \in {0, 1} :
         /\ IsList(Log) /\ Len(Log) = Len(Pending) + d
         /\ \A j \in 1..Len(Pending) : Log[j + d] = Pending[j]
         /\ d = 1 /\ Log[1].k = "fill" => Log[1].n \in rows[Log[1].o].trades
  BY LogIsPending
<1>2. IsList(Pending) /\ Len(Pending) \in Nat /\ Len(Log) \in Nat /\ Solid
  BY <1>1, PendingList, ListFacts DEF FundInv, ReduceInv, KnownOrders
<1>3. Leads(signals, Pending, s, t) /\ Stored(s)
  OBVIOUS
<1>4. PICK c : Through(signals, Pending, c) /\ c[0] = s /\ c[Len(Pending)] = t
  BY <1>3 DEF Leads
<1> DEFINE n == Len(Pending)
           p == Pending
<1>5. /\ \A j \in 0..n : c[j] \in Views
      /\ \A j \in 1..n : Moves(signals, p[j], c[j - 1], c[j])
  BY <1>4 DEF Through
<1>6. \A j \in 1..n : j + d \in 1..Len(Log) /\ (j + d) - 1 = (j - 1) + d
  BY <1>1, <1>2
<1>7. ASSUME NEW j \in 1..n PROVE IsAhead(j + d) <=> p[j].k = "fill"
  <2>1. Log[j + d] = p[j]
    BY <1>1
  <2>2. ASSUME p[j].k = "fill" PROVE IsAhead(j + d)
    <3>1. p[j].n \notin rows[p[j].o].trades
      <4>1. j \in DOMAIN p
        BY <1>2, ListFacts
      <4>2. QED BY <1>2, <1>3, <2>2, <4>1, FreshAhead
    <3>2. \A h \in 1..(j - 1) : ~(p[h].k = "fill" /\ p[h].o = p[j].o /\ p[h].n = p[j].n)
      BY <1>2, <1>4, <2>2, FillsAreNew
    <3>3. ASSUME NEW h \in 1..((j + d) - 1),
                 Log[h].k = "fill", Log[h].o = p[j].o, Log[h].n = p[j].n
          PROVE  FALSE
      <4>1. CASE d = 1 /\ h = 1
        BY <1>1, <3>1, <3>3, <4>1
      <4>2. CASE ~(d = 1 /\ h = 1)
        <5> DEFINE e == h - d
        <5>1. e \in 1..(j - 1) /\ e \in 1..n /\ e + d = h
          BY <1>2, <4>2
        <5> HIDE DEF e
        <5>2. Log[h] = p[e]
          BY <1>1, <5>1
        <5>3. QED BY <3>2, <3>3, <5>1, <5>2
      <4>3. QED BY <4>1, <4>2
    <3>4. QED BY <2>1, <2>2, <3>1, <3>3 DEF IsAhead
  <2>3. IsAhead(j + d) => p[j].k = "fill"
    BY <2>1 DEF IsAhead
  <2>4. QED BY <2>2, <2>3
<1>8. /\ NetAfter[0] = StoreNet
      /\ \A j \in 1..Len(Log) :
            NetAfter[j] = NetAfter[j - 1] + (IF IsAhead(j) THEN Signed(Log[j]) ELSE 0)
  BY <1>2, NetAfterIs
<1>9. d = 1 => ~IsAhead(1)
  BY <1>1 DEF IsAhead
<1>10. StoreNet \in Int
  BY <1>2 DEF Solid, StoreNet
<1> DEFINE C == {k \in Nat : k <= n => NetAfter[k + d] = c[k].net}
<1>11. 0 \in C
  <2>1. c[0].net = StoreNet
    BY <1>3, <1>4 DEF Stored
  <2>2. NetAfter[d] = StoreNet
    <3>1. CASE d = 0
      BY <1>8, <3>1
    <3>2. CASE d = 1
      <4>1. 1 \in 1..Len(Log) /\ 1 - 1 = 0
        BY <1>1, <1>2, <3>2
      <4>2. NetAfter[1] = NetAfter[0] + 0
        BY <1>8, <1>9, <3>2, <4>1
      <4>3. QED BY <1>8, <1>10, <3>2, <4>2
    <3>3. QED BY <3>1, <3>2
  <2>3. 0 + d = d
    OBVIOUS
  <2>4. QED BY <2>1, <2>2, <2>3
<1>12. ASSUME NEW k \in Nat, k \in C PROVE k + 1 \in C
  <2> SUFFICES ASSUME k + 1 <= n PROVE NetAfter[(k + 1) + d] = c[k + 1].net
    OBVIOUS
  <2> DEFINE j == k + 1
  <2>1. j \in 1..n /\ k \in 0..n /\ j \in 0..n /\ j - 1 = k /\ (j + d) - 1 = k + d /\ k <= n
    BY <1>2
  <2>2. NetAfter[k + d] = c[k].net
    BY <1>12, <2>1
  <2> HIDE DEF j
  <2>3. j + d \in 1..Len(Log) /\ Log[j + d] = p[j]
    BY <1>1, <1>6, <2>1
  <2>4. NetAfter[j + d] = NetAfter[k + d] + (IF IsAhead(j + d) THEN Signed(p[j]) ELSE 0)
    BY <1>8, <2>1, <2>3
  <2>5. Moves(signals, p[j], c[k], c[j]) /\ c[k].net \in Int
    BY <1>5, <2>1 DEF Views
  <2>6. CASE p[j].k = "fill"
    <3>1. c[j].net = c[k].net + Signed(p[j])
      BY <2>5, <2>6 DEF Moves, Signed, Side
    <3>2. IsAhead(j + d)
      BY <1>7, <2>1, <2>6
    <3>3. QED BY <2>2, <2>4, <3>1, <3>2 DEF j
  <2>7. CASE p[j].k # "fill"
    <3>1. c[j] = c[k]
      BY <2>5, <2>7 DEF Moves
    <3>2. ~IsAhead(j + d)
      BY <1>7, <2>1, <2>7
    <3>3. NetAfter[j + d] = c[j].net
      BY <2>2, <2>4, <2>5, <3>1, <3>2
    <3>4. QED BY <3>3 DEF j
  <2>8. QED BY <2>6, <2>7
<1>13. \A k \in Nat : k \in C => k + 1 \in C
  BY <1>12
<1> HIDE DEF C
<1>14. Nat \subseteq C
  BY <1>11, <1>13, ClimbNat
<1>15. \A k \in 0..n : NetAfter[k + d] = c[k].net
  BY <1>2, <1>14 DEF C
<1> HIDE DEF n, p
<1>16. QED BY <1>1, <1>4, <1>7, <1>9, <1>15 DEF n, p

LEMMA ReducesAhead ==
    ASSUME FundInv, ReduceInv
    PROVE  ReduceOnlyReduces
<1> SUFFICES ASSUME ~crashed,
                    NEW i \in 1..Len(Log), IsAhead(i), signals[Log[i].o].reduceOnly
             PROVE  Shrinks(NetAfter[i - 1], NetAfter[i])
  BY DEF ReduceOnlyReduces, Undisturbed
<1>1. PICK s, t : Leads(signals, Pending, s, t) /\ Stored(s)
  BY DEF ReduceInv, LogReduces
<1>d. PICK d \in {0, 1} : \E c :
            /\ Through(signals, Pending, c) /\ c[0] = s /\ c[Len(Pending)] = t
            /\ Len(Log) = Len(Pending) + d /\ (d = 1 => ~IsAhead(1))
            /\ \A j \in 1..Len(Pending) : /\ Log[j + d] = Pending[j]
                                          /\ IsAhead(j + d) <=> Pending[j].k = "fill"
            /\ \A k \in 0..Len(Pending) : NetAfter[k + d] = c[k].net
  BY <1>1, LogNets
<1>2. PICK c :
         /\ Through(signals, Pending, c) /\ c[0] = s /\ c[Len(Pending)] = t
         /\ Len(Log) = Len(Pending) + d /\ (d = 1 => ~IsAhead(1))
         /\ \A j \in 1..Len(Pending) : /\ Log[j + d] = Pending[j]
                                       /\ IsAhead(j + d) <=> Pending[j].k = "fill"
         /\ \A k \in 0..Len(Pending) : NetAfter[k + d] = c[k].net
  BY <1>d
<1>3. Len(Pending) \in Nat
  BY PendingList, ListFacts DEF FundInv
<1> DEFINE j == i - d
<1>4. j \in 1..Len(Pending) /\ j + d = i
  BY <1>2, <1>3
<1>5. j \in 0..Len(Pending) /\ j - 1 \in 0..Len(Pending) /\ (j - 1) + d = i - 1
  BY <1>3, <1>4
<1> HIDE DEF j
<1>6. Pending[j].k = "fill" /\ Log[i] = Pending[j]
  BY <1>2, <1>4
<1>7. NetAfter[i] = c[j].net /\ NetAfter[i - 1] = c[j - 1].net
  BY <1>2, <1>4, <1>5
<1>8. Moves(signals, Pending[j], c[j - 1], c[j])
  BY <1>2, <1>4 DEF Through
<1>9. QED BY <1>6, <1>7, <1>8 DEF Moves

\* While no process is killed a fill of a reduce-only order, in the order the
\* store handles them, shrinks the account net and never crosses zero, whatever
\* other orders' fills are on their way: the venue sizes a reduce-only order by
\* the net that holds once all it published is applied.
THEOREM ReduceOnlyAlwaysReduces == Spec => []ReduceOnlyReduces
<1>1. FundInv /\ ReduceInv => ReduceOnlyReduces
  BY ReducesAhead
<1>2. QED BY <1>1, FundInvHolds, ReduceInvHolds, PTL

-----------------------------------------------------------------------------
\* What an order's row has open is what the venue still works of it, and what it
\* filled and the store has not applied; and the worst of all of it is within the
\* cap.  RowsInv is the invariant, one order at a time.

LEMMA InARowIs ==
    ASSUME NEW l, NEW m, IsList(l), IsList(m)
    PROVE  InARow(l, m, l \o m) /\ IsList(l \o m)
<1> DEFINE p == l \o m
<1>1. /\ Len(l) \in Nat /\ Len(m) \in Nat /\ DOMAIN l = 1..Len(l) /\ DOMAIN m = 1..Len(m)
  BY ListFacts
<1>2. /\ DOMAIN p = 1..(Len(l) + Len(m))
      /\ \A i \in 1..Len(l) : p[i] = l[i]
      /\ \A j \in 1..Len(m) : p[Len(l) + j] = m[j]
      /\ IsList(p)
  BY ListConcat
<1> HIDE DEF p
<1>3. ASSUME NEW i \in 1..(Len(l) + Len(m)), ~(i \in 1..Len(l))
      PROVE  \E j \in 1..Len(m) : i = Len(l) + j
  <2>1. i - Len(l) \in 1..Len(m) /\ i = Len(l) + (i - Len(l))
    BY <1>1, <1>3
  <2>2. QED BY <2>1
<1> DEFINE a == Len(l)
           b == Len(m)
<1> HIDE DEF a, b
<1>4. a \in Nat /\ b \in Nat
  BY <1>1 DEF a, b
<1>5. 1..a \subseteq 1..(a + b) /\ \A j \in 1..b : a + j \in 1..(a + b)
  BY <1>4
<1>6. 1..(a + b) \subseteq Nat /\ 1..b \subseteq Nat \ {0}
  BY <1>4
<1>7. InARow(l, m, p)
  BY <1>1, <1>2, <1>3, <1>5, <1>6, Zenon DEF a, b, InARow
<1>8. QED BY <1>2, <1>7, Zenon DEF p

\* What two lists in a row say of an order.
LEMMA VoiceConcat ==
    ASSUME NEW l, NEW m, NEW p, InARow(l, m, p), NEW o
    PROVE  /\ Said(p, o) <=> Said(l, o) \/ Said(m, o)
           /\ Ended(p, o) <=> Ended(l, o) \/ Ended(m, o)
           /\ Begun(p, o) <=> Begun(l, o) \/ Begun(m, o)
           /\ \A f : Carries(p, f) <=> Carries(l, f) \/ Carries(m, f)
<1> DEFINE a == Len(l)
<1>1. /\ DOMAIN l \subseteq DOMAIN p
      /\ \A i \in DOMAIN l : p[i] = l[i]
      /\ \A j \in DOMAIN m : a + j \in DOMAIN p /\ p[a + j] = m[j]
      /\ \A i \in DOMAIN p : i \in DOMAIN l \/ \E j \in DOMAIN m : i = a + j
  BY Zenon DEF InARow
<1> HIDE DEF a
<1>2. Said(p, o) <=> Said(l, o) \/ Said(m, o)
  BY <1>1, Zenon DEF Said
<1>3. Ended(p, o) <=> Ended(l, o) \/ Ended(m, o)
  BY <1>1, Zenon DEF Ended
<1>4. Begun(p, o) <=> Begun(l, o) \/ Begun(m, o)
  BY <1>1, Zenon DEF Begun
<1>5. ASSUME NEW f PROVE Carries(p, f) <=> Carries(l, f) \/ Carries(m, f)
  <2> DEFINE Has(n) == n.k = "fill" /\ Record(signals, n) = f
  <2>1. \A q : Carries(q, f) <=> \E i \in DOMAIN q : Has(q[i])
    BY DEF Carries
  <2> HIDE DEF Has
  <2>2. (\E i \in DOMAIN p : Has(p[i])) <=> (\E i \in DOMAIN l : Has(l[i])) \/ (\E i \in DOMAIN m : Has(m[i]))
    BY <1>1, Zenon
  <2>3. QED BY <2>1, <2>2
<1>6. QED BY <1>2, <1>3, <1>4, <1>5

LEMMA ClearConcat ==
    ASSUME NEW l, NEW m, NEW p, InARow(l, m, p), NEW o
    PROVE  Clear(p, o) <=> /\ Clear(l, o) /\ Clear(m, o)
                           /\ Ended(l, o) => ~Said(m, o)
                           /\ Begun(m, o) => ~Said(l, o)
<1> DEFINE a == Len(l)
<1>1. /\ DOMAIN l \subseteq DOMAIN p
      /\ \A i \in DOMAIN l : p[i] = l[i]
      /\ \A j \in DOMAIN m : a + j \in DOMAIN p /\ p[a + j] = m[j]
      /\ \A i \in DOMAIN p : i \in DOMAIN l \/ \E j \in DOMAIN m : i = a + j
      /\ a \in Nat /\ DOMAIN l = 1..a /\ DOMAIN m \subseteq Nat \ {0}
  BY Zenon DEF InARow
<1> HIDE DEF a
<1>2. \A n : Ends(n, o) \/ Begins(n, o) => ReportOf(n, o)
  BY DEF Ends, Begins, ReportOf
<1>3. ASSUME Clear(p, o)
      PROVE  Clear(l, o) /\ Clear(m, o) /\ (Ended(l, o) => ~Said(m, o))
             /\ (Begun(m, o) => ~Said(l, o))
  <2>1. Clear(l, o)
    BY <1>1, <1>3 DEF Clear
  <2>2. Clear(m, o)
    <3>1. \A j, k \in DOMAIN m : j < k => a + j < a + k
      BY <1>1
    <3>2. QED BY <1>1, <1>3, <3>1, Zenon DEF Clear
  <2>3. ASSUME NEW i \in DOMAIN l, NEW j \in DOMAIN m, ReportOf(l[i], o), ReportOf(m[j], o)
        PROVE  ~Ends(l[i], o) /\ ~Begins(m[j], o)
    <3>1. i < a + j
      BY <1>1
    <3>2. QED BY <1>1, <1>3, <2>3, <3>1, Zenon DEF Clear
  <2>4. QED BY <1>2, <2>1, <2>2, <2>3, Zenon DEF Ended, Said, Begun
<1>4. ASSUME Clear(l, o), Clear(m, o), Ended(l, o) => ~Said(m, o), Begun(m, o) => ~Said(l, o)
      PROVE  Clear(p, o)
  <2>1. ASSUME NEW i \in DOMAIN p, p[i].k = "status", p[i].o = o
        PROVE  p[i].st \in {"LIVE", "CANCELLED", "REJECTED", "FAILED"}
    BY <1>1, <1>4, <2>1, Zenon DEF Clear
  <2>2. ASSUME NEW i \in DOMAIN p, NEW j \in DOMAIN p, i < j, ReportOf(p[i], o), ReportOf(p[j], o)
        PROVE  ~Ends(p[i], o) /\ ~Begins(p[j], o)
    <3>1. CASE i \in DOMAIN l /\ j \in DOMAIN l
      BY <1>1, <1>4, <2>2, <3>1, Zenon DEF Clear
    <3>2. CASE i \in DOMAIN l /\ j \notin DOMAIN l
      <4>1. PICK k \in DOMAIN m : j = a + k
        BY <1>1, <3>2
      <4>2. p[i] = l[i] /\ p[j] = m[k]
        BY <1>1, <3>2, <4>1
      <4>3. QED BY <1>4, <2>2, <3>2, <4>2, Zenon DEF Ended, Said, Begun
    <3>3. CASE i \notin DOMAIN l
      <4>1. PICK h \in DOMAIN m : i = a + h
        BY <1>1, <3>3
      <4>2. j \notin DOMAIN l
        BY <1>1, <2>2, <4>1
      <4>3. PICK k \in DOMAIN m : j = a + k
        BY <1>1, <4>2
      <4>4. h < k
        BY <1>1, <2>2, <4>1, <4>3
      <4>5. p[i] = m[h] /\ p[j] = m[k]
        BY <1>1, <4>1, <4>3
      <4>6. QED BY <1>4, <2>2, <4>4, <4>5, Zenon DEF Clear
    <3>4. QED BY <3>1, <3>2, <3>3
  <2>3. QED BY <2>1, <2>2 DEF Clear
<1>5. QED BY <1>3, <1>4

\* What one event says, and what none says.
LEMMA VoiceOne ==
    ASSUME NEW m, NEW o
    PROVE  /\ IsList(<<m>>) /\ (Said(<<m>>, o) <=> ReportOf(m, o))
           /\ Ended(<<m>>, o) <=> Ends(m, o)
           /\ Begun(<<m>>, o) <=> Begins(m, o)
           /\ \A f : Carries(<<m>>, f) <=> m.k = "fill" /\ Record(signals, m) = f
           /\ Clear(<<m>>, o) <=> (m.k = "status" /\ m.o = o =>
                                      m.st \in {"LIVE", "CANCELLED", "REJECTED", "FAILED"})
<1> DEFINE p == <<m>>
<1>1. IsList(p) /\ DOMAIN p = {1} /\ p[1] = m
  BY AppendJoined, ListEmpty
<1> HIDE DEF p
<1>2. ~(1 < 1)
  OBVIOUS
<1>3. Clear(p, o) <=> (m.k = "status" /\ m.o = o =>
                          m.st \in {"LIVE", "CANCELLED", "REJECTED", "FAILED"})
  BY <1>1, <1>2 DEF Clear
<1>4. /\ Said(p, o) <=> ReportOf(m, o)
      /\ Ended(p, o) <=> Ends(m, o)
      /\ Begun(p, o) <=> Begins(m, o)
  BY <1>1 DEF Said, Ended, Begun
<1>5. \A f : Carries(p, f) <=> m.k = "fill" /\ Record(signals, m) = f
  BY <1>1 DEF Carries
<1>6. QED BY <1>1, <1>3, <1>4, <1>5 DEF p

LEMMA VoiceNone ==
    ASSUME NEW o
    PROVE  /\ ~Said(<<>>, o) /\ ~Ended(<<>>, o) /\ ~Begun(<<>>, o) /\ Clear(<<>>, o)
           /\ \A f : ~Carries(<<>>, f)
  BY ListEmpty DEF Said, Ended, Begun, Clear, Carries

\* What is said of an order is all that can end or begin it.
LEMMA VoiceIs ==
    ASSUME NEW l, NEW o
    PROVE  /\ Ended(l, o) \/ Begun(l, o) => Said(l, o)
           /\ ~Said(l, o) => Clear(l, o)
           /\ \A f : Carries(l, f) /\ f.o = o => Said(l, o)
<1>1. \A n : Ends(n, o) \/ Begins(n, o) \/ (n.k = "status" /\ n.o = o) => ReportOf(n, o)
  BY DEF Ends, Begins, ReportOf
<1>2. Ended(l, o) \/ Begun(l, o) => Said(l, o)
  BY <1>1, Zenon DEF Ended, Begun, Said
<1>3. ~Said(l, o) => Clear(l, o)
  BY <1>1, Zenon DEF Said, Clear
<1>4. \A n, f : n.k = "fill" /\ Record(signals, n) = f /\ f.o = o => ReportOf(n, o)
  BY DEF Record, ReportOf
<1>5. \A f : Carries(l, f) /\ f.o = o => Said(l, o)
  BY <1>4, Zenon DEF Carries, Said
<1>6. QED BY <1>2, <1>3, <1>5

\* A list is its head before its tail.
LEMMA HeadFirst ==
    ASSUME NEW l, IsList(l), l # <<>>
    PROVE  IsList(Tail(l)) /\ l = <<Head(l)>> \o Tail(l)
<1> DEFINE h == Head(l)
           t == Tail(l)
           p == <<h>> \o t
<1>1. /\ IsList(t) /\ Len(l) \in Nat \ {0} /\ Len(t) = Len(l) - 1
      /\ h = l[1] /\ \A i \in 1..(Len(l) - 1) : t[i] = l[i + 1]
  BY ListTail
<1> HIDE DEF h, t
<1>2. IsList(<<h>>) /\ Len(<<h>>) = 1 /\ <<h>>[1] = h
  BY AppendJoined, ListEmpty
<1>3. /\ IsList(p) /\ Len(p) = 1 + Len(t)
      /\ p[1] = h /\ \A i \in 1..Len(t) : p[1 + i] = t[i]
  BY <1>1, <1>2, ListConcat
<1> HIDE DEF p
<1>4. ASSUME NEW i \in 1..Len(l) PROVE l[i] = p[i]
  <2>1. CASE i = 1
    BY <1>1, <1>3, <2>1
  <2>2. CASE i # 1
    <3>1. i - 1 \in 1..Len(t) /\ 1 + (i - 1) = i /\ (i - 1) + 1 = i
      BY <1>1, <2>2
    <3>2. p[1 + (i - 1)] = t[i - 1] /\ t[i - 1] = l[(i - 1) + 1]
      BY <1>1, <1>3, <3>1
    <3>3. QED BY <3>1, <3>2, Zenon
  <2>3. QED BY <2>1, <2>2
<1>5. Len(l) = Len(p)
  BY <1>1, <1>3
<1>6. l = p
  BY <1>3, <1>4, <1>5, SameList
<1>7. QED BY <1>1, <1>6 DEF p, h, t

\* An enumeration in order leaves nothing out.
LEMMA AscendingOnto ==
    ASSUME NEW n \in Nat, NEW K, K \subseteq 1..n
    PROVE  \A k \in K : \E i \in 1..Cardinality(K) : Ascending(K)[i] = k
<1> DEFINE c == Cardinality(K)
           S == 1..c
           at == Ascending(K)
<1>1. IsFiniteSet(K) /\ c \in Nat
  <2>1. IsFiniteSet(1..n)
    BY FS_Interval
  <2>2. IsFiniteSet(K)
    BY <2>1, FS_Subset
  <2>3. QED BY <2>2, FS_CardinalityType
<1>2. Increases(K, c, at)
  BY AscendingIs
<1> HIDE DEF at, c, S
<1>3. at \in [S -> K] /\ \A i, j \in S : i < j => at[i] < at[j]
  BY <1>2 DEF Increases, S
<1>4. \A i \in S : at[i] \in Nat
  <2>1. K \subseteq Nat /\ \A i \in S : at[i] \in K
    BY <1>3
  <2>2. QED BY <2>1
<1>5. ASSUME NEW i \in S, NEW j \in S, at[i] = at[j] PROVE i = j
  <2>1. i < j \/ j < i \/ i = j
    BY <1>1 DEF S
  <2>2. QED BY <1>3, <1>4, <1>5, <2>1
<1>6. at \in Injection(S, K)
  BY <1>3, <1>5 DEF Injection, IsInjective
<1>7. Cardinality(S) = c
  BY <1>1, FS_Interval DEF S
<1>8. at \in Surjection(S, K)
  BY <1>1, <1>6, <1>7, FS_Injection DEF c
<1>9. \A k \in K : \E i \in S : at[i] = k
  BY <1>8 DEF Surjection
<1>10. QED BY <1>9 DEF at, c, S

\* Nothing that was picked is left out of a list.
LEMMA OnlyAll ==
    ASSUME NEW l, IsList(l), NEW K, K \subseteq DOMAIN l
    PROVE  \A i \in K : \E j \in DOMAIN Only(l, K) : Only(l, K)[j] = l[i]
<1>1. /\ DOMAIN Only(l, K) = 1..Cardinality(K)
      /\ \A i \in 1..Cardinality(K) : Only(l, K)[i] = l[Ascending(K)[i]]
  BY OnlyPicks
<1>2. Len(l) \in Nat /\ K \subseteq 1..Len(l)
  BY ListFacts
<1>3. \A k \in K : \E i \in 1..Cardinality(K) : Ascending(K)[i] = k
  BY <1>2, AscendingOnto
<1>4. QED BY <1>1, <1>3

\* The entry of each resting order.
LEMMA EntryAt ==
    ASSUME NEW v, WorksOnce(v), NEW i \in DOMAIN v.book
    PROVE  v.book[i].o \in BookOf(v) /\ Entry(v, v.book[i].o) = v.book[i]
<1> DEFINE o == v.book[i].o
           c == CHOOSE j \in Resting(v, o) : TRUE
<1>1. i \in Resting(v, o)
  BY DEF Resting
<1>2. c \in Resting(v, o)
  BY <1>1
<1>3. c \in DOMAIN v.book /\ v.book[c].o = v.book[i].o
  BY <1>2 DEF Resting
<1>4. c = i
  BY <1>3, Zenon DEF WorksOnce
<1>5. QED BY <1>4 DEF Entry, BookOf

LEMMA TakeOffBook ==
    ASSUME NEW v, Known(v), NEW o, NEW w, w = TakeOff(v, o)
    PROVE  /\ BookOf(w) = BookOf(v) \ {o}
           /\ \A p \in BookOf(w) : Entry(w, p) = Entry(v, p)
           /\ \A i \in DOMAIN w.book : \E j \in DOMAIN v.book : w.book[i] = v.book[j]
           /\ w.out = v.out /\ w.unapplied = v.unapplied /\ w.count = v.count
<1> DEFINE K == {i \in DOMAIN v.book : v.book[i].o # o}
<1>1. /\ w.book = Only(v.book, K) /\ w.out = v.out /\ w.unapplied = v.unapplied
      /\ w.count = v.count
  BY DEF TakeOff, Known, Tame
<1>2. IsList(v.book) /\ K \subseteq DOMAIN v.book
  BY DEF Known, Tame
<1>3. Known(w)
  BY TakeOffMoves
<1>4. \A i \in DOMAIN w.book : \E j \in K : w.book[i] = v.book[j]
  <2> HIDE DEF K
  <2>1. \A i \in DOMAIN Only(v.book, K) : \E j \in K : Only(v.book, K)[i] = v.book[j]
    BY <1>2, OnlyPicks
  <2>2. QED BY <1>1, <2>1
<1>5. \A j \in K : \E i \in DOMAIN w.book : w.book[i] = v.book[j]
  <2> HIDE DEF K
  <2>1. \A j \in K : \E i \in DOMAIN Only(v.book, K) : Only(v.book, K)[i] = v.book[j]
    BY <1>2, OnlyAll
  <2>2. QED BY <1>1, <2>1
<1>6. BookOf(w) = BookOf(v) \ {o}
  <2>1. ASSUME NEW p \in BookOf(w) PROVE p \in BookOf(v) /\ p # o
    BY <1>4 DEF BookOf
  <2>2. ASSUME NEW p \in BookOf(v), p # o PROVE p \in BookOf(w)
    BY <1>5, <2>2 DEF BookOf
  <2>3. QED BY <2>1, <2>2
<1>7. ASSUME NEW p \in BookOf(w) PROVE Entry(w, p) = Entry(v, p)
  <2>1. PICK i \in DOMAIN w.book : w.book[i].o = p
    BY DEF BookOf
  <2>2. PICK j \in DOMAIN v.book : w.book[i] = v.book[j]
    BY <1>4
  <2>3. Entry(w, p) = w.book[i] /\ Entry(v, p) = v.book[j]
    BY <1>3, <2>1, <2>2, EntryAt DEF Known
  <2>4. QED BY <2>2, <2>3
<1>8. QED BY <1>1, <1>4, <1>6, <1>7

\* A fill of part of what an order works.
LEMMA BookFillBook ==
    ASSUME NEW v, Known(v), NEW o \in BookOf(v), NEW size \in Nat \ {0},
           NEW e, e = Entry(v, o), size <= e.working - e.filled, NEW w, w = BookFill(v, o, size)
    PROVE  /\ w.out = v.out /\ w.unapplied = v.unapplied /\ w.count = v.count
           /\ e.filled + size >= e.working => w = TakeOff(v, o)
           /\ e.filled + size < e.working =>
                 /\ BookOf(w) = BookOf(v)
                 /\ Entry(w, o) = [e EXCEPT !.filled = e.filled + size]
                 /\ \A p \in BookOf(v) \ {o} : Entry(w, p) = Entry(v, p)
                 /\ \A i \in DOMAIN w.book : \E j \in DOMAIN v.book :
                       w.book[i].o = v.book[j].o /\ w.book[i].asked = v.book[j].asked
                       /\ w.book[i].working = v.book[j].working
<1>1. e \in Entries /\ e.o = o /\ \A i \in DOMAIN v.book : v.book[i].o = o => v.book[i] = e
  <2>1. \A i \in DOMAIN v.book : v.book[i].o = o => v.book[i] = e
    BY EntryAt DEF Known
  <2>2. \E i \in DOMAIN v.book : v.book[i].o = o
    BY DEF BookOf
  <2>3. QED BY <2>1, <2>2 DEF Known, WorksOnce
<1>2. e.filled \in Nat /\ e.working \in Nat
  BY <1>1 DEF Entries
<1>3. Min({size, e.working - e.filled}) = size
  BY <1>2, MinOf
<1> DEFINE book == [i \in DOMAIN v.book |->
               IF v.book[i].o = o THEN [v.book[i] EXCEPT !.filled = e.filled + size]
               ELSE v.book[i]]
           u == [v EXCEPT !.book = book]
<1>4. w = IF e.filled + size >= e.working THEN TakeOff(v, o) ELSE u
  BY <1>3, Zenon DEF BookFill
<1>5. e.filled + size \in Nat
  BY <1>2
<1> DEFINE filled == e.filled + size
<1> HIDE DEF filled
<1>6. CASE e.filled + size >= e.working
  <2>1. w = TakeOff(v, o)
    BY <1>4, <1>6
  <2>2. w.out = v.out /\ w.unapplied = v.unapplied /\ w.count = v.count
    BY <2>1, TakeOffBook
  <2>3. QED BY <1>2, <1>6, <2>1, <2>2
<1>7. CASE ~(e.filled + size >= e.working)
  <2>1. w = u
    BY <1>4, <1>7
  <2>2. /\ w.book = book /\ w.out = v.out /\ w.unapplied = v.unapplied /\ w.count = v.count
    BY <2>1 DEF Known, Tame
  <2>3. Known(w)
    BY BookFillMoves
  <2>4. /\ DOMAIN w.book = DOMAIN v.book
        /\ \A i \in DOMAIN v.book : w.book[i] = IF v.book[i].o = o
              THEN [e EXCEPT !.filled = e.filled + size] ELSE v.book[i]
    BY <1>1, <2>2
  <2> HIDE DEF book, u
  <2>5. /\ \A i \in DOMAIN v.book : w.book[i].o = v.book[i].o
              /\ w.book[i].asked = v.book[i].asked /\ w.book[i].working = v.book[i].working
    <3>1. [e EXCEPT !.filled = e.filled + size].o = e.o
          /\ [e EXCEPT !.filled = e.filled + size].asked = e.asked
          /\ [e EXCEPT !.filled = e.filled + size].working = e.working
      BY <1>1 DEF Entries
    <3>2. QED BY <1>1, <2>4, <3>1
  <2>6. BookOf(w) = BookOf(v)
    BY <2>4, <2>5 DEF BookOf
  <2>7. ASSUME NEW i \in DOMAIN v.book
        PROVE  Entry(w, v.book[i].o) = w.book[i] /\ Entry(v, v.book[i].o) = v.book[i]
    BY <2>3, <2>4, <2>5, EntryAt DEF Known
  <2>8. Entry(w, o) = [e EXCEPT !.filled = e.filled + size]
    <3>1. PICK i \in DOMAIN v.book : v.book[i].o = o
      BY DEF BookOf
    <3>2. QED BY <2>4, <2>7, <3>1
  <2>9. ASSUME NEW p \in BookOf(v) \ {o} PROVE Entry(w, p) = Entry(v, p)
    <3>1. PICK i \in DOMAIN v.book : v.book[i].o = p
      BY DEF BookOf
    <3>2. QED BY <2>4, <2>7, <3>1
  <2>10. QED BY <1>2, <1>5, <1>7, <2>2, <2>4, <2>5, <2>6, <2>8, <2>9
<1>8. QED BY <1>6, <1>7

LEMMA RecheckBook ==
    ASSUME Solid, NEW v, Known(v), NEW w, w = RecheckReduceOnly(v)
    PROVE  /\ w.unapplied = v.unapplied /\ w.count = v.count
           /\ \E said : Drops(v, w, said)
           /\ BookOf(w) \subseteq BookOf(v) /\ \A o \in BookOf(w) : SameEntry(v, w, o)
           /\ \A o \in BookOf(v) : ~signals[o].reduceOnly \/ ReducesNet(v, o) => o \in BookOf(w)
           /\ \A i \in DOMAIN w.book : \E j \in DOMAIN v.book :
                 /\ w.book[i].o = v.book[j].o /\ w.book[i].asked = v.book[j].asked
                 /\ w.book[i].working <= v.book[j].working
                 /\ ~signals[v.book[j].o].reduceOnly => w.book[i].working = v.book[j].working
<1> DEFINE Keeping(e) == ~signals[e.o].reduceOnly \/ ReducesNet(v, e.o)
           Fit(e) == IF signals[e.o].reduceOnly
                THEN [e EXCEPT !.working =
                         e.filled + Min({e.working - e.filled, Abs(Net(v))})]
                ELSE e
           kept == {i \in DOMAIN v.book : Keeping(v.book[i])}
           lost == DOMAIN v.book \ kept
           fit == [i \in DOMAIN v.book |-> Fit(v.book[i])]
           gone == Only(v.book, lost)
           said == [i \in DOMAIN gone |-> StatusReport(gone[i].o, "CANCELLED")]
           told == v.statuses \cup {gone[i].o : i \in DOMAIN gone}
<1>1. w = [v EXCEPT !.book = Only(fit, kept), !.out = @ \o said, !.statuses = told]
  BY DEF RecheckReduceOnly
<1>2. Known(w)
  BY RecheckMoves
<1>3. IsList(v.book) /\ kept \subseteq DOMAIN v.book /\ lost \subseteq DOMAIN v.book
  BY DEF Known, Tame
<1>4. IsList(gone)
  BY <1>3, OnlyPicks
<1>5. /\ IsList(said) /\ DOMAIN said = DOMAIN gone
      /\ \A i \in DOMAIN gone : said[i] = StatusReport(gone[i].o, "CANCELLED")
  <2> HIDE DEF gone
  <2>1. QED BY <1>4, ListMapped
<1>6. IsList(fit) /\ DOMAIN fit = DOMAIN v.book
  BY <1>3, ListMapped
<1> HIDE DEF told, said
<1>7. /\ w.book = Only(fit, kept) /\ w.out = v.out \o said
      /\ w.count = v.count /\ w.unapplied = v.unapplied
  <2> HIDE DEF fit, kept
  <2>1. QED BY <1>1 DEF Known, Tame
<1>8. ASSUME NEW i \in DOMAIN v.book
      PROVE  /\ fit[i].o = v.book[i].o /\ fit[i].asked = v.book[i].asked
             /\ fit[i].filled = v.book[i].filled /\ fit[i].working <= v.book[i].working
             /\ ~signals[v.book[i].o].reduceOnly => fit[i].working = v.book[i].working
  <2> DEFINE e == v.book[i]
             a == Abs(Net(v))
  <2>1. e \in Entries /\ e.filled < e.working
    BY DEF Known, WorksOnce
  <2>2. e.filled \in Nat /\ e.working \in Nat
    BY <2>1 DEF Entries
  <2>3. fit[i] = Fit(e)
    OBVIOUS
  <2> HIDE DEF fit, e
  <2>4. CASE ~signals[e.o].reduceOnly
    BY <2>2, <2>3, <2>4 DEF e
  <2>5. CASE signals[e.o].reduceOnly
    <3>1. a \in Int
      BY NetInt, AbsIs DEF Known
    <3> HIDE DEF a
    <3> DEFINE left == Min({e.working - e.filled, a})
    <3>2. left = IF e.working - e.filled <= a THEN e.working - e.filled ELSE a
      BY <2>2, <3>1, MinOf
    <3>3. left \in Int /\ left <= e.working - e.filled
      BY <2>2, <3>1, <3>2
    <3>4. fit[i] = [e EXCEPT !.working = e.filled + left]
      BY <2>3, <2>5 DEF a
    <3> HIDE DEF left
    <3>5. fit[i].o = e.o /\ fit[i].filled = e.filled /\ fit[i].working = e.filled + left
          /\ fit[i].asked = e.asked
      BY <2>1, <3>4 DEF Entries
    <3>6. fit[i].working <= e.working
      BY <2>2, <3>3, <3>5
    <3>7. QED BY <2>5, <3>5, <3>6 DEF e
  <2>6. QED BY <2>4, <2>5
<1>9. \A i \in DOMAIN w.book : \E j \in kept : w.book[i] = fit[j]
  <2> HIDE DEF fit, kept
  <2>1. \A i \in DOMAIN Only(fit, kept) : \E j \in kept : Only(fit, kept)[i] = fit[j]
    BY <1>3, <1>6, OnlyPicks
  <2>2. QED BY <1>7, <2>1
<1>10. \A j \in kept : \E i \in DOMAIN w.book : w.book[i] = fit[j]
  <2> HIDE DEF fit, kept
  <2>1. \A j \in kept : \E i \in DOMAIN Only(fit, kept) : Only(fit, kept)[i] = fit[j]
    BY <1>3, <1>6, OnlyAll
  <2>2. QED BY <1>7, <2>1
<1>11. /\ \A i \in DOMAIN gone : Ascending(lost)[i] \in lost /\ gone[i] = v.book[Ascending(lost)[i]]
       /\ \A i, j \in DOMAIN gone : i < j => Ascending(lost)[i] < Ascending(lost)[j]
       /\ DOMAIN gone \subseteq Nat
       /\ \A j \in lost : \E i \in DOMAIN gone : gone[i] = v.book[j]
  <2> HIDE DEF lost
  <2>0. Cardinality(lost) \in Nat
    BY <1>3, OnlyPicks
  <2>1. /\ DOMAIN gone = 1..Cardinality(lost)
        /\ \A i \in 1..Cardinality(lost) :
              Ascending(lost)[i] \in lost /\ gone[i] = v.book[Ascending(lost)[i]]
        /\ \A i, j \in 1..Cardinality(lost) : i < j => Ascending(lost)[i] < Ascending(lost)[j]
    BY <1>3, OnlyPicks
  <2>2. \A j \in lost : \E i \in DOMAIN gone : gone[i] = v.book[j]
    BY <1>3, OnlyAll
  <2>3. 1..Cardinality(lost) \subseteq Nat
    BY <2>0
  <2> HIDE DEF gone
  <2>4. QED BY <2>1, <2>2, <2>3, Zenon
<1>12. \A i, j \in DOMAIN v.book : v.book[i].o = v.book[j].o => i = j
  BY DEF Known, WorksOnce
<1> DEFINE K(i) == Keeping(v.book[i])
<1>13. /\ \A i \in DOMAIN v.book : i \in kept <=> K(i)
       /\ \A i \in DOMAIN v.book : i \in lost <=> ~K(i)
       /\ kept \subseteq DOMAIN v.book /\ lost \subseteq DOMAIN v.book
  OBVIOUS
<1>14. \A i \in DOMAIN v.book : K(i) <=> ~signals[v.book[i].o].reduceOnly \/ ReducesNet(v, v.book[i].o)
  OBVIOUS
<1> HIDE DEF gone, fit, kept, lost, K
<1>15. \A o : o \in BookOf(w) <=> \E j \in kept : v.book[j].o = o
  <2>1. ASSUME NEW o \in BookOf(w) PROVE \E j \in kept : v.book[j].o = o
    <3>1. PICK i \in DOMAIN w.book : w.book[i].o = o
      BY DEF BookOf
    <3>2. PICK j \in kept : w.book[i] = fit[j]
      BY <1>9
    <3>3. v.book[j].o = o
      BY <1>8, <1>13, <3>1, <3>2
    <3>4. QED BY <3>3
  <2>2. ASSUME NEW j \in kept PROVE v.book[j].o \in BookOf(w)
    <3>1. PICK i \in DOMAIN w.book : w.book[i] = fit[j]
      BY <1>10
    <3>2. w.book[i].o = v.book[j].o
      BY <1>8, <1>13, <3>1
    <3>3. QED BY <3>2 DEF BookOf
  <2>3. QED BY <2>1, <2>2
<1>16. \A o : o \in BookOf(v) <=> \E j \in DOMAIN v.book : v.book[j].o = o
  BY DEF BookOf
<1>17. \A o : o \in BookOf(v) \ BookOf(w) <=> \E j \in lost : v.book[j].o = o
  BY <1>12, <1>13, <1>15, <1>16
<1>18. BookOf(w) \subseteq BookOf(v)
  BY <1>13, <1>15, <1>16
<1>19. \A o \in BookOf(v) : ~signals[o].reduceOnly \/ ReducesNet(v, o) => o \in BookOf(w)
  BY <1>13, <1>14, <1>15, <1>16
<1>20. ASSUME NEW o \in BookOf(w) PROVE SameEntry(v, w, o)
  <2>1. PICK i \in DOMAIN w.book : w.book[i].o = o
    BY DEF BookOf
  <2>2. PICK j \in kept : w.book[i] = fit[j]
    BY <1>9
  <2>3. j \in DOMAIN v.book /\ v.book[j].o = o /\ w.book[i].asked = v.book[j].asked
        /\ w.book[i].filled = v.book[j].filled
    BY <1>8, <1>13, <2>1, <2>2
  <2>4. Entry(w, o) = w.book[i]
    BY <1>2, <2>1, EntryAt DEF Known
  <2>5. Entry(v, o) = v.book[j]
    BY <2>3, EntryAt DEF Known
  <2>6. QED BY <2>1, <2>3, <2>4, <2>5 DEF SameEntry
<1>21. Drops(v, w, said)
  <2>1. ASSUME NEW i \in DOMAIN said
        PROVE  /\ said[i].k = "status" /\ said[i].st = "CANCELLED"
               /\ said[i].o \in BookOf(v) \ BookOf(w)
    <3>1. said[i].k = "status" /\ said[i].st = "CANCELLED" /\ said[i].o = gone[i].o
      BY <1>5 DEF StatusReport
    <3>2. gone[i].o \in BookOf(v) \ BookOf(w)
      BY <1>5, <1>11, <1>17
    <3>3. QED BY <3>1, <3>2
  <2>2. ASSUME NEW i \in DOMAIN said, NEW j \in DOMAIN said, said[i].o = said[j].o PROVE i = j
    <3>1. said[i].o = gone[i].o /\ said[j].o = gone[j].o
      BY <1>5 DEF StatusReport
    <3> DEFINE hi == Ascending(lost)[i]
               hj == Ascending(lost)[j]
    <3>2. hi \in DOMAIN v.book /\ hj \in DOMAIN v.book /\ gone[i] = v.book[hi] /\ gone[j] = v.book[hj]
      BY <1>5, <1>11, <1>13
    <3>3. hi = hj
      BY <1>12, <2>2, <3>1, <3>2
    <3>4. hi \in Nat /\ hj \in Nat
      BY <1>3, <3>2, ListFacts
    <3>5. /\ i < j => hi < hj
          /\ j < i => hj < hi
          /\ i \in Nat /\ j \in Nat
      BY <1>5, <1>11
    <3> HIDE DEF hi, hj
    <3>6. QED BY <3>3, <3>4, <3>5
  <2>3. ASSUME NEW o \in BookOf(v) \ BookOf(w) PROVE \E i \in DOMAIN said : said[i].o = o
    <3>1. PICK j \in lost : v.book[j].o = o
      BY <1>17
    <3>2. PICK i \in DOMAIN gone : gone[i] = v.book[j]
      BY <1>11
    <3>3. i \in DOMAIN said /\ said[i].o = o
      BY <1>5, <3>1, <3>2 DEF StatusReport
    <3>4. QED BY <3>3
  <2>4. QED BY <1>5, <1>7, <2>1, <2>2, <2>3, Zenon DEF Drops
<1>22. ASSUME NEW i \in DOMAIN w.book
       PROVE  \E j \in DOMAIN v.book :
               /\ w.book[i].o = v.book[j].o /\ w.book[i].asked = v.book[j].asked
               /\ w.book[i].working <= v.book[j].working
               /\ ~signals[v.book[j].o].reduceOnly => w.book[i].working = v.book[j].working
  <2>1. PICK j \in kept : w.book[i] = fit[j]
    BY <1>9
  <2>2. QED BY <1>8, <1>13, <2>1
<1>23. QED BY <1>7, <1>18, <1>19, <1>20, <1>21, <1>22

LEMMA ServesOn ==
    ASSUME NEW u, NEW v, NEW w, NEW o, Serves(u, v, o), Serves(v, w, o)
    PROVE  Serves(u, w, o)
  BY Zenon DEF Serves

LEMMA AddsIs ==
    ASSUME NEW v, NEW w, NEW r, IsList(v.out), IsList(r), w.out = v.out \o r
    PROVE  Adds(v, w, r)
  BY InARowIs, Zenon DEF Adds

LEMMA AddsOne ==
    ASSUME NEW v, NEW w, NEW m, IsList(v.out), w.out = Append(v.out, m)
    PROVE  Adds(v, w, <<m>>)
  BY AppendJoined, AddsIs, Zenon

LEMMA AddsNone ==
    ASSUME NEW v, NEW w, IsList(v.out), w.out = v.out
    PROVE  Adds(v, w, <<>>)
  BY ConcatNothing, ListEmpty, AddsIs, Zenon

LEMMA UntouchedServes ==
    ASSUME NEW v, NEW w, NEW o, Untouched(v, w, o)
    PROVE  Serves(v, w, o)
<1>1. PICK r : Adds(v, w, r) /\ ~Said(r, o)
  BY DEF Untouched
<1>2. ~Ended(r, o) /\ ~Begun(r, o) /\ Clear(r, o)
  BY <1>1, VoiceIs
<1>3. /\ Said(w.out, o) <=> Said(v.out, o)
      /\ Ended(w.out, o) <=> Ended(v.out, o)
      /\ Begun(w.out, o) <=> Begun(v.out, o)
      /\ \A f : Carries(v.out, f) => Carries(w.out, f)
  BY <1>1, <1>2, VoiceConcat DEF Adds
<1>4. Clear(v.out, o) => Clear(w.out, o)
  BY <1>1, <1>2, ClearConcat DEF Adds
<1>5. Filling(w, o) = Filling(v, o)
  BY DEF Untouched, Filling
<1>6. \A a : Accounts(v, v.out, o, a) => Accounts(w, w.out, o, a)
  BY <1>3, <1>5 DEF Accounts, Untouched
<1>7. \A a, G : Tracks(v, o, a, G) => Tracks(w, o, a, G)
  BY <1>3, <1>4, <1>6 DEF Tracks, Untouched
<1>8. \A G : Idle(v, o, G) => Idle(w, o, G)
  BY <1>3 DEF Idle, Untouched
<1>9. QED BY <1>7, <1>8 DEF Serves

-----------------------------------------------------------------------------
\* The fills of an order.

LEMMA FillsAre ==
    ASSUME NEW v, CountsFills(v), NEW o, signals[o] \in Menu
    PROVE  /\ IsFiniteSet(FillsOf(v, o)) /\ \A f \in FillsOf(v, o) : f.size \in Int
           /\ Total(FillsOf(v, o)) \in Int /\ Filling(v, o) \in Int
<1>1. FillsOf(v, o) \subseteq v.unapplied
  BY DEF FillsOf
<1>2. IsFiniteSet(FillsOf(v, o))
  BY <1>1, FS_Subset DEF CountsFills
<1>3. \A f \in FillsOf(v, o) : f.size \in Int
  BY <1>1 DEF CountsFills, Records
<1>4. Total(FillsOf(v, o)) \in Int
  BY <1>2, <1>3, TotalIs
<1>5. Filling(v, o) \in Int
  BY <1>4, TermsAre DEF Filling
<1>6. QED BY <1>2, <1>3, <1>4, <1>5

LEMMA NumberedFills ==
    ASSUME NEW v, Known(v), NEW o \in Orders, signals[o] \in Menu, NEW size \in Nat \ {0},
           NEW w, w = Numbered(v, o, size)
    PROVE  /\ Filling(w, o) = Filling(v, o) + size
           /\ \A p : p # o => FillsOf(w, p) = FillsOf(v, p)
           /\ w.book = v.book
           /\ \E m : SaysFill(v, w, o, size, m)
<1> DEFINE n == v.count[o] + 1
           d == Direction(Side(o)) * size
           f == [o |-> o, n |-> n, size |-> d]
           m == FillReport(o, n, size)
<1>0. d \in Int /\ Direction(Side(o)) \in {1, -1}
  BY TermsAre
<1>2. /\ w.book = v.book /\ w.unapplied = v.unapplied \cup {f} /\ w.out = Append(v.out, m)
  BY DEF Numbered, Known, Tame
<1>3. /\ m.k = "fill" /\ m.o = o /\ Record(signals, m) = f
  BY DEF FillReport, Record, Side
<1> HIDE DEF m, d
<1>4. n \in Nat /\ n > v.count[o] /\ v.count \in [Orders -> Nat]
  BY DEF Known, CountsFills
<1> HIDE DEF n
<1>5. f.o = o /\ f.n = n /\ f.size = d
  OBVIOUS
<1> HIDE DEF f
<1>6. n \notin rows[o].trades
  BY <1>4 DEF Known, CountsFills
<1>7. f \notin FillsOf(v, o)
  <2>1. \A g \in v.unapplied : g \in Records /\ g.n <= v.count[g.o]
    BY DEF Known, CountsFills
  <2>2. v.count[o] \in Nat
    BY <1>4
  <2>3. SUFFICES ASSUME f \in v.unapplied PROVE FALSE
    BY DEF FillsOf
  <2>4. n <= v.count[o]
    BY <1>5, <2>1, <2>3
  <2>5. QED BY <1>4, <2>2, <2>4
<1>8. FillsOf(w, o) = FillsOf(v, o) \cup {f}
  BY <1>2, <1>5, <1>6 DEF FillsOf
<1>9. ASSUME NEW p, p # o PROVE FillsOf(w, p) = FillsOf(v, p)
  BY <1>2, <1>5, <1>9 DEF FillsOf
<1>10. Filling(w, o) = Filling(v, o) + size
  <2>1. /\ IsFiniteSet(FillsOf(v, o)) /\ \A g \in FillsOf(v, o) : g.size \in Int
        /\ Total(FillsOf(v, o)) \in Int
    BY FillsAre DEF Known
  <2>2. Total(FillsOf(v, o) \cup {f}) = Total(FillsOf(v, o)) + f.size
    BY <1>0, <1>5, <1>7, <2>1, TotalAdd
  <2> DEFINE t == Total(FillsOf(v, o))
  <2>3. Filling(w, o) = Direction(Side(o)) * (t + d) /\ Filling(v, o) = Direction(Side(o)) * t
    BY <1>5, <1>8, <2>2 DEF Filling
  <2> HIDE DEF t
  <2>4. t \in Int
    BY <2>1 DEF t
  <2>5. CASE Direction(Side(o)) = 1
    BY <2>3, <2>4, <2>5 DEF d
  <2>6. CASE Direction(Side(o)) = -1
    BY <2>3, <2>4, <2>6 DEF d
  <2>7. QED BY <1>0, <2>5, <2>6
<1>11. Adds(v, w, <<m>>)
  BY <1>2, AddsOne DEF Known, Tame, Reports
<1>12. SaysFill(v, w, o, size, m)
  BY <1>2, <1>3, <1>5, <1>8, <1>11 DEF d, SaysFill
<1>13. QED BY <1>2, <1>9, <1>10, <1>12

\* A status, and the venue it leaves.
LEMMA SaySays ==
    ASSUME NEW v, Known(v), NEW o, NEW st, NEW w, w = Say(v, o, st)
    PROVE  /\ w.book = v.book /\ w.unapplied = v.unapplied
           /\ Adds(v, w, <<StatusReport(o, st)>>)
           /\ StatusReport(o, st).k = "status" /\ StatusReport(o, st).o = o
           /\ StatusReport(o, st).st = st
<1>1. /\ w.book = v.book /\ w.unapplied = v.unapplied
      /\ w.out = Append(v.out, StatusReport(o, st))
  BY DEF Say, Known, Tame
<1>2. Adds(v, w, <<StatusReport(o, st)>>)
  BY <1>1, AddsOne DEF Known, Tame, Reports
<1>3. QED BY <1>1, <1>2 DEF StatusReport

\* What an event of another order says of one.
LEMMA OthersSay ==
    ASSUME NEW m, NEW o, m.o # o
    PROVE  ~Said(<<m>>, o)
  BY VoiceOne DEF ReportOf

\* A book that is the same, and an order that another's event leaves alone.
LEMMA SameBook ==
    ASSUME NEW v, NEW w, w.book = v.book
    PROVE  BookOf(w) = BookOf(v) /\ \A o : Entry(w, o) = Entry(v, o) /\ Left(w, o) = Left(v, o)
  BY DEF BookOf, Entry, Left, Resting

-----------------------------------------------------------------------------
\* Each step of the venue keeps what it tracks.

LEMMA RecheckServes ==
    ASSUME Solid, NEW v, Known(v), Sound(v), NEW w, w = RecheckReduceOnly(v), NEW o
    PROVE  Serves(v, w, o)
<1>0. IsList(v.out)
  BY DEF Known, Tame, Reports
<1>1. /\ w.unapplied = v.unapplied /\ BookOf(w) \subseteq BookOf(v)
      /\ \A p \in BookOf(w) : SameEntry(v, w, p)
  BY RecheckBook
<1>2. PICK said : Drops(v, w, said)
  BY RecheckBook
<1>3. Adds(v, w, said)
  BY <1>0, <1>2, AddsIs, Zenon DEF Drops
<1>d. /\ \A i \in DOMAIN said : /\ said[i].k = "status" /\ said[i].st = "CANCELLED"
                                /\ said[i].o \in BookOf(v) \ BookOf(w)
      /\ \A i, j \in DOMAIN said : said[i].o = said[j].o => i = j
      /\ \A p \in BookOf(v) \ BookOf(w) : \E i \in DOMAIN said : said[i].o = p
      /\ IsList(said)
  BY <1>2, Zenon DEF Drops
<1>4. FillsOf(w, o) = FillsOf(v, o) /\ Filling(w, o) = Filling(v, o)
  BY <1>1 DEF FillsOf, Filling
<1>5. CASE o \in BookOf(w) \/ o \notin BookOf(v)
  <2>1. ~Said(said, o)
    BY <1>1, <1>5, <1>d DEF Said, ReportOf
  <2>2. o \in BookOf(w) => Left(w, o) = Left(v, o)
    BY <1>1 DEF Left, SameEntry
  <2>3. Untouched(v, w, o)
    BY <1>1, <1>3, <1>4, <1>5, <2>1, <2>2 DEF Untouched
  <2>4. QED BY <2>3, UntouchedServes
<1>6. CASE o \in BookOf(v) /\ o \notin BookOf(w)
  <2>1. Ended(said, o) /\ ~Begun(said, o)
    <3>1. PICK i \in DOMAIN said : said[i].o = o
      BY <1>6, <1>d
    <3>2. Ends(said[i], o)
      BY <1>d, <3>1 DEF Ends, TerminalStates
    <3>3. QED BY <1>d, <3>2 DEF Ended, Begun, Begins
  <2>2. Clear(said, o)
    <3>1. DOMAIN said \subseteq Nat
      BY <1>d, ListFacts
    <3>2. ASSUME NEW i \in DOMAIN said, NEW j \in DOMAIN said, i < j,
                 ReportOf(said[i], o), ReportOf(said[j], o)
          PROVE  FALSE
      <4>1. i = j
        BY <1>d, <3>2, Zenon DEF ReportOf
      <4>2. i \in Nat
        BY <3>1
      <4>3. QED BY <3>2, <4>1, <4>2
    <3>3. QED BY <1>d, <3>2 DEF Clear
  <2>3. ASSUME NEW a \in Nat, NEW G, Tracks(v, o, a, G) PROVE Tracks(w, o, a, G)
    <3>1. /\ Clear(v.out, o) /\ ~Begun(v.out, o) /\ Accounts(v, v.out, o, a)
          /\ \A f \in FillsOf(v, o) : f \in G \/ Carries(v.out, f)
      BY <2>3 DEF Tracks
    <3>2. Filling(v, o) + Left(v, o) = a /\ ~Ended(v.out, o)
      BY <1>6, <3>1 DEF Accounts
    <3>3. Clear(w.out, o)
      BY <1>3, <2>1, <2>2, <3>1, <3>2, ClearConcat DEF Adds
    <3>4. /\ ~Begun(w.out, o) /\ Ended(w.out, o)
          /\ \A f : Carries(v.out, f) => Carries(w.out, f)
      BY <1>3, <2>1, <3>1, VoiceConcat DEF Adds
    <3>5. Left(v, o) \in Nat /\ Filling(v, o) \in Int
      <4>1. PICK i \in DOMAIN v.book : v.book[i].o = o
        BY <1>6 DEF BookOf
      <4>2. Entry(v, o) = v.book[i]
        BY <4>1, EntryAt DEF Known
      <4>3. /\ v.book[i] \in Entries /\ v.book[i].filled < v.book[i].working
            /\ v.book[i].working <= v.book[i].asked /\ signals[o] \in Menu
        BY <4>1 DEF Known, WorksOnce, Sound
      <4>4. Left(v, o) \in Nat
        BY <4>2, <4>3 DEF Left, Entries
      <4>5. QED BY <4>3, <4>4, FillsAre DEF Known
    <3>6. Filling(w, o) <= a
      BY <1>4, <3>2, <3>5
    <3>7. Accounts(w, w.out, o, a)
      BY <1>6, <3>4, <3>6 DEF Accounts
    <3>8. QED BY <1>4, <3>1, <3>3, <3>4, <3>7 DEF Tracks
  <2>4. \A G : ~Idle(v, o, G)
    BY <1>6 DEF Idle
  <2>5. QED BY <2>3, <2>4 DEF Serves
<1>7. QED BY <1>1, <1>5, <1>6

LEMMA SoundFrom ==
    ASSUME NEW v, Known(v), Sound(v), NEW w, Known(w),
           \A i \in DOMAIN w.book : \E j \in DOMAIN v.book :
                 /\ w.book[i].o = v.book[j].o /\ w.book[i].asked = v.book[j].asked
                 /\ w.book[i].working <= v.book[j].working
                 /\ ~signals[v.book[j].o].reduceOnly => w.book[i].working = v.book[j].working,
           \A f \in w.unapplied : \/ f \in v.unapplied
                                  \/ signals[f.o] \in Menu
                                     /\ Direction(Side(f.o)) * f.size \in Nat \ {0}
    PROVE  Sound(w)
<1>1. ASSUME NEW i \in DOMAIN w.book
      PROVE  /\ w.book[i].working <= w.book[i].asked
             /\ signals[w.book[i].o].reduceOnly \/ w.book[i].working = w.book[i].asked
  <2>1. PICK j \in DOMAIN v.book :
               /\ w.book[i].o = v.book[j].o /\ w.book[i].asked = v.book[j].asked
               /\ w.book[i].working <= v.book[j].working
               /\ ~signals[v.book[j].o].reduceOnly => w.book[i].working = v.book[j].working
    OBVIOUS
  <2>2. w.book[i] \in Entries /\ v.book[j] \in Entries
    BY DEF Known, WorksOnce
  <2>3. /\ v.book[j].working <= v.book[j].asked
        /\ signals[v.book[j].o].reduceOnly \/ v.book[j].working = v.book[j].asked
    BY DEF Sound
  <2> DEFINE x == w.book[i]
             y == v.book[j]
  <2> HIDE DEF x, y
  <2>4. x \in Entries /\ y \in Entries /\ x.working <= y.working /\ y.working <= y.asked
        /\ x.asked = y.asked
    BY <2>1, <2>2, <2>3 DEF x, y
  <2>5. x.working <= x.asked
    BY <2>4 DEF Entries
  <2>6. signals[x.o].reduceOnly \/ x.working = x.asked
    BY <2>1, <2>3 DEF x, y
  <2>7. QED BY <2>5, <2>6 DEF x
<1>2. QED BY <1>1 DEF Sound

LEMMA SoundRecheck ==
    ASSUME Solid, NEW v, Known(v), Sound(v), NEW w, w = RecheckReduceOnly(v)
    PROVE  Sound(w) /\ Known(w) /\ Fits(w)
<1>1. Known(w) /\ Fits(w)
  BY RecheckMoves
<1>2. /\ w.unapplied = v.unapplied
      /\ \A i \in DOMAIN w.book : \E j \in DOMAIN v.book :
               /\ w.book[i].o = v.book[j].o /\ w.book[i].asked = v.book[j].asked
               /\ w.book[i].working <= v.book[j].working
               /\ ~signals[v.book[j].o].reduceOnly => w.book[i].working = v.book[j].working
  BY RecheckBook
<1>3. QED BY <1>1, <1>2, SoundFrom

LEMMA SoundSay ==
    ASSUME Solid, NEW v, Known(v), Sound(v), NEW o, NEW st
    PROVE  Sound(Say(v, o, st)) /\ Known(Say(v, o, st))
<1>1. /\ Say(v, o, st).book = v.book /\ Say(v, o, st).unapplied = v.unapplied
  BY DEF Say, Known, Tame
<1>2. QED BY <1>1, SayMoves DEF Sound

LEMMA SoundTakeOff ==
    ASSUME Solid, NEW v, Known(v), Sound(v), NEW o
    PROVE  Sound(TakeOff(v, o)) /\ Known(TakeOff(v, o))
<1> DEFINE w == TakeOff(v, o)
<1>1. Known(w)
  BY TakeOffMoves
<1>2. /\ w.unapplied = v.unapplied
      /\ \A i \in DOMAIN w.book : \E j \in DOMAIN v.book : w.book[i] = v.book[j]
  BY TakeOffBook
<1> HIDE DEF w
<1>3. \A i \in DOMAIN v.book : v.book[i].working \in Nat
  BY DEF Known, WorksOnce, Entries
<1>4. \A i \in DOMAIN v.book : v.book[i].working <= v.book[i].working
  BY <1>3
<1>5. \A i \in DOMAIN w.book : \E j \in DOMAIN v.book :
               /\ w.book[i].o = v.book[j].o /\ w.book[i].asked = v.book[j].asked
               /\ w.book[i].working <= v.book[j].working
               /\ ~signals[v.book[j].o].reduceOnly => w.book[i].working = v.book[j].working
  BY <1>2, <1>4
<1>6. Sound(w)
  BY <1>1, <1>2, <1>5, SoundFrom
<1>7. QED BY <1>1, <1>6 DEF w

LEMMA SoundBookFill ==
    ASSUME Solid, NEW v, Known(v), Sound(v), NEW o \in BookOf(v), NEW size \in Nat \ {0},
           size <= Entry(v, o).working - Entry(v, o).filled
    PROVE  Sound(BookFill(v, o, size)) /\ Known(BookFill(v, o, size))
<1> DEFINE w == BookFill(v, o, size)
           e == Entry(v, o)
<1>1. Known(w)
  BY BookFillMoves
<1>2. e.filled \in Nat /\ e.working \in Nat
  BY EntryIs DEF Known, WorksOnce, Entries
<1>3. e.filled + size >= e.working \/ e.filled + size < e.working
  BY <1>2
<1>4. CASE e.filled + size >= e.working
  <2>1. w = TakeOff(v, o)
    BY <1>4, BookFillBook
  <2>2. QED BY <1>1, <2>1, SoundTakeOff
<1>5. CASE e.filled + size < e.working
  <2>1. /\ w.unapplied = v.unapplied
        /\ \A i \in DOMAIN w.book : \E j \in DOMAIN v.book :
                     w.book[i].o = v.book[j].o /\ w.book[i].asked = v.book[j].asked
                     /\ w.book[i].working = v.book[j].working
    BY <1>5, BookFillBook
  <2>2. \A i \in DOMAIN v.book : v.book[i].working \in Nat
    BY DEF Known, WorksOnce, Entries
  <2>3. \A i \in DOMAIN v.book : v.book[i].working <= v.book[i].working
    BY <2>2
  <2> HIDE DEF w
  <2>4. \A i \in DOMAIN w.book : \E j \in DOMAIN v.book :
               /\ w.book[i].o = v.book[j].o /\ w.book[i].asked = v.book[j].asked
               /\ w.book[i].working <= v.book[j].working
               /\ ~signals[v.book[j].o].reduceOnly => w.book[i].working = v.book[j].working
    BY <2>1, <2>3
  <2>5. Sound(w)
    BY <1>1, <2>1, <2>4, SoundFrom
  <2>6. QED BY <1>1, <2>5 DEF w
<1>6. QED BY <1>3, <1>4, <1>5

LEMMA SoundNumbered ==
    ASSUME Solid, NEW v, Known(v), Sound(v), NEW o \in Orders, signals[o] \in Menu,
           NEW size \in Nat \ {0},
           signals[o].reduceOnly => ReducesNet(v, o) /\ size <= Abs(Net(v)),
           NEW w, w = Numbered(v, o, size)
    PROVE  Sound(w) /\ Known(w)
<1>1. Known(w)
  BY NumberedMoves
<1>2. PICK m : SaysFill(v, w, o, size, m)
  BY NumberedFills
<1>3. w.book = v.book
  BY NumberedFills
<1>4. Direction(Side(o)) * (Direction(Side(o)) * size) = size
  <2>1. Direction(Side(o)) \in {1, -1}
    BY TermsAre
  <2>2. CASE Direction(Side(o)) = 1
    BY <2>2
  <2>3. CASE Direction(Side(o)) = -1
    BY <2>3
  <2>4. QED BY <2>1, <2>2, <2>3
<1>5. PICK f : /\ f.o = o /\ f.size = Direction(Side(o)) * size
               /\ w.unapplied = v.unapplied \cup {f}
  BY <1>2 DEF SaysFill
<1>6. Sound(w)
  BY <1>3, <1>4, <1>5 DEF Sound
<1>7. QED BY <1>1, <1>6

\* The orders that do not fill.
LEMMA FillsOthers ==
    ASSUME Solid, NEW v, Known(v), Sound(v), NEW o \in BookOf(v), NEW size \in Nat \ {0},
           size <= Entry(v, o).working - Entry(v, o).filled,
           signals[o].reduceOnly => ReducesNet(v, o) /\ size <= Abs(Net(v)),
           NEW p, p # o
    PROVE  Serves(v, Fills(v, o, size), p)
<1> DEFINE e == Entry(v, o)
           u == BookFill(v, o, size)
           w == Numbered(u, o, size)
           x == Fills(v, o, size)
<1>1. /\ o \in Orders /\ signals[o] \in Menu /\ e.filled \in Nat /\ e.working \in Nat
  BY EntryIs DEF Known, WorksOnce, Entries
<1>2. Known(u) /\ Net(u) = Net(v) /\ u.unapplied = v.unapplied /\ u.out = v.out
  BY BookFillMoves, BookFillBook
<1>3. (p \in BookOf(u) <=> p \in BookOf(v)) /\ (p \in BookOf(u) => Entry(u, p) = Entry(v, p))
  <2>1. e.filled + size >= e.working \/ e.filled + size < e.working
    BY <1>1
  <2>2. CASE e.filled + size >= e.working
    <3>1. u = TakeOff(v, o)
      BY <2>2, BookFillBook
    <3> HIDE DEF u
    <3>2. BookOf(u) = BookOf(v) \ {o} /\ \A q \in BookOf(u) : Entry(u, q) = Entry(v, q)
      BY <3>1, TakeOffBook
    <3>3. QED BY <3>2
  <2>3. CASE e.filled + size < e.working
    <3>1. BookOf(u) = BookOf(v) /\ \A q \in BookOf(v) \ {o} : Entry(u, q) = Entry(v, q)
      BY <2>3, BookFillBook
    <3>2. QED BY <3>1
  <2>4. QED BY <2>1, <2>2, <2>3
<1> HIDE DEF u
<1>4. signals[o].reduceOnly => ReducesNet(u, o) /\ size <= Abs(Net(u))
  BY <1>2 DEF ReducesNet
<1>5. Known(w)
  BY <1>1, <1>2, <1>4, NumberedMoves
<1>6. w.book = u.book /\ FillsOf(w, p) = FillsOf(u, p)
  BY <1>1, <1>2, NumberedFills
<1>7. PICK m : m.o = o /\ Adds(u, w, <<m>>)
  BY <1>1, <1>2, NumberedFills DEF SaysFill
<1> HIDE DEF w
<1>8. x = w \/ x = Say(w, o, "CANCELLED")
  BY DEF Fills, w, u
<1>9. x.book = w.book /\ x.unapplied = w.unapplied
  BY <1>5, <1>8 DEF Say, Known, Tame
<1> HIDE DEF x
<1>10. Untouched(v, w, p)
  <2>1. Adds(v, w, <<m>>) /\ ~Said(<<m>>, p)
    BY <1>2, <1>7, OthersSay DEF Adds
  <2>2. FillsOf(w, p) = FillsOf(v, p)
    BY <1>2, <1>6 DEF FillsOf
  <2>3. BookOf(w) = BookOf(u) /\ Left(w, p) = Left(u, p)
    BY <1>6, SameBook
  <2>4. QED BY <1>3, <2>1, <2>2, <2>3 DEF Untouched, Left
<1>11. Serves(v, w, p)
  BY <1>10, UntouchedServes
<1>12. x = w \/ Untouched(w, x, p)
  <2>1. ASSUME x = Say(w, o, "CANCELLED") PROVE Untouched(w, x, p)
    <3> DEFINE s == StatusReport(o, "CANCELLED")
    <3>1. Adds(w, x, <<s>>) /\ s.o = o
      BY <1>5, <2>1, SaySays
    <3> HIDE DEF s
    <3>2. ~Said(<<s>>, p)
      BY <3>1, OthersSay
    <3>3. QED BY <1>9, <3>1, <3>2, SameBook DEF Untouched, FillsOf
  <2>2. QED BY <1>8, <2>1
<1>13. Serves(v, x, p)
  BY <1>11, <1>12, UntouchedServes, ServesOn
<1>14. QED BY <1>13 DEF x

\* The order that fills.
LEMMA FillsOwn ==
    ASSUME Solid, NEW v, Known(v), Sound(v), NEW o \in BookOf(v), NEW size \in Nat \ {0},
           NEW e, e = Entry(v, o), size <= e.working - e.filled,
           signals[o].reduceOnly => ReducesNet(v, o) /\ size <= Abs(Net(v)),
           NEW x, x = Fills(v, o, size)
    PROVE  /\ Known(x) /\ Sound(x) /\ Serves(v, x, o) /\ Said(x.out, o)
           /\ Net(x) = Net(v) + Direction(Side(o)) * size
           /\ e.filled + size < e.working =>
                 o \in BookOf(x) /\ Entry(x, o).filled = e.filled + size
           /\ e.filled + size >= e.working => o \notin BookOf(x)
<1> DEFINE u == BookFill(v, o, size)
           w == Numbered(u, o, size)
           done == e.filled + size >= e.working
<1>1. /\ o \in Orders /\ signals[o] \in Menu /\ e \in Entries
      /\ e.filled \in Nat /\ e.working \in Nat /\ e.asked \in Nat
      /\ e.working <= e.asked /\ (signals[o].reduceOnly \/ e.working = e.asked)
  <2>1. PICK i \in DOMAIN v.book : v.book[i].o = o /\ e = v.book[i]
    BY EntryIs
  <2>2. e \in Entries /\ signals[o] \in Menu
    BY <2>1 DEF Known, WorksOnce
  <2>3. e.working <= e.asked /\ (signals[o].reduceOnly \/ e.working = e.asked)
    BY <2>1 DEF Sound
  <2>4. e.o = o
    BY <2>1
  <2>5. QED BY <2>2, <2>3, <2>4 DEF Entries
<1>2. Known(u) /\ Net(u) = Net(v) /\ u.unapplied = v.unapplied /\ u.out = v.out /\ Sound(u)
  BY BookFillMoves, BookFillBook, SoundBookFill
<1>3. /\ done => o \notin BookOf(u)
      /\ ~done => o \in BookOf(u) /\ Entry(u, o) = [e EXCEPT !.filled = e.filled + size]
  <2>1. CASE done
    <3>1. u = TakeOff(v, o)
      BY <2>1, BookFillBook
    <3>2. BookOf(TakeOff(v, o)) = BookOf(v) \ {o}
      BY TakeOffBook
    <3>3. QED BY <2>1, <3>1, <3>2, Zenon
  <2>2. CASE ~done
    <3>1. e.filled + size < e.working
      BY <1>1, <2>2
    <3>2. BookOf(u) = BookOf(v) /\ Entry(u, o) = [e EXCEPT !.filled = e.filled + size]
      BY <3>1, BookFillBook
    <3>3. QED BY <2>2, <3>2
  <2>3. QED BY <2>1, <2>2
<1> HIDE DEF u
<1>4. signals[o].reduceOnly => ReducesNet(u, o) /\ size <= Abs(Net(u))
  BY <1>2 DEF ReducesNet
<1>5. Known(w) /\ Sound(w)
  BY <1>1, <1>2, <1>4, SoundNumbered
<1>6. w.book = u.book /\ Filling(w, o) = Filling(u, o) + size
  BY <1>1, <1>2, NumberedFills
<1>7. PICK m : SaysFill(u, w, o, size, m)
  BY <1>1, <1>2, NumberedFills
<1>n. Net(w) = Net(v) + Direction(Side(o)) * size
  BY <1>1, <1>2, <1>4, NumberedMoves
<1> HIDE DEF w
<1>8. Adds(v, w, <<m>>) /\ m.k = "fill" /\ m.o = o
      /\ FillsOf(w, o) = FillsOf(v, o) \cup {Record(signals, m)}
      /\ FillsOf(u, o) = FillsOf(v, o) /\ Filling(u, o) = Filling(v, o)
  BY <1>2, <1>7 DEF SaysFill, Adds, FillsOf, Filling
<1>9. /\ ReportOf(m, o) /\ ~Ends(m, o) /\ ~Begins(m, o)
  BY <1>8 DEF ReportOf, Ends, Begins
<1>10. /\ Said(<<m>>, o) /\ ~Ended(<<m>>, o) /\ ~Begun(<<m>>, o) /\ Clear(<<m>>, o)
       /\ Carries(<<m>>, Record(signals, m))
  BY <1>8, <1>9, VoiceOne
<1>11. /\ Said(w.out, o)
       /\ Ended(w.out, o) <=> Ended(v.out, o)
       /\ Begun(w.out, o) <=> Begun(v.out, o)
       /\ \A f : Carries(v.out, f) => Carries(w.out, f)
       /\ Carries(w.out, Record(signals, m))
  BY <1>8, <1>10, VoiceConcat DEF Adds
<1>12. Clear(v.out, o) /\ ~Ended(v.out, o) => Clear(w.out, o)
  BY <1>8, <1>10, ClearConcat DEF Adds
<1>13. /\ done => o \notin BookOf(w)
       /\ ~done => o \in BookOf(w) /\ Entry(w, o) = [e EXCEPT !.filled = e.filled + size]
  BY <1>3, <1>6, SameBook
<1> DEFINE short == done /\ e.working < e.asked
<1>14. x = IF short THEN Say(w, o, "CANCELLED") ELSE w
  BY DEF Fills, w, u
<1>15. Filling(v, o) \in Int
  BY <1>1, FillsAre DEF Known
<1> DEFINE s == StatusReport(o, "CANCELLED")
<1>16. short => /\ x.book = w.book /\ x.unapplied = w.unapplied /\ Adds(w, x, <<s>>)
                /\ s.k = "status" /\ s.o = o /\ s.st = "CANCELLED"
  BY <1>5, <1>14, SaySays
<1>17. ~short => x = w
  BY <1>14
<1>18. Known(x) /\ Sound(x) /\ Net(x) = Net(w)
  BY <1>5, <1>14, SoundSay, SayMoves
<1> HIDE DEF s
<1>19. short => Ends(s, o) /\ ReportOf(s, o) /\ ~Begins(s, o)
  BY <1>16 DEF Ends, ReportOf, Begins, TerminalStates
<1>20. short => /\ Ended(<<s>>, o) /\ ~Begun(<<s>>, o) /\ Clear(<<s>>, o) /\ Said(<<s>>, o)
  BY <1>16, <1>19, VoiceOne
<1>21. short => /\ Ended(x.out, o) /\ Said(x.out, o)
                /\ Begun(x.out, o) <=> Begun(w.out, o)
                /\ \A f : Carries(w.out, f) => Carries(x.out, f)
  BY <1>16, <1>20, VoiceConcat DEF Adds
<1>22. short => (Clear(w.out, o) /\ ~Ended(w.out, o) => Clear(x.out, o))
  BY <1>16, <1>20, ClearConcat DEF Adds
<1>23. BookOf(x) = BookOf(w) /\ Entry(x, o) = Entry(w, o) /\ FillsOf(x, o) = FillsOf(w, o)
       /\ Filling(x, o) = Filling(w, o)
  BY <1>16, <1>17, SameBook DEF FillsOf, Filling
<1>24. ASSUME NEW a \in Nat, NEW G, Tracks(v, o, a, G) PROVE Tracks(x, o, a, G)
  <2>1. /\ Clear(v.out, o) /\ ~Begun(v.out, o) /\ Accounts(v, v.out, o, a)
        /\ \A f \in FillsOf(v, o) : f \in G \/ Carries(v.out, f)
    BY <1>24 DEF Tracks
  <2>2. Filling(v, o) + (e.asked - e.filled) = a /\ ~Ended(v.out, o)
    BY <2>1 DEF Accounts, Left
  <2>3. Clear(x.out, o) /\ ~Begun(x.out, o)
    BY <1>11, <1>12, <1>17, <1>21, <1>22, <2>1, <2>2
  <2>4. \A f \in FillsOf(x, o) : f \in G \/ Carries(x.out, f)
    BY <1>8, <1>11, <1>17, <1>21, <1>23, <2>1
  <2>5. Filling(x, o) = Filling(v, o) + size
    BY <1>6, <1>8, <1>23
  <2>6. Accounts(x, x.out, o, a)
    <3>1. CASE ~done
      <4>1. x = w /\ o \in BookOf(x) /\ Entry(x, o) = [e EXCEPT !.filled = e.filled + size]
        BY <1>13, <1>17, <1>23, <3>1
      <4>2. Left(x, o) = e.asked - (e.filled + size)
        BY <1>1, <4>1 DEF Left, Entries
      <4>3. Filling(x, o) + Left(x, o) = a
        BY <1>1, <1>15, <2>2, <2>5, <4>2
      <4>4. ~Ended(x.out, o)
        BY <1>11, <2>2, <4>1
      <4>5. QED BY <4>1, <4>3, <4>4 DEF Accounts
    <3>2. CASE done
      <4>1. o \notin BookOf(x)
        BY <1>13, <1>23, <3>2
      <4>2. size = e.working - e.filled
        BY <1>1, <3>2
      <4>3. Filling(x, o) <= a /\ (e.working = e.asked => Filling(x, o) = a)
        BY <1>1, <1>15, <2>2, <2>5, <4>2
      <4>4. short \/ e.working = e.asked
        BY <1>1, <3>2
      <4>5. QED BY <1>21, <4>1, <4>3, <4>4 DEF Accounts
    <3>3. QED BY <3>1, <3>2
  <2>7. QED BY <2>3, <2>4, <2>6 DEF Tracks
<1>25. \A G : ~Idle(v, o, G)
  BY DEF Idle
<1>26. Said(x.out, o)
  BY <1>11, <1>17, <1>21
<1>27. e.filled + size < e.working => o \in BookOf(x) /\ Entry(x, o).filled = e.filled + size
  <2>1. ASSUME e.filled + size < e.working PROVE ~done
    BY <1>1, <2>1
  <2>2. ~done => [e EXCEPT !.filled = e.filled + size].filled = e.filled + size
    BY <1>1 DEF Entries
  <2>3. QED BY <1>13, <1>23, <2>1, <2>2
<1>28. Serves(v, x, o)
  BY <1>24, <1>25 DEF Serves
<1>29. e.filled + size >= e.working => o \notin BookOf(x)
  BY <1>13, <1>23
<1>30. QED BY <1>18, <1>26, <1>27, <1>28, <1>29, <1>n

\* A resting order that the tick crosses: it fills, and the reduce-only orders
\* are fitted to the net it leaves.
LEMMA CrossingIs ==
    ASSUME Solid, NEW v, Known(v), Fits(v), NEW o \in BookOf(v), NEW e, e = Entry(v, o)
    PROVE  \E size \in Nat \ {0} :
              /\ size <= e.working - e.filled
              /\ signals[o].reduceOnly => ReducesNet(v, o) /\ size <= Abs(Net(v))
              /\ FillCrossingLimit(v, o, FALSE) = RecheckReduceOnly(Fills(v, o, size))
              /\ e.filled = 0 /\ Offer(e.working) < e.working => e.filled + size < e.working
              /\ e.filled = 0 /\ Offer(e.working) >= e.working => e.filled + size >= e.working
<1>1. /\ o \in Orders /\ signals[o] \in Menu /\ e \in Entries /\ e.filled < e.working
      /\ signals[o].reduceOnly =>
            ReducesNet(v, o) /\ e.working - e.filled <= Abs(Net(v))
  BY EntryIs DEF Known, WorksOnce, Fits, Entries
<1>2. Net(v) \in Int /\ Abs(Net(v)) \in Nat
  BY NetInt, AbsIs DEF Known
<1> DEFINE size == Min({Offer(e.working), e.working - e.filled})
<1>3. e.working \in Nat \ {0} /\ e.filled \in Nat /\ e.working - e.filled \in Nat \ {0}
  BY <1>1 DEF Entries
<1>4. Offer(e.working) \in Nat \ {0}
  BY <1>3, OfferIs
<1>5. size = IF Offer(e.working) <= e.working - e.filled THEN Offer(e.working)
             ELSE e.working - e.filled
  BY <1>3, <1>4, MinOf
<1>6. FillCrossingLimit(v, o, FALSE) = RecheckReduceOnly(Fills(v, o, size))
  BY DEF FillCrossingLimit, Fills
<1> HIDE DEF size
<1>7. size \in Nat \ {0} /\ size <= e.working - e.filled
  BY <1>3, <1>4, <1>5
<1>8. signals[o].reduceOnly => ReducesNet(v, o) /\ size <= Abs(Net(v))
  BY <1>1, <1>2, <1>3, <1>7
<1>9. e.filled = 0 /\ Offer(e.working) < e.working => e.filled + size < e.working
  BY <1>3, <1>4, <1>5
<1>10. e.filled = 0 /\ Offer(e.working) >= e.working => e.filled + size >= e.working
  BY <1>3, <1>4, <1>5
<1>11. QED BY <1>6, <1>7, <1>8, <1>9, <1>10

LEMMA CrossingServes ==
    ASSUME Solid, NEW v, Known(v), Fits(v), Sound(v), NEW o \in BookOf(v), NEW missed \in BOOLEAN,
           NEW w, w = FillCrossingLimit(v, o, missed)
    PROVE  /\ Known(w) /\ Fits(w) /\ Sound(w) /\ \A p : Serves(v, w, p)
           /\ ~missed => Said(w.out, o)
           /\ ~missed /\ Entry(v, o).filled = 0 /\ Offer(Entry(v, o).working) < Entry(v, o).working
                 => o \in BookOf(w) /\ Entry(w, o).filled > 0
           /\ ~missed /\ Entry(v, o).filled = 0 /\ Offer(Entry(v, o).working) >= Entry(v, o).working
                 => o \notin BookOf(w)
<1>1. CASE missed
  <2>1. w = v
    BY <1>1 DEF FillCrossingLimit
  <2>2. QED BY <1>1, <2>1 DEF Serves
<1>2. CASE ~missed
  <2> DEFINE e == Entry(v, o)
  <2>0. w = FillCrossingLimit(v, o, FALSE)
    BY <1>2
  <2>1. PICK size \in Nat \ {0} :
            /\ size <= e.working - e.filled
            /\ signals[o].reduceOnly => ReducesNet(v, o) /\ size <= Abs(Net(v))
            /\ FillCrossingLimit(v, o, FALSE) = RecheckReduceOnly(Fills(v, o, size))
            /\ e.filled = 0 /\ Offer(e.working) < e.working => e.filled + size < e.working
            /\ e.filled = 0 /\ Offer(e.working) >= e.working => e.filled + size >= e.working
    BY CrossingIs
  <2> DEFINE x == Fills(v, o, size)
  <2>2. /\ Known(x) /\ Sound(x) /\ Serves(v, x, o) /\ Said(x.out, o)
        /\ Net(x) = Net(v) + Direction(Side(o)) * size
        /\ e.filled + size < e.working =>
               o \in BookOf(x) /\ Entry(x, o).filled = e.filled + size
        /\ e.filled + size >= e.working => o \notin BookOf(x)
    BY <2>1, FillsOwn
  <2>3. \A p : p # o => Serves(v, x, p)
    BY <2>1, FillsOthers
  <2>4. w = RecheckReduceOnly(x)
    BY <2>0, <2>1
  <2> HIDE DEF x
  <2>5. Sound(w) /\ Known(w) /\ Fits(w)
    BY <2>2, <2>4, SoundRecheck
  <2>6. \A p : Serves(x, w, p)
    BY <2>2, <2>4, RecheckServes
  <2>7. \A p : Serves(v, w, p)
    BY <2>2, <2>3, <2>6, ServesOn
  <2>8. Said(w.out, o)
    <3>1. PICK said : Drops(x, w, said)
      BY <2>2, <2>4, RecheckBook
    <3>2. IsList(x.out)
      BY <2>2 DEF Known, Tame, Reports
    <3>3. Adds(x, w, said)
      BY <3>1, <3>2, AddsIs, Zenon DEF Drops
    <3>4. QED BY <2>2, <3>3, VoiceConcat DEF Adds
  <2>9. ASSUME e.filled = 0, Offer(e.working) < e.working
        PROVE  o \in BookOf(w) /\ Entry(w, o).filled > 0
    <3>1. e.working \in Nat /\ o \in Orders /\ signals[o] \in Menu
      BY EntryIs DEF Known, WorksOnce, Entries
    <3> HIDE DEF e
    <3>2. size < e.working /\ o \in BookOf(x) /\ Entry(x, o).filled = size
      BY <2>1, <2>2, <2>9, <3>1
    <3>3. signals[o].reduceOnly => ReducesNet(x, o)
      <4>1. SUFFICES ASSUME signals[o].reduceOnly PROVE ReducesNet(x, o)
        OBVIOUS
      <4>2. Net(v) \in Int
        BY NetInt DEF Known
      <4>3. ReducesNet(v, o) /\ e.working <= Abs(Net(v))
        <5>1. PICK i \in DOMAIN v.book : v.book[i].o = o /\ Entry(v, o) = v.book[i]
          BY EntryIs
        <5>2. v.book[i].working - v.book[i].filled <= Abs(Net(v)) /\ ReducesNet(v, o)
          BY <4>1, <5>1 DEF Fits
        <5>3. e.working - 0 = e.working
          BY <3>1
        <5>4. QED BY <2>9, <5>1, <5>2, <5>3 DEF e
      <4>4. size \in Nat /\ size < e.working
        BY <3>2
      <4>5. CASE Side(o) = "sell"
        <5>1. Net(v) > 0 /\ Direction(Side(o)) = -1
          BY <4>3, <4>5 DEF ReducesNet, Direction
        <5>2. Abs(Net(v)) = Net(v)
          BY <4>2, <5>1, AbsIs
        <5>3. Net(x) = Net(v) - size
          BY <2>2, <4>2, <4>4, <5>1
        <5>4. Net(x) > 0
          BY <3>1, <4>2, <4>3, <4>4, <5>2, <5>3
        <5>5. QED BY <4>5, <5>4 DEF ReducesNet
      <4>6. CASE Side(o) # "sell"
        <5>1. Net(v) < 0 /\ Direction(Side(o)) = 1
          BY <3>1, <4>3, <4>6, TermsAre DEF ReducesNet
        <5>2. Abs(Net(v)) = -Net(v)
          BY <4>2, <5>1, AbsIs
        <5>3. Net(x) = Net(v) + size
          BY <2>2, <4>2, <4>4, <5>1
        <5>4. Net(x) < 0
          BY <3>1, <4>2, <4>3, <4>4, <5>2, <5>3
        <5>5. QED BY <4>6, <5>4 DEF ReducesNet
      <4>7. QED BY <4>5, <4>6
    <3>4. /\ \A p \in BookOf(w) : SameEntry(x, w, p)
          /\ \A p \in BookOf(x) : ~signals[p].reduceOnly \/ ReducesNet(x, p) => p \in BookOf(w)
      BY <2>2, <2>4, RecheckBook
    <3>5. o \in BookOf(w)
      BY <3>2, <3>3, <3>4
    <3>6. Entry(w, o).filled = size
      BY <3>2, <3>4, <3>5 DEF SameEntry
    <3>7. QED BY <3>5, <3>6
  <2>10. ASSUME e.filled = 0, Offer(e.working) >= e.working PROVE o \notin BookOf(w)
    <3>1. o \notin BookOf(x)
      BY <2>1, <2>2, <2>10
    <3>2. BookOf(w) \subseteq BookOf(x)
      BY <2>2, <2>4, RecheckBook
    <3>3. QED BY <3>1, <3>2
  <2>11. QED BY <1>2, <2>5, <2>7, <2>8, <2>9, <2>10
<1>3. QED BY <1>1, <1>2

LEMMA ServesSelf ==
    ASSUME NEW v, NEW o
    PROVE  Serves(v, v, o)
  BY DEF Serves

\* A tick: the fills the store has applied are forgotten, and the book is walked.
LEMMA MatchServes ==
    ASSUME Solid, NEW v, Known(v), Fits(v), Sound(v), v.out = <<>>, NEW price, NEW missed,
           NEW w, w = MatchBook(v, price, missed)
    PROVE  Known(w) /\ Sound(w) /\ \A p : Serves(v, w, p)
<1> DEFINE n == Len(v.book)
           u == [v EXCEPT !.price = price, !.unapplied = Unapplied(v)]
           Good(x) == Known(x) /\ Fits(x) /\ Sound(x) /\ \A p : Serves(v, x, p)
<1>0. n \in Nat
  BY ListFacts DEF Known, Tame
<1>1. PICK c : Walks(v, c, n, price, missed) /\ w = c[n]
  BY <1>0, MatchIsWalk
<1>2. \A i \in 0..n : c[i] = Walked(v, c, i, price, missed)
  <2>1. c = [i \in 0..n |-> Walked(v, c, i, price, missed)]
    BY <1>1 DEF Walks
  <2>2. QED BY <2>1
<1>3. Known(u) /\ Fits(u)
  BY PrunedKeeps
<1>4. c[0] = u
  BY <1>0, <1>2 DEF Walked
<1>5. Good(u)
  <2>1. u.book = v.book /\ u.out = v.out /\ u.unapplied = Unapplied(v)
    BY DEF Known, Tame
  <2> HIDE DEF u
  <2>2. Sound(u)
    BY <2>1 DEF Sound, Unapplied
  <2>3. ASSUME NEW p PROVE Untouched(v, u, p)
    <3>1. Adds(v, u, <<>>) /\ ~Said(<<>>, p)
      BY <2>1, AddsNone, VoiceNone DEF Known, Tame, Reports
    <3>2. FillsOf(u, p) = FillsOf(v, p)
      BY <2>1 DEF FillsOf, Unapplied
    <3>3. QED BY <2>1, <3>1, <3>2, SameBook DEF Untouched
  <2>4. QED BY <1>3, <2>2, <2>3, UntouchedServes
<1> HIDE DEF u
<1> DEFINE C == {k \in Nat : k <= n => Good(c[k])}
<1>6. 0 \in C
  BY <1>4, <1>5
<1>7. ASSUME NEW k \in Nat, k \in C, k + 1 <= n PROVE Good(c[k + 1])
  <2>1. Good(c[k])
    BY <1>0, <1>7
  <2>2. k + 1 \in 0..n /\ k + 1 # 0 /\ (k + 1) - 1 = k
    BY <1>0, <1>7
  <2>3. c[k + 1] = Walked(v, c, k + 1, price, missed)
    BY <1>2, <2>2
  <2> DEFINE o == v.book[k + 1].o
             miss == o \in missed
  <2>4. \/ Resting(c[k], o) # {} /\ c[k + 1] = FillCrossingLimit(c[k], o, miss)
        \/ c[k + 1] = c[k]
    BY <2>2, <2>3 DEF Walked
  <2>m. miss \in BOOLEAN
    OBVIOUS
  <2> HIDE DEF o, miss
  <2>5. CASE c[k + 1] = c[k]
    BY <2>1, <2>5
  <2>6. CASE Resting(c[k], o) # {} /\ c[k + 1] = FillCrossingLimit(c[k], o, miss)
    <3>1. o \in BookOf(c[k])
      BY <2>6 DEF Resting, BookOf
    <3>3. Known(c[k + 1]) /\ Fits(c[k + 1]) /\ Sound(c[k + 1]) /\ \A p : Serves(c[k], c[k + 1], p)
      BY <2>1, <2>6, <2>m, <3>1, CrossingServes
    <3>4. QED BY <2>1, <3>3, ServesOn
  <2>7. QED BY <2>4, <2>5, <2>6
<1>8. n \in C
  <2>1. ASSUME NEW k \in Nat, k \in C PROVE k + 1 \in C
    <3>1. CASE k + 1 <= n
      BY <1>7, <2>1, <3>1
    <3>2. CASE ~(k + 1 <= n)
      BY <3>2
    <3>3. QED BY <3>1, <3>2
  <2> HIDE DEF C
  <2>2. QED BY <1>0, <1>6, <2>1, ClimbNat
<1>9. Good(c[n])
  BY <1>0, <1>8
<1>10. QED BY <1>1, <1>9

\* An order is taken off the book and said to be cancelled.
LEMMA CancelledServes ==
    ASSUME Solid, NEW v, Known(v), Sound(v), NEW o \in BookOf(v),
           NEW w, w = Say(TakeOff(v, o), o, "CANCELLED")
    PROVE  /\ Known(w) /\ Sound(w) /\ \A p : Serves(v, w, p)
           /\ BookOf(w) = BookOf(v) \ {o} /\ Said(w.out, o)
<1> DEFINE u == TakeOff(v, o)
           s == StatusReport(o, "CANCELLED")
<1>1. Known(u) /\ Sound(u)
  BY SoundTakeOff
<1>2. /\ BookOf(u) = BookOf(v) \ {o}
      /\ \A p \in BookOf(u) : Entry(u, p) = Entry(v, p)
      /\ u.out = v.out /\ u.unapplied = v.unapplied
  BY TakeOffBook
<1> HIDE DEF u
<1>3. w = Say(u, o, "CANCELLED")
  BY DEF u
<1>4. Known(w) /\ Sound(w)
  BY <1>1, <1>3, SoundSay
<1>5. /\ w.book = u.book /\ w.unapplied = u.unapplied /\ Adds(u, w, <<s>>)
      /\ s.k = "status" /\ s.o = o /\ s.st = "CANCELLED"
  BY <1>1, <1>3, SaySays
<1> HIDE DEF s
<1>6. Adds(v, w, <<s>>) /\ BookOf(w) = BookOf(u) /\ \A p : Entry(w, p) = Entry(u, p)
  BY <1>2, <1>5, SameBook DEF Adds
<1>7. \A p : FillsOf(w, p) = FillsOf(v, p) /\ Filling(w, p) = Filling(v, p)
  BY <1>2, <1>5 DEF FillsOf, Filling
<1>8. ASSUME NEW p, p # o PROVE Serves(v, w, p)
  <2>1. ~Said(<<s>>, p)
    BY <1>5, <1>8, OthersSay
  <2>2. Untouched(v, w, p)
    BY <1>2, <1>6, <1>7, <1>8, <2>1 DEF Untouched, Left
  <2>3. QED BY <2>2, UntouchedServes
<1>9. Ends(s, o) /\ ReportOf(s, o) /\ ~Begins(s, o)
  BY <1>5 DEF Ends, ReportOf, Begins, TerminalStates
<1>10. Ended(<<s>>, o) /\ ~Begun(<<s>>, o) /\ Clear(<<s>>, o) /\ Said(<<s>>, o)
  BY <1>5, <1>9, VoiceOne
<1>11. Ended(w.out, o) /\ Said(w.out, o) /\ (Begun(w.out, o) <=> Begun(v.out, o))
       /\ \A f : Carries(v.out, f) => Carries(w.out, f)
  BY <1>6, <1>10, VoiceConcat DEF Adds
<1>12. Clear(v.out, o) /\ ~Ended(v.out, o) => Clear(w.out, o)
  BY <1>6, <1>10, ClearConcat DEF Adds
<1>13. Left(v, o) \in Nat /\ Filling(v, o) \in Int
  <2>1. PICK i \in DOMAIN v.book : v.book[i].o = o
    BY DEF BookOf
  <2>2. Entry(v, o) = v.book[i]
    BY <2>1, EntryAt DEF Known
  <2>3. /\ v.book[i] \in Entries /\ v.book[i].filled < v.book[i].working
        /\ v.book[i].working <= v.book[i].asked /\ signals[o] \in Menu
    BY <2>1 DEF Known, WorksOnce, Sound
  <2>4. Left(v, o) \in Nat
    BY <2>2, <2>3 DEF Left, Entries
  <2>5. QED BY <2>3, <2>4, FillsAre DEF Known
<1>14. ASSUME NEW a \in Nat, NEW G, Tracks(v, o, a, G) PROVE Tracks(w, o, a, G)
  <2>1. /\ Clear(v.out, o) /\ ~Begun(v.out, o) /\ Accounts(v, v.out, o, a)
        /\ \A f \in FillsOf(v, o) : f \in G \/ Carries(v.out, f)
    BY <1>14 DEF Tracks
  <2>2. Filling(v, o) + Left(v, o) = a /\ ~Ended(v.out, o)
    BY <2>1 DEF Accounts
  <2>3. Filling(w, o) <= a
    BY <1>7, <1>13, <2>2
  <2>4. Accounts(w, w.out, o, a)
    BY <1>2, <1>6, <1>11, <2>3 DEF Accounts
  <2>5. QED BY <1>7, <1>11, <1>12, <2>1, <2>2, <2>4 DEF Tracks
<1>15. \A G : ~Idle(v, o, G)
  BY DEF Idle
<1>16. Serves(v, w, o)
  BY <1>14, <1>15 DEF Serves
<1>17. QED BY <1>2, <1>4, <1>6, <1>8, <1>11, <1>16

LEMMA CancelServes ==
    ASSUME Solid, NEW v, Known(v), Sound(v), NEW o, NEW w, w = Cancel(v, o)
    PROVE  Known(w) /\ Sound(w) /\ \A p : Serves(v, w, p)
<1>1. CASE Resting(v, o) = {}
  <2>1. w = v
    BY <1>1 DEF Cancel
  <2>2. QED BY <2>1, ServesSelf
<1>2. CASE Resting(v, o) # {}
  <2>1. w = Say(TakeOff(v, o), o, "CANCELLED")
    BY <1>2 DEF Cancel
  <2>2. o \in BookOf(v)
    BY <1>2 DEF Resting, BookOf
  <2>3. QED BY <2>1, <2>2, CancelledServes
<1>3. QED BY <1>1, <1>2

LEMMA TotalNone == Total({}) = 0
<1> DEFINE fun == [f \in {} |-> f.size]
<1>1. DOMAIN fun = {}
  OBVIOUS
<1>2. SumFunctionOnSet(fun, {}) = 0
  BY FS_EmptySet, SumUnfolds
<1>3. QED BY <1>1, <1>2 DEF Total, SumFunction

LEMMA TracksTaken ==
    ASSUME NEW w, NEW o, NEW a, Tracks(w, o, a, {}), Said(w.out, o),
           o \in BookOf(w) => signals[o].type = "limit" /\ signals[o].tif = "gtc"
    PROVE  Taken(w, o, a)
  BY DEF Tracks, Taken

\* A status leaves the other orders alone.
LEMMA SayOthers ==
    ASSUME NEW v, Known(v), NEW o, NEW st, NEW w, w = Say(v, o, st), NEW p, p # o
    PROVE  Serves(v, w, p)
<1> DEFINE s == StatusReport(o, st)
<1>1. w.book = v.book /\ w.unapplied = v.unapplied /\ Adds(v, w, <<s>>) /\ s.o = o
  BY SaySays
<1> HIDE DEF s
<1>2. ~Said(<<s>>, p)
  BY <1>1, OthersSay
<1>3. Untouched(v, w, p)
  BY <1>1, <1>2, SameBook DEF Untouched, FillsOf
<1>4. QED BY <1>3, UntouchedServes

\* An order that does not rest is said to be over.
LEMMA EndsTaken ==
    ASSUME Solid, NEW v, Known(v), Sound(v), NEW o, o \notin BookOf(v), NEW a, Filling(v, o) <= a,
           Clear(v.out, o), ~Ended(v.out, o), \A f \in FillsOf(v, o) : Carries(v.out, f),
           NEW st \in {"CANCELLED", "REJECTED", "FAILED"}, st # "CANCELLED" => ~Said(v.out, o),
           NEW w, w = Say(v, o, st)
    PROVE  /\ Taken(w, o, a) /\ Known(w) /\ Sound(w) /\ BookOf(w) = BookOf(v)
           /\ \A p : p # o => Serves(v, w, p)
           /\ st = "CANCELLED" /\ ~Begun(v.out, o) => ~Begun(w.out, o)
<1> DEFINE s == StatusReport(o, st)
<1>1. /\ w.book = v.book /\ w.unapplied = v.unapplied /\ Adds(v, w, <<s>>)
      /\ s.k = "status" /\ s.o = o /\ s.st = st
  BY SaySays
<1> HIDE DEF s
<1>2. Known(w) /\ Sound(w)
  BY SoundSay
<1>3. /\ Ends(s, o) /\ ReportOf(s, o) /\ (Begins(s, o) => st # "CANCELLED")
  BY <1>1 DEF Ends, ReportOf, Begins, TerminalStates
<1>4. /\ Ended(<<s>>, o) /\ Clear(<<s>>, o) /\ Said(<<s>>, o)
      /\ (Begun(<<s>>, o) => st # "CANCELLED")
  BY <1>1, <1>3, VoiceOne
<1>5. /\ Ended(w.out, o) /\ Said(w.out, o) /\ (Begun(w.out, o) => Begun(v.out, o) \/ st # "CANCELLED")
      /\ \A f : Carries(v.out, f) => Carries(w.out, f)
  BY <1>1, <1>4, VoiceConcat DEF Adds
<1>6. Clear(w.out, o)
  BY <1>1, <1>4, ClearConcat DEF Adds
<1>7. BookOf(w) = BookOf(v) /\ FillsOf(w, o) = FillsOf(v, o) /\ Filling(w, o) = Filling(v, o)
  BY <1>1, SameBook DEF FillsOf, Filling
<1>8. Accounts(w, w.out, o, a)
  BY <1>5, <1>7 DEF Accounts
<1>9. QED BY <1>2, <1>5, <1>6, <1>7, <1>8, SayOthers DEF Taken

LEMMA FreshIs ==
    ASSUME NEW v, NEW o, NEW size, Fresh(v, o, size)
    PROVE  /\ Solid /\ Known(v) /\ Fits(v) /\ Sound(v) /\ o \in Orders /\ o \notin BookOf(v)
           /\ signals[o] \in Menu /\ size \in Nat \ {0}
           /\ FillsOf(v, o) = {} /\ Filling(v, o) = 0
           /\ ~Said(v.out, o) /\ ~Ended(v.out, o) /\ ~Begun(v.out, o) /\ Clear(v.out, o)
<1>1. Total(FillsOf(v, o)) = 0
  BY TotalNone DEF Fresh
<1>2. signals[o] \in Menu
  BY DEF Fresh, Arrives
<1>3. Direction(Side(o)) \in {1, -1}
  BY <1>2, TermsAre
<1>4. Filling(v, o) = 0
  BY <1>1, <1>3 DEF Filling
<1>5. QED BY <1>4, VoiceNone DEF Fresh, Arrives

LEMMA RefusedPlaced ==
    ASSUME NEW v, NEW o, NEW size, Fresh(v, o, size),
           NEW st \in {"CANCELLED", "REJECTED", "FAILED"}, NEW w, w = Say(v, o, st)
    PROVE  Placed(v, w, o, size)
<1>1. /\ Solid /\ Known(v) /\ Sound(v) /\ o \notin BookOf(v) /\ size \in Nat
      /\ FillsOf(v, o) = {} /\ Filling(v, o) = 0
      /\ ~Said(v.out, o) /\ ~Ended(v.out, o) /\ Clear(v.out, o)
  BY FreshIs
<1>2. Filling(v, o) <= size
  BY <1>1
<1>3. QED BY <1>1, <1>2, EndsTaken DEF Placed

\* What was said stays said.
LEMMA RecheckSays ==
    ASSUME Solid, NEW v, Known(v), NEW w, w = RecheckReduceOnly(v), NEW o, Said(v.out, o)
    PROVE  Said(w.out, o)
<1>0. IsList(v.out)
  BY DEF Known, Tame, Reports
<1>1. PICK said : Drops(v, w, said)
  BY RecheckBook
<1>2. Adds(v, w, said)
  BY <1>0, <1>1, AddsIs, Zenon DEF Drops
<1>3. QED BY <1>2, VoiceConcat DEF Adds

LEMMA RecheckPlaced ==
    ASSUME Solid, NEW v, NEW x, NEW o, NEW a \in Nat, Placed(v, x, o, a), ~Begun(x.out, o),
           o \notin BookOf(x), NEW w, w = RecheckReduceOnly(x)
    PROVE  Placed(v, w, o, a)
<1>1. Known(x) /\ Sound(x) /\ Taken(x, o, a)
  BY DEF Placed
<1>2. Tracks(x, o, a, {})
  BY <1>1 DEF Taken, Tracks
<1>3. \A p : Serves(x, w, p)
  BY <1>1, RecheckServes
<1>4. Tracks(w, o, a, {})
  BY <1>2, <1>3 DEF Serves
<1>5. Said(w.out, o)
  BY <1>1, RecheckSays DEF Taken
<1>6. o \notin BookOf(w)
  BY <1>1, RecheckBook
<1>7. Known(w) /\ Sound(w)
  BY <1>1, SoundRecheck
<1>8. Taken(w, o, a)
  BY <1>4, <1>5, <1>6, TracksTaken
<1>9. \A p : p # o => Serves(v, w, p)
  BY <1>3, ServesOn DEF Placed
<1>10. QED BY <1>7, <1>8, <1>9 DEF Placed

\* A market order fills at once what it may work.
LEMMA MarketPlaced ==
    ASSUME NEW v, NEW o, NEW size, Fresh(v, o, size), signals[o].reduceOnly => ReducesNet(v, o),
           NEW w, w = PlaceMarket(v, o, size)
    PROVE  Placed(v, w, o, size)
<1> DEFINE working == WorkingSize(v, o, size)
           filled == Numbered(v, o, working)
           after == IF working < size THEN Say(filled, o, "CANCELLED") ELSE filled
<1>1. /\ Solid /\ Known(v) /\ Sound(v) /\ o \in Orders /\ o \notin BookOf(v)
      /\ signals[o] \in Menu /\ size \in Nat \ {0}
      /\ FillsOf(v, o) = {} /\ Filling(v, o) = 0
      /\ ~Said(v.out, o) /\ ~Ended(v.out, o) /\ ~Begun(v.out, o) /\ Clear(v.out, o)
  BY FreshIs
<1>2. /\ working \in Nat \ {0} /\ working <= size
      /\ signals[o].reduceOnly => working <= Abs(Net(v))
  BY <1>1, WorkingIs DEF Known
<1>3. w = Say(v, o, "REJECTED") \/ w = RecheckReduceOnly(after)
  BY DEF PlaceMarket
<1> HIDE DEF working
<1>4. Known(filled) /\ Sound(filled)
  BY <1>1, <1>2, SoundNumbered
<1>5. /\ Filling(filled, o) = working /\ filled.book = v.book
      /\ \A p : p # o => FillsOf(filled, p) = FillsOf(v, p)
  BY <1>1, <1>2, NumberedFills
<1>6. PICK m : SaysFill(v, filled, o, working, m)
  BY <1>1, <1>2, NumberedFills
<1> HIDE DEF filled
<1>7. BookOf(filled) = BookOf(v) /\ \A p : Left(filled, p) = Left(v, p)
  BY <1>5, SameBook
<1>8. /\ m.k = "fill" /\ m.o = o /\ Adds(v, filled, <<m>>)
      /\ FillsOf(filled, o) = {Record(signals, m)}
  BY <1>1, <1>6 DEF SaysFill
<1>9. ReportOf(m, o) /\ ~Ends(m, o) /\ ~Begins(m, o)
  BY <1>8 DEF ReportOf, Ends, Begins
<1>10. /\ Said(<<m>>, o) /\ ~Ended(<<m>>, o) /\ ~Begun(<<m>>, o) /\ Clear(<<m>>, o)
       /\ Carries(<<m>>, Record(signals, m))
  BY <1>8, <1>9, VoiceOne
<1>11. /\ Said(filled.out, o) /\ ~Ended(filled.out, o) /\ ~Begun(filled.out, o)
       /\ Carries(filled.out, Record(signals, m))
  BY <1>1, <1>8, <1>10, VoiceConcat DEF Adds
<1>12. Clear(filled.out, o)
  BY <1>1, <1>8, <1>10, ClearConcat DEF Adds
<1>13. \A p : p # o => Serves(v, filled, p)
  <2>1. \A p : p # o => ~Said(<<m>>, p)
    BY <1>8, OthersSay
  <2>2. \A p : p # o => Untouched(v, filled, p)
    BY <1>5, <1>7, <1>8, <2>1 DEF Untouched
  <2>3. QED BY <2>2, UntouchedServes
<1>14. Placed(v, after, o, size) /\ ~Begun(after.out, o) /\ o \notin BookOf(after)
  <2>1. CASE working < size
    <3>1. after = Say(filled, o, "CANCELLED")
      BY <2>1
    <3> HIDE DEF after
    <3>2. /\ Taken(after, o, size) /\ Known(after) /\ Sound(after)
          /\ BookOf(after) = BookOf(filled) /\ ~Begun(after.out, o)
          /\ \A p : p # o => Serves(filled, after, p)
      <4>1. o \notin BookOf(filled) /\ Filling(filled, o) <= size
            /\ \A f \in FillsOf(filled, o) : Carries(filled.out, f)
        BY <1>1, <1>2, <1>5, <1>7, <1>8, <1>11
      <4>2. QED BY <1>1, <1>4, <1>11, <1>12, <3>1, <4>1, EndsTaken
    <3>3. QED BY <1>1, <1>7, <1>13, <3>2, ServesOn DEF Placed
  <2>2. CASE ~(working < size)
    <3>1. after = filled /\ working = size
      BY <1>1, <1>2, <2>2
    <3>2. Accounts(filled, filled.out, o, size)
      BY <1>1, <1>5, <1>7, <3>1 DEF Accounts
    <3>3. Taken(filled, o, size)
      BY <1>1, <1>7, <1>8, <1>11, <1>12, <3>2 DEF Taken
    <3>4. QED BY <1>1, <1>4, <1>7, <1>11, <1>13, <3>1, <3>3 DEF Placed
  <2>3. QED BY <2>1, <2>2
<1> HIDE DEF after
<1>15. QED BY <1>1, <1>3, <1>14, RefusedPlaced, RecheckPlaced

\* An order that comes to rest.
LEMMA RestedIs ==
    ASSUME NEW v, NEW o, NEW size, Fresh(v, o, size), signals[o].reduceOnly => ReducesNet(v, o),
           NEW u, u = Rest(v, o, size)
    PROVE  /\ Known(u) /\ Fits(u) /\ Sound(u) /\ u.out = <<>> /\ o \in BookOf(u)
           /\ Entry(u, o).working = WorkingSize(v, o, size) /\ Entry(u, o).filled = 0
           /\ Tracks(u, o, size, {}) /\ \A p : p # o => Serves(v, u, p)
<1> DEFINE working == WorkingSize(v, o, size)
           e == [o |-> o, asked |-> size, filled |-> 0, working |-> working]
           n == Len(v.book)
<1>1. /\ Solid /\ Known(v) /\ Fits(v) /\ Sound(v) /\ o \in Orders /\ o \notin BookOf(v)
      /\ signals[o] \in Menu /\ size \in Nat \ {0}
      /\ FillsOf(v, o) = {} /\ Filling(v, o) = 0 /\ v.out = <<>>
  BY FreshIs DEF Fresh
<1>2. Known(u) /\ Fits(u) /\ BookOf(u) = BookOf(v) \cup {o}
  BY <1>1, RestMoves
<1>3. /\ working \in 1..size /\ (~signals[o].reduceOnly => working = size)
  BY <1>1, WorkingIs DEF Known, WorkingSize
<1>4. /\ u.book = Append(v.book, e) /\ u.unapplied = v.unapplied /\ u.out = v.out
  BY <1>1 DEF Rest, Known, Tame
<1> HIDE DEF working
<1>5. e.o = o /\ e.asked = size /\ e.filled = 0 /\ e.working = working
  OBVIOUS
<1> HIDE DEF e
<1>6. n \in Nat /\ DOMAIN v.book = 1..n
  BY <1>1, ListFacts DEF Known, Tame
<1>7. /\ DOMAIN u.book = 1..(n + 1) /\ \A i \in 1..n : u.book[i] = v.book[i]
      /\ u.book[n + 1] = e
  <2>1. /\ DOMAIN Append(v.book, e) = 1..(n + 1)
        /\ \A i \in 1..n : Append(v.book, e)[i] = v.book[i]
        /\ Append(v.book, e)[n + 1] = e
    BY <1>1, ListAppend DEF Known, Tame
  <2>2. QED BY <1>4, <2>1, Zenon
<1> HIDE DEF n
<1>8. \A i \in 1..(n + 1) : i \in 1..n \/ i = n + 1
  BY <1>6
<1>w. WorksOnce(u) /\ WorksOnce(v)
  BY <1>1, <1>2 DEF Known
<1>9. Entry(u, o) = e
  <2>1. n + 1 \in DOMAIN u.book
    BY <1>6, <1>7
  <2>2. QED BY <1>5, <1>7, <1>w, <2>1, EntryAt
<1>10. ASSUME NEW p \in BookOf(v) PROVE Entry(u, p) = Entry(v, p)
  <2>1. PICK i \in 1..n : v.book[i].o = p
    BY <1>6 DEF BookOf
  <2>2. i \in DOMAIN u.book /\ i \in DOMAIN v.book /\ u.book[i] = v.book[i]
    BY <1>6, <1>7
  <2>3. Entry(u, u.book[i].o) = u.book[i] /\ Entry(v, v.book[i].o) = v.book[i]
    BY <1>w, <2>2, EntryAt
  <2>4. QED BY <2>1, <2>2, <2>3
<1>11. Sound(u)
  <2>1. ASSUME NEW i \in 1..(n + 1)
        PROVE  /\ u.book[i].working <= u.book[i].asked
               /\ signals[u.book[i].o].reduceOnly \/ u.book[i].working = u.book[i].asked
    <3>1. CASE i \in 1..n
      BY <1>1, <1>6, <1>7, <3>1 DEF Sound
    <3>2. CASE i = n + 1
      BY <1>3, <1>5, <1>7, <3>2
    <3>3. QED BY <1>8, <3>1, <3>2
  <2>2. QED BY <1>1, <1>4, <1>7, <2>1 DEF Sound
<1>12. FillsOf(u, o) = {} /\ Filling(u, o) = 0 /\ \A p : FillsOf(u, p) = FillsOf(v, p)
  BY <1>1, <1>4 DEF FillsOf, Filling
<1>13. Tracks(u, o, size, {})
  <2>1. Left(u, o) = size
    BY <1>1, <1>5, <1>9 DEF Left
  <2>2. ~Ended(u.out, o) /\ ~Begun(u.out, o) /\ Clear(u.out, o)
    BY <1>1, <1>4, VoiceNone
  <2>3. Accounts(u, u.out, o, size)
    BY <1>1, <1>2, <1>12, <2>1, <2>2 DEF Accounts
  <2>4. QED BY <1>12, <2>2, <2>3 DEF Tracks
<1>14. \A p : p # o => Serves(v, u, p)
  <2>1. Adds(v, u, <<>>)
    BY <1>1, <1>4, AddsNone DEF Known, Tame, Reports
  <2>2. \A p : p # o => Untouched(v, u, p)
    BY <1>2, <1>10, <1>12, <2>1, VoiceNone DEF Untouched, Left
  <2>3. QED BY <2>2, UntouchedServes
<1>15. QED BY <1>1, <1>2, <1>4, <1>5, <1>9, <1>11, <1>13, <1>14 DEF working

\* It is said to be live.
LEMMA LivePlaced ==
    ASSUME NEW v, NEW o, NEW size, Fresh(v, o, size), signals[o].reduceOnly => ReducesNet(v, o),
           signals[o].type = "limit", signals[o].tif = "gtc",
           NEW w, w = Say(Rest(v, o, size), o, "LIVE")
    PROVE  Placed(v, w, o, size)
<1> DEFINE u == Rest(v, o, size)
           s == StatusReport(o, "LIVE")
<1>1. /\ Known(u) /\ Sound(u) /\ u.out = <<>> /\ o \in BookOf(u)
      /\ Tracks(u, o, size, {}) /\ \A p : p # o => Serves(v, u, p)
  BY RestedIs
<1> HIDE DEF u
<1>2. w = Say(u, o, "LIVE") /\ Solid
  BY DEF u, Fresh, Arrives
<1>3. /\ w.book = u.book /\ w.unapplied = u.unapplied /\ Adds(u, w, <<s>>)
      /\ s.k = "status" /\ s.o = o /\ s.st = "LIVE"
  BY <1>1, <1>2, SaySays
<1> HIDE DEF s
<1>4. Known(w) /\ Sound(w)
  BY <1>1, <1>2, SoundSay
<1>5. ~Ends(s, o) /\ ReportOf(s, o)
  BY <1>3 DEF Ends, ReportOf, TerminalStates
<1>6. ~Ended(<<s>>, o) /\ Clear(<<s>>, o) /\ Said(<<s>>, o)
  BY <1>3, <1>5, VoiceOne
<1>7. ~Said(u.out, o) /\ ~Ended(u.out, o) /\ Clear(u.out, o) /\ \A f : ~Carries(u.out, f)
  BY <1>1, VoiceNone
<1>8. ~Ended(w.out, o) /\ Said(w.out, o) /\ Clear(w.out, o)
  BY <1>3, <1>6, <1>7, VoiceConcat, ClearConcat DEF Adds
<1>9. /\ FillsOf(u, o) = {} /\ Filling(u, o) + Left(u, o) = size
  BY <1>1, <1>7 DEF Tracks, Accounts
<1>10. /\ FillsOf(w, o) = {} /\ Filling(w, o) = Filling(u, o) /\ Left(w, o) = Left(u, o)
       /\ BookOf(w) = BookOf(u)
  <2>1. FillsOf(w, o) = FillsOf(u, o)
    BY <1>3 DEF FillsOf
  <2>2. BookOf(w) = BookOf(u) /\ Left(w, o) = Left(u, o)
    BY <1>3, SameBook
  <2>3. QED BY <1>9, <2>1, <2>2 DEF Filling
<1>11. Accounts(w, w.out, o, size)
  BY <1>1, <1>8, <1>9, <1>10 DEF Accounts
<1>12. Taken(w, o, size)
  BY <1>8, <1>10, <1>11 DEF Taken
<1>13. \A p : p # o => Serves(v, w, p)
  BY <1>1, <1>2, SayOthers, ServesOn
<1>14. QED BY <1>4, <1>12, <1>13 DEF Placed

\* A limit order fills what it crosses, and rests or is cancelled.
LEMMA LimitPlaced ==
    ASSUME NEW v, NEW o, NEW size, Fresh(v, o, size), signals[o].reduceOnly => ReducesNet(v, o),
           signals[o].type = "limit", NEW missed \in BOOLEAN,
           NEW w, w = PlaceLimit(v, o, size, missed)
    PROVE  Placed(v, w, o, size)
<1> DEFINE working == WorkingSize(v, o, size)
           rested == Rest(v, o, size)
           arrived == FillCrossingLimit(rested, o, missed)
<1>1. Solid /\ size \in Nat \ {0} /\ signals[o] \in Menu
  BY FreshIs
<1>2. signals[o].tif \in {"gtc", "ioc"}
  BY <1>1, PaperAssumption
<1>3. \/ \E st \in {"CANCELLED", "REJECTED"} : w = Say(v, o, st)
      \/ ~missed /\ Offer(working) >= working /\ w = arrived
      \/ /\ missed \/ ~(Offer(working) >= working)
         /\ signals[o].tif = "ioc" /\ w = Say(TakeOff(arrived, o), o, "CANCELLED")
      \/ /\ missed \/ ~(Offer(working) >= working)
         /\ signals[o].tif # "ioc" /\ HasPartial(arrived, o) /\ w = arrived
      \/ /\ missed \/ ~(Offer(working) >= working)
         /\ signals[o].tif # "ioc" /\ ~HasPartial(arrived, o) /\ w = Say(arrived, o, "LIVE")
      \/ signals[o].tif # "ioc" /\ w = Say(rested, o, "LIVE")
  BY DEF PlaceLimit
<1>4. /\ Known(rested) /\ Fits(rested) /\ Sound(rested) /\ o \in BookOf(rested)
      /\ Entry(rested, o).working = working /\ Entry(rested, o).filled = 0
      /\ Tracks(rested, o, size, {}) /\ \A p : p # o => Serves(v, rested, p)
  BY RestedIs
<1>5. working \in Nat /\ Offer(working) \in Nat
  BY <1>1, WorkingIs, OfferIs DEF Fresh, Arrives, Known
<1>6. w = Say(rested, o, "LIVE") /\ signals[o].tif # "ioc" => Placed(v, w, o, size)
  BY <1>2, LivePlaced
<1>7. missed => arrived = rested
  BY DEF FillCrossingLimit
<1> HIDE DEF working, rested
<1>8. /\ Known(arrived) /\ Sound(arrived) /\ \A p : Serves(rested, arrived, p)
      /\ ~missed => Said(arrived.out, o)
      /\ ~missed /\ Offer(working) < working => o \in BookOf(arrived) /\ Entry(arrived, o).filled > 0
      /\ ~missed /\ Offer(working) >= working => o \notin BookOf(arrived)
  BY <1>1, <1>4, CrossingServes
<1> HIDE DEF arrived
<1>9. Tracks(arrived, o, size, {}) /\ \A p : p # o => Serves(v, arrived, p)
  BY <1>1, <1>4, <1>8, ServesOn DEF Serves
<1>10. CASE \E st \in {"CANCELLED", "REJECTED"} : w = Say(v, o, st)
  BY <1>10, RefusedPlaced
<1>11. CASE ~missed /\ Offer(working) >= working /\ w = arrived
  BY <1>8, <1>9, <1>11, TracksTaken DEF Placed
<1>12. CASE /\ missed \/ ~(Offer(working) >= working)
            /\ signals[o].tif = "ioc" /\ w = Say(TakeOff(arrived, o), o, "CANCELLED")
  <2>1. o \in BookOf(arrived)
    BY <1>4, <1>5, <1>7, <1>8, <1>12
  <2>2. /\ Known(w) /\ Sound(w) /\ \A p : Serves(arrived, w, p)
        /\ BookOf(w) = BookOf(arrived) \ {o} /\ Said(w.out, o)
    BY <1>1, <1>8, <1>12, <2>1, CancelledServes
  <2>3. Tracks(w, o, size, {}) /\ \A p : p # o => Serves(v, w, p)
    BY <1>1, <1>9, <2>2, ServesOn DEF Serves
  <2>4. QED BY <2>2, <2>3, TracksTaken DEF Placed
<1>13. CASE signals[o].tif # "ioc" /\ HasPartial(arrived, o) /\ w = arrived
  <2>1. ~missed
    BY <1>4, <1>7, <1>13 DEF HasPartial
  <2>2. QED BY <1>2, <1>8, <1>9, <1>13, <2>1, TracksTaken DEF Placed
<1>14. CASE /\ missed \/ ~(Offer(working) >= working)
            /\ signals[o].tif # "ioc" /\ ~HasPartial(arrived, o) /\ w = Say(arrived, o, "LIVE")
  <2>1. missed
    <3>1. ASSUME ~missed PROVE FALSE
      <4>1. o \in BookOf(arrived) /\ Entry(arrived, o).filled > 0
        BY <1>5, <1>8, <1>14, <3>1
      <4>2. QED BY <1>14, <4>1 DEF HasPartial, Resting, BookOf
    <3>2. QED BY <3>1
  <2>2. QED BY <1>6, <1>7, <1>14, <2>1
<1>15. QED BY <1>3, <1>6, <1>10, <1>11, <1>12, <1>13, <1>14

\* What the venue makes of an order the guard passed.
LEMMA PlacePlaced ==
    ASSUME NEW v, NEW o, NEW size, Fresh(v, o, size), NEW missed \in BOOLEAN,
           NEW w, w = Place(v, o, size, missed)
    PROVE  Placed(v, w, o, size)
<1>1. signals[o].type \in {"market", "limit"}
  BY PaperAssumption DEF Fresh, Arrives
<1>2. \/ \E st \in {"REJECTED", "FAILED"} : w = Say(v, o, st)
      \/ /\ signals[o].reduceOnly => ReducesNet(v, o)
         /\ \/ w = PlaceMarket(v, o, size)
            \/ signals[o].type = "limit" /\ w = PlaceLimit(v, o, size, missed)
  BY <1>1 DEF Place
<1>3. QED BY <1>2, RefusedPlaced, MarketPlaced, LimitPlaced

LEMMA InOrderVoice ==
    ASSUME NEW v, NEW l, NEW m, NEW o, InOrder(v, l, o), SameVoice(l, m, o)
    PROVE  InOrder(v, m, o)
<1>1. \A f \in FillsOf(v, o) : f.o = o
  BY DEF FillsOf
<1>2. OpenAt(v, l, o) => OpenAt(v, m, o)
  BY DEF OpenAt, Accounts, SameVoice
<1>3. ClosedAt(v, l, o) => ClosedAt(v, m, o)
  BY DEF ClosedAt, SameVoice
<1>4. QED BY <1>1, <1>2, <1>3 DEF InOrder, SameVoice

\* What says nothing of an order may come before, after or in between.
LEMMA SilentAround ==
    ASSUME NEW a, NEW r, NEW h, IsList(a), IsList(r), IsList(h), NEW o, ~Said(r, o)
    PROVE  SameVoice(a \o h, (a \o r) \o h, o)
<1> DEFINE ah == a \o h
           ar == a \o r
           arh == ar \o h
<1>1. InARow(a, h, ah) /\ InARow(a, r, ar) /\ IsList(ar)
  BY InARowIs
<1>2. InARow(ar, h, arh)
  BY <1>1, InARowIs
<1> HIDE DEF ah, ar, arh
<1>3. /\ Said(ah, o) <=> Said(a, o) \/ Said(h, o)
      /\ Ended(ah, o) <=> Ended(a, o) \/ Ended(h, o)
      /\ Begun(ah, o) <=> Begun(a, o) \/ Begun(h, o)
      /\ \A f : Carries(ah, f) <=> Carries(a, f) \/ Carries(h, f)
  BY <1>1, VoiceConcat
<1>4. /\ Said(ar, o) <=> Said(a, o) \/ Said(r, o)
      /\ Ended(ar, o) <=> Ended(a, o) \/ Ended(r, o)
      /\ Begun(ar, o) <=> Begun(a, o) \/ Begun(r, o)
      /\ \A f : Carries(ar, f) <=> Carries(a, f) \/ Carries(r, f)
  BY <1>1, VoiceConcat
<1>5. /\ Said(arh, o) <=> Said(ar, o) \/ Said(h, o)
      /\ Ended(arh, o) <=> Ended(ar, o) \/ Ended(h, o)
      /\ Begun(arh, o) <=> Begun(ar, o) \/ Begun(h, o)
      /\ \A f : Carries(arh, f) <=> Carries(ar, f) \/ Carries(h, f)
  BY <1>2, VoiceConcat
<1>6. /\ ~Ended(r, o) /\ ~Begun(r, o) /\ Clear(r, o)
      /\ \A f : f.o = o => ~Carries(r, f)
  BY VoiceIs
<1>7. /\ Clear(ah, o) <=> /\ Clear(a, o) /\ Clear(h, o)
                          /\ Ended(a, o) => ~Said(h, o)
                          /\ Begun(h, o) => ~Said(a, o)
      /\ Clear(ar, o) <=> /\ Clear(a, o) /\ Clear(r, o)
                          /\ Ended(a, o) => ~Said(r, o)
                          /\ Begun(r, o) => ~Said(a, o)
      /\ Clear(arh, o) <=> /\ Clear(ar, o) /\ Clear(h, o)
                           /\ Ended(ar, o) => ~Said(h, o)
                           /\ Begun(h, o) => ~Said(ar, o)
  BY <1>1, <1>2, ClearConcat
<1>8. Clear(arh, o) <=> Clear(ah, o)
  BY <1>4, <1>6, <1>7
<1>9. SameVoice(ah, arh, o)
  BY <1>3, <1>4, <1>5, <1>6, <1>8 DEF SameVoice
<1>10. QED BY <1>9 DEF ah, ar, arh

\* The head of a list, and what it says.
LEMMA HeadVoice ==
    ASSUME NEW l, IsList(l), l # <<>>, NEW m, m = Head(l), NEW o
    PROVE  /\ IsList(Tail(l))
           /\ Said(l, o) <=> ReportOf(m, o) \/ Said(Tail(l), o)
           /\ Ended(l, o) <=> Ends(m, o) \/ Ended(Tail(l), o)
           /\ Begun(l, o) <=> Begins(m, o) \/ Begun(Tail(l), o)
           /\ \A f : Carries(l, f) <=> (m.k = "fill" /\ Record(signals, m) = f) \/ Carries(Tail(l), f)
           /\ Clear(l, o) => /\ m.k = "status" /\ m.o = o =>
                                    m.st \in {"LIVE", "CANCELLED", "REJECTED", "FAILED"}
                             /\ Clear(Tail(l), o)
                             /\ Ends(m, o) => ~Said(Tail(l), o)
                             /\ ReportOf(m, o) => ~Begun(Tail(l), o)
           /\ ~ReportOf(m, o) => SameVoice(l, Tail(l), o)
<1> DEFINE one == <<m>>
           t == Tail(l)
<1>1. IsList(t) /\ l = one \o t
  BY HeadFirst
<1>2. /\ IsList(one) /\ (Said(one, o) <=> ReportOf(m, o))
      /\ Ended(one, o) <=> Ends(m, o)
      /\ Begun(one, o) <=> Begins(m, o)
      /\ \A f : Carries(one, f) <=> m.k = "fill" /\ Record(signals, m) = f
      /\ Clear(one, o) <=> (m.k = "status" /\ m.o = o =>
                                 m.st \in {"LIVE", "CANCELLED", "REJECTED", "FAILED"})
  BY VoiceOne
<1> HIDE DEF one, t
<1>3. InARow(one, t, l)
  BY <1>1, <1>2, InARowIs
<1>4. /\ Said(l, o) <=> Said(one, o) \/ Said(t, o)
      /\ Ended(l, o) <=> Ended(one, o) \/ Ended(t, o)
      /\ Begun(l, o) <=> Begun(one, o) \/ Begun(t, o)
      /\ \A f : Carries(l, f) <=> Carries(one, f) \/ Carries(t, f)
  BY <1>3, VoiceConcat
<1>5. Clear(l, o) <=> /\ Clear(one, o) /\ Clear(t, o)
                      /\ Ended(one, o) => ~Said(t, o)
                      /\ Begun(t, o) => ~Said(one, o)
  BY <1>3, ClearConcat
<1>6. ~ReportOf(m, o) => /\ ~Ends(m, o) /\ ~Begins(m, o)
                         /\ ~(m.k = "status" /\ m.o = o)
                         /\ \A f : f.o = o => ~(m.k = "fill" /\ Record(signals, m) = f)
  BY DEF ReportOf, Ends, Begins, Record
<1>7. ~ReportOf(m, o) => SameVoice(l, t, o)
  BY <1>2, <1>4, <1>5, <1>6 DEF SameVoice
<1>8. QED BY <1>1, <1>2, <1>4, <1>5, <1>7 DEF t

\* A step of the venue that publishes leaves an order in order whose row stands.
LEMMA ServedInOrder ==
    ASSUME NEW v, NEW l, IsList(l), NEW o, InOrder(v, l, o), v.out = <<>>,
           NEW w, Serves(v, w, o), IsList(w.out), o \in BookOf(w) => o \in BookOf(v)
    PROVE  InOrder(w, l \o w.out, o)
<1> DEFINE p == l \o w.out
           G == FillsOf(v, o)
           a == OpenPart(o)
<1>1. InARow(l, w.out, p)
  BY InARowIs
<1> HIDE DEF p
<1>2. /\ Said(p, o) <=> Said(l, o) \/ Said(w.out, o)
      /\ Ended(p, o) <=> Ended(l, o) \/ Ended(w.out, o)
      /\ Begun(p, o) <=> Begun(l, o) \/ Begun(w.out, o)
      /\ \A f : Carries(p, f) <=> Carries(l, f) \/ Carries(w.out, f)
  BY <1>1, VoiceConcat
<1>3. Clear(p, o) <=> /\ Clear(l, o) /\ Clear(w.out, o)
                      /\ Ended(l, o) => ~Said(w.out, o)
                      /\ Begun(w.out, o) => ~Said(l, o)
  BY <1>1, ClearConcat
<1>4. ~Said(v.out, o) /\ ~Ended(v.out, o) /\ ~Begun(v.out, o) /\ Clear(v.out, o)
  BY VoiceNone
<1>5. CASE o \notin BookOf(v)
  <2>1. Idle(w, o, G)
    BY <1>4, <1>5 DEF Idle, Serves
  <2>2. ~Ended(w.out, o) /\ ~Begun(w.out, o) /\ Clear(w.out, o) /\ \A f : f.o = o => ~Carries(w.out, f)
    BY <2>1, VoiceIs DEF Idle
  <2>3. SameVoice(l, p, o)
    BY <1>2, <1>3, <2>1, <2>2 DEF SameVoice, Idle
  <2>4. InOrder(v, p, o)
    BY <2>3, InOrderVoice
  <2>5. o \notin BookOf(w) /\ FillsOf(w, o) = FillsOf(v, o) /\ Filling(w, o) = Filling(v, o)
    BY <2>1 DEF Idle, Filling
  <2>6. OpenAt(v, p, o) => OpenAt(w, p, o)
    BY <1>5, <2>5 DEF OpenAt, Accounts
  <2>7. ClosedAt(v, p, o) => ClosedAt(w, p, o)
    BY <2>5 DEF ClosedAt
  <2>8. InOrder(w, p, o)
    BY <2>4, <2>5, <2>6, <2>7 DEF InOrder
  <2>9. QED BY <2>8 DEF p
<1>6. CASE o \in BookOf(v)
  <2>1. IsOpenRow(o) /\ OpenAt(v, l, o) /\ Clear(l, o)
        /\ (Begun(l, o) => rows[o].st = "SUBMITTED") /\ \A f \in G : Carries(l, f)
    BY <1>6 DEF InOrder, ClosedAt
  <2>2. Accounts(v, l, o, a) /\ a \in Nat
    BY <2>1 DEF OpenAt, OpenPart
  <2>3. Filling(v, o) + Left(v, o) = a /\ ~Ended(l, o)
    BY <1>6, <2>2 DEF Accounts
  <2>4. Tracks(v, o, a, G)
    BY <1>4, <1>6, <2>3 DEF Tracks, Accounts
  <2>5. Tracks(w, o, a, G)
    BY <2>2, <2>4 DEF Serves
  <2>6. /\ Clear(w.out, o) /\ ~Begun(w.out, o) /\ Accounts(w, w.out, o, a)
        /\ \A f \in FillsOf(w, o) : f \in G \/ Carries(w.out, f)
    BY <2>5 DEF Tracks
  <2>7. Clear(p, o) /\ (Begun(p, o) => rows[o].st = "SUBMITTED")
        /\ \A f \in FillsOf(w, o) : Carries(p, f)
    BY <1>2, <1>3, <2>1, <2>3, <2>6
  <2>8. Accounts(w, p, o, a)
    BY <1>2, <2>3, <2>6 DEF Accounts
  <2>9. OpenAt(w, p, o)
    BY <1>2, <1>6, <2>1, <2>8 DEF OpenAt
  <2>10. InOrder(w, p, o)
    BY <2>1, <2>7, <2>9 DEF InOrder
  <2>11. QED BY <2>10 DEF p
<1>7. QED BY <1>5, <1>6

LEMMA InOrderStays ==
    ASSUME NEW o, NEW w, NEW l, InOrder(w, l, o), Pending' = l,
           venue'.book = w.book, venue'.unapplied = w.unapplied,
           signals'[o] = signals[o], SameRow(o)
    PROVE  InOrder(venue, Pending, o)'
<1>1. FillsOf(venue, o)' = FillsOf(w, o) /\ \A f \in FillsOf(w, o) : f.o = o
  BY DEF FillsOf, SameRow
<1>2. Filling(venue, o)' = Filling(w, o)
  BY <1>1 DEF Filling, Side
<1>3. BookOf(venue)' = BookOf(w) /\ Left(venue, o)' = Left(w, o)
  BY DEF BookOf, Left, Entry, Resting
<1>4. \A f \in FillsOf(w, o) : Carries(l, f) => Carries(l, f)'
  BY <1>1 DEF Carries, Record
<1>5. /\ Clear(l, o)' <=> Clear(l, o)
      /\ Begun(l, o)' <=> Begun(l, o)
      /\ Said(l, o)' <=> Said(l, o)
      /\ Ended(l, o)' <=> Ended(l, o)
  OBVIOUS
<1>6. (IsOpenRow(o)' <=> IsOpenRow(o)) /\ (HasRow(o)' <=> HasRow(o)) /\ OpenPart(o)' = OpenPart(o)
  BY DEF IsOpenRow, HasRow, OpenPart, SameRow
<1>7. OpenAt(w, l, o) => OpenAt(venue, Pending, o)'
  BY <1>2, <1>3, <1>6 DEF OpenAt, Accounts, SameRow
<1>8. ClosedAt(w, l, o) => ClosedAt(venue, Pending, o)'
  BY <1>1, <1>3, <1>6 DEF ClosedAt
<1>9. QED BY <1>1, <1>4, <1>6, <1>7, <1>8 DEF InOrder, SameRow

\* The remainder of a side as the model's recursive function gives it.
Remains(g, S) ==
    g = [s \in SUBSET S |-> IF s = {} THEN 0 ELSE OpenPart(Pick(s)) + g[s \ {Pick(s)}]]

LEMMA RemainderIs == RemaindersAreSums
<1> SUFFICES ASSUME NEW side PROVE OpenRemainder(side) = Remainder(side)
  BY DEF RemaindersAreSums
<1> DEFINE S == OpenOn(side)
           h == CHOOSE g : Remains(g, S)
<1>1. IsFiniteSet(S) /\ S \subseteq Orders
  BY OrdersFinite, FS_Subset DEF OpenOn
<1>2. OpenRemainder(side) = h[S]
  BY DEF OpenRemainder, OpenOn, MapThenSumSet, MapThenFoldSet, Remains, Pick
<1> HIDE DEF S
<1>3. ASSUME NEW g PROVE Sums(g, OpenParts, S) <=> Remains(g, S)
  <2>1. \A s \in SUBSET S : s # {} => Pick(s) \in Orders
    BY <1>1 DEF Pick
  <2>2. \A s \in SUBSET S : s # {} => OpenParts[Pick(s)] = OpenPart(Pick(s))
    BY <2>1 DEF OpenParts
  <2>3. [s \in SUBSET S |-> IF s = {} THEN 0 ELSE OpenParts[Pick(s)] + g[s \ {Pick(s)}]]
        = [s \in SUBSET S |-> IF s = {} THEN 0 ELSE OpenPart(Pick(s)) + g[s \ {Pick(s)}]]
    BY <2>2
  <2>4. QED BY <2>3 DEF Sums, Remains
<1>4. PICK g : Sums(g, OpenParts, S)
  BY <1>1, SumsExist
<1>5. Remains(h, S)
  <2>1. Remains(g, S)
    BY <1>3, <1>4
  <2>2. QED BY <2>1
<1> HIDE DEF h
<1>6. Sums(h, OpenParts, S)
  BY <1>3, <1>5
<1> DEFINE k == CHOOSE x : Sums(x, OpenParts, S)
<1>7. Sums(k, OpenParts, S)
  BY <1>4
<1>8. SumFunctionOnSet(OpenParts, S) = k[S]
  BY SumIs
<1> HIDE DEF k
<1>9. h[S] = k[S]
  BY <1>1, <1>6, <1>7, SumsAgree
<1>10. QED BY <1>2, <1>8, <1>9 DEF Remainder, S

LEMMA RemainderNext == RemaindersAreSums'
<1>1. RemaindersAreSums
  BY RemainderIs
<1>2. QED BY <1>1, PTL

LEMMA OpenOnFinite == \A side : IsFiniteSet(OpenOn(side)) /\ OpenOn(side) \subseteq Orders
  BY OrdersFinite, FS_Subset DEF OpenOn

\* A sum over orders whose open parts are natural numbers.
LEMMA RemainderNat ==
    ASSUME NEW S, IsFiniteSet(S), NEW fun, \A p \in S : fun[p] \in Nat
    PROVE  SumFunctionOnSet(fun, S) \in Nat
<1> DEFINE C == {k \in Nat : \A t \in SUBSET S : Cardinality(t) = k => SumFunctionOnSet(fun, t) \in Nat}
<1>0. \A t \in SUBSET S : IsFiniteSet(t) /\ Cardinality(t) \in Nat
  BY FS_Subset, FS_CardinalityType
<1>1. 0 \in C
  <2>1. ASSUME NEW t \in SUBSET S, Cardinality(t) = 0 PROVE SumFunctionOnSet(fun, t) \in Nat
    <3>1. t = {}
      BY <1>0, <2>1, FS_EmptySet
    <3>2. SumFunctionOnSet(fun, t) = 0
      BY <1>0, <3>1, SumUnfolds
    <3>3. QED BY <3>2
  <2>2. QED BY <2>1
<1>2. ASSUME NEW k \in Nat, k \in C PROVE k + 1 \in C
  <2>1. ASSUME NEW t \in SUBSET S, Cardinality(t) = k + 1 PROVE SumFunctionOnSet(fun, t) \in Nat
    <3>1. t # {}
      BY <1>0, <2>1, FS_EmptySet
    <3>2. /\ Pick(t) \in t /\ t \ {Pick(t)} \in SUBSET S
          /\ Cardinality(t \ {Pick(t)}) = k
      BY <1>0, <2>1, <3>1, PickIs
    <3>3. SumFunctionOnSet(fun, t \ {Pick(t)}) \in Nat /\ fun[Pick(t)] \in Nat
      BY <1>2, <3>2
    <3>4. SumFunctionOnSet(fun, t) = fun[Pick(t)] + SumFunctionOnSet(fun, t \ {Pick(t)})
      BY <1>0, <3>1, SumUnfolds
    <3>5. QED BY <3>3, <3>4
  <2>2. QED BY <2>1
<1>3. \A k \in Nat : k \in C => k + 1 \in C
  BY <1>2
<1>4. Cardinality(S) \in C
  <2> HIDE DEF C
  <2>1. QED BY <1>0, <1>1, <1>3, ClimbNat
<1>5. QED BY <1>4

LEMMA RemainderSplits == RemaindersSplit
<1> SUFFICES ASSUME PartsKnown, NEW o \in Orders, NEW side
             PROVE  /\ OpenRemainder(side) = Part(o, side) + Others(o, side)
                    /\ Part(o, side) \in Int /\ Others(o, side) \in Int
  BY DEF RemaindersSplit
<1> DEFINE S == OpenOn(side)
<1>1. IsFiniteSet(S) /\ S \subseteq Orders /\ IsFiniteSet(S \ {o})
  BY OpenOnFinite, FS_Subset
<1>2. \A x \in S : OpenParts[x] \in Int
  BY <1>1 DEF PartsKnown, OpenParts, OpenOn
<1>3. OpenRemainder(side) = SumFunctionOnSet(OpenParts, S)
  BY RemainderIs DEF RemaindersAreSums, Remainder
<1>4. o \in S <=> IsOpenRow(o) /\ Side(o) = side
  BY DEF OpenOn
<1>5. OpenParts[o] = OpenPart(o)
  BY DEF OpenParts
<1>6. Others(o, side) = SumFunctionOnSet(OpenParts, S \ {o})
  BY DEF Others
<1> HIDE DEF S
<1>7. SumFunctionOnSet(OpenParts, S \ {o}) \in Int
  BY <1>1, <1>2, SumInt
<1>8. CASE o \in S
  <2>1. SumFunctionOnSet(OpenParts, S) = OpenParts[o] + SumFunctionOnSet(OpenParts, S \ {o})
    BY <1>1, <1>2, <1>8, SumSplits
  <2>2. Part(o, side) = OpenPart(o) /\ OpenPart(o) \in Int
    BY <1>2, <1>4, <1>5, <1>8 DEF Part
  <2>3. QED BY <1>3, <1>5, <1>6, <1>7, <2>1, <2>2
<1>9. CASE o \notin S
  <2>1. S \ {o} = S
    BY <1>9
  <2>2. Part(o, side) = 0
    BY <1>4, <1>9 DEF Part
  <2>3. QED BY <1>3, <1>6, <1>7, <2>1, <2>2
<1>10. QED BY <1>8, <1>9

LEMMA RemainderSplitsNext == RemaindersSplit'
<1>1. RemaindersSplit
  BY RemainderSplits
<1>2. QED BY <1>1, PTL

LEMMA RemainderMoves ==
    ASSUME PartsKnown, NEW o \in Orders, \A p \in Orders \ {o} : SameOrder(p),
           IsOpenRow(o)' => OpenPart(o)' \in Int, NEW side
    PROVE  /\ OpenRemainder(side)' - Part(o, side)' = OpenRemainder(side) - Part(o, side)
           /\ OpenRemainder(side) \in Int /\ OpenRemainder(side)' \in Int
           /\ Part(o, side) \in Int /\ Part(o, side)' \in Int
<1>1. PartsKnown'
  BY DEF PartsKnown, SameOrder
<1>2. /\ OpenRemainder(side) = Part(o, side) + Others(o, side)
      /\ Part(o, side) \in Int /\ Others(o, side) \in Int
  BY RemainderSplits DEF RemaindersSplit
<1>3. /\ OpenRemainder(side)' = Part(o, side)' + Others(o, side)'
      /\ Part(o, side)' \in Int /\ Others(o, side)' \in Int
  BY <1>1, RemainderSplitsNext DEF RemaindersSplit
<1>4. Others(o, side)' = Others(o, side)
  <2> DEFINE T == OpenOn(side) \ {o}
  <2>1. (OpenOn(side) \ {o})' = T
    BY DEF OpenOn, SameOrder
  <2>2. IsFiniteSet(T) /\ T \subseteq Orders
    BY OpenOnFinite, FS_Subset
  <2>3. \A x \in T : OpenParts'[x] = OpenParts[x]
    BY <2>2 DEF OpenParts, OpenOn, SameOrder
  <2> HIDE DEF T
  <2>4. SumFunctionOnSet(OpenParts', T) = SumFunctionOnSet(OpenParts, T)
    BY <2>2, <2>3, SumSame
  <2>5. Others(o, side)' = SumFunctionOnSet(OpenParts', T)
    BY <2>1 DEF Others
  <2>6. Others(o, side) = SumFunctionOnSet(OpenParts, T)
    BY DEF Others, T
  <2>7. QED BY <2>4, <2>5, <2>6
<1>5. QED BY <1>2, <1>3, <1>4

\* A step that moves none.
LEMMA RemainderStays ==
    ASSUME \A p \in Orders : SameOrder(p), NEW side
    PROVE  OpenRemainder(side)' = OpenRemainder(side)
<1> DEFINE T == OpenOn(side)
<1>1. OpenOn(side)' = T
  BY DEF OpenOn, SameOrder
<1>2. IsFiniteSet(T) /\ T \subseteq Orders
  BY OpenOnFinite
<1>3. \A x \in T : OpenParts'[x] = OpenParts[x]
  BY <1>2 DEF OpenParts, OpenOn, SameOrder
<1>4. OpenRemainder(side)' = SumFunctionOnSet(OpenParts', OpenOn(side)')
  BY RemainderNext DEF RemaindersAreSums, Remainder
<1>5. OpenRemainder(side) = SumFunctionOnSet(OpenParts, T)
  BY RemainderIs DEF RemaindersAreSums, Remainder
<1> HIDE DEF T
<1>6. SumFunctionOnSet(OpenParts', T) = SumFunctionOnSet(OpenParts, T)
  BY <1>2, <1>3, SumSame
<1>7. QED BY <1>1, <1>4, <1>5, <1>6

LEMMA CappedStays ==
    ASSUME Capped, UNCHANGED <<own, other>>, \A p \in Orders : SameOrder(p)
    PROVE  Capped'
<1>1. OpenRemainder("buy")' = OpenRemainder("buy") /\ OpenRemainder("sell")' = OpenRemainder("sell")
  BY RemainderStays
<1>2. Worst("buy")' = Worst("buy") /\ Worst("sell")' = Worst("sell")
  BY <1>1 DEF Worst, StoreNet
<1>3. QED BY <1>2 DEF Capped

\* The invariant of a step between two running states.
LEMMA RowsFrom ==
    ASSUME RowsInv, ~crashed, ghosted \subseteq ghosted',
           phase = "running", phase' = "running",
           Sound(venue)', Addressed(Pending)', \A o \in Orders \ ghosted' : InOrder(venue, Pending, o)',
           \A o \in ghosted' : o \in Orders /\ HasRow(o)',
           ghosted' = {} /\ Capped => Capped'
    PROVE  RowsInv'
  BY DEF RowsInv

\* What is pending, the rows and the venue stay.
LEMMA RowsStill ==
    ASSUME RowsInv, ~crashed,
           UNCHANGED <<rows, own, other, venue, phase, crashed, ghosted, signals>>,
           Pending' = Pending
    PROVE  RowsInv'
<1>1. CASE phase = "running"
  <2>1. Sound(venue) /\ Addressed(Pending) /\ \A o \in Orders \ ghosted : InOrder(venue, Pending, o)
    BY <1>1 DEF RowsInv
  <2>2. Sound(venue)'
    BY <2>1 DEF Sound, Side
  <2>3. Addressed(Pending)'
    BY <2>1 DEF Addressed
  <2>4. ASSUME NEW o \in Orders \ ghosted' PROVE InOrder(venue, Pending, o)'
    BY <2>1, InOrderStays DEF SameRow
  <2>5. \A p \in Orders : SameOrder(p)
    BY DEF SameOrder, IsOpenRow, HasRow, Side, OpenPart
  <2>6. Capped => Capped'
    BY <2>5, CappedStays
  <2>7. \A o \in ghosted' : o \in Orders /\ HasRow(o)'
    BY <1>1 DEF RowsInv, HasRow
  <2>8. QED BY <1>1, <2>2, <2>3, <2>4, <2>6, <2>7, RowsFrom
<1>2. CASE phase # "running"
  BY <1>2 DEF RowsInv
<1>3. QED BY <1>1, <1>2

\* The bus delivers what is held, or drops what is handled.
LEMMA FlushRows ==
    ASSUME FundInv, RowsInv, ~crashed, FlushHeld
    PROVE  RowsInv'
<1>1. /\ UNCHANGED <<rows, own, other, venue, phase, crashed, ghosted, signals>>
      /\ dispatched /\ dispatched' /\ held # <<>>
      /\ queue' = Append(queue, Head(held)) /\ held' = Tail(held)
  BY DEF FlushHeld, config, durable, memory, history
<1>2. IsList(queue) /\ IsList(held) /\ queue # <<>>
  BY <1>1 DEF FundInv, Bus
<1>3. Tail(Append(queue, Head(held))) \o Tail(held) = Tail(queue) \o held
  BY <1>1, <1>2, FlushSame
<1>4. Pending' = Tail(Append(queue, Head(held))) \o Tail(held)
  BY <1>1 DEF Pending, Base
<1>5. Pending = Tail(queue) \o held
  BY <1>1 DEF Pending, Base
<1>6. Pending' = Pending
  BY <1>3, <1>4, <1>5, Zenon
<1>7. QED BY <1>1, <1>6, RowsStill

LEMMA CommitRows ==
    ASSUME RowsInv, ~crashed, Commit
    PROVE  RowsInv'
<1>1. /\ UNCHANGED <<rows, own, other, venue, phase, crashed, ghosted, signals>>
      /\ dispatched /\ ~dispatched' /\ queue' = Tail(queue) /\ UNCHANGED held
  BY DEF Commit, config, durable, memory, history
<1>2. Pending' = Pending
  BY <1>1 DEF Pending, Base
<1>3. QED BY <1>1, <1>2, RowsStill

LEMMA ApartRows ==
    ASSUME RowsInv, ~crashed, Advance \/ Trip \/ Reset \/ UNCHANGED vars
    PROVE  RowsInv'
<1>1. /\ UNCHANGED <<rows, own, other, venue, phase, crashed, ghosted, signals>>
      /\ UNCHANGED <<queue, held, dispatched>>
  <2>1. CASE Advance
    BY <2>1 DEF Advance, config, durable, bus, memory
  <2>2. CASE Trip \/ Reset
    BY <2>2 DEF Trip, Reset, config, bus
  <2>3. CASE UNCHANGED vars
    BY <2>3 DEF vars, config, durable, bus, memory, history
  <2>4. QED BY <2>1, <2>2, <2>3
<1>2. Pending' = Pending
  BY <1>1 DEF Pending, Base
<1>3. QED BY <1>1, <1>2, RowsStill

-----------------------------------------------------------------------------
\* What joins the queue from outside the handlers.

LEMMA BaseJoins ==
    ASSUME FundInv, UNCHANGED <<held, dispatched>>, NEW r, IsList(r), queue' = queue \o r
    PROVE  /\ Pending' = (Base \o r) \o held /\ Pending = Base \o held
           /\ IsList(Base) /\ IsList(held)
<1>1. Bus /\ IsList(queue) /\ (dispatched => queue # <<>>)
  BY DEF FundInv, Bus
<1>2. Base' = Base \o r
  <2>1. CASE dispatched
    <3>1. Tail(queue \o r) = Tail(queue) \o r
      BY <1>1, <2>1, TailConcat
    <3>2. Base' = Tail(queue') /\ Base = Tail(queue)
      BY <2>1 DEF Base
    <3>3. QED BY <3>1, <3>2, Zenon
  <2>2. CASE ~dispatched
    BY <2>2 DEF Base
  <2>3. QED BY <2>1, <2>2
<1>3. Pending' = (Base \o r) \o held
  BY <1>2 DEF Pending
<1>4. QED BY <1>1, <1>3, PendingList DEF Pending

LEMMA AddressedConcat ==
    ASSUME NEW l, NEW m, NEW p, InARow(l, m, p)
    PROVE  Addressed(p) <=> Addressed(l) /\ Addressed(m)
  BY DEF Addressed, InARow

LEMMA AddressedAround ==
    ASSUME NEW a, NEW r, NEW h, IsList(a), IsList(r), IsList(h), Addressed(a \o h), Addressed(r)
    PROVE  Addressed((a \o r) \o h)
<1> DEFINE ah == a \o h
           ar == a \o r
           arh == ar \o h
<1>1. InARow(a, h, ah) /\ InARow(a, r, ar) /\ IsList(ar)
  BY InARowIs
<1>2. InARow(ar, h, arh)
  BY <1>1, InARowIs
<1>3. Addressed(ah)
  OBVIOUS
<1> HIDE DEF ah, ar, arh
<1>4. Addressed(arh)
  BY <1>1, <1>2, <1>3, AddressedConcat
<1>5. QED BY <1>4 DEF arh, ar

\* Of an order that has no row nothing depends on its terms.
LEMMA UnsentStays ==
    ASSUME NEW o, NEW l, InOrder(venue, l, o), ~HasRow(o), rows' = rows, venue' = venue, Pending' = l
    PROVE  InOrder(venue, Pending, o)'
<1>1. ~IsOpenRow(o) /\ ClosedAt(venue, l, o)
  BY DEF InOrder, IsOpenRow
<1>2. /\ o \notin BookOf(venue) /\ FillsOf(venue, o) = {} /\ ~Said(l, o)
  BY <1>1 DEF ClosedAt
<1>3. Clear(l, o) /\ ~Begun(l, o)
  BY <1>2, VoiceIs
<1>4. /\ Clear(Pending, o)' /\ ~Begun(Pending, o)' /\ ~Said(Pending, o)'
  BY <1>2, <1>3
<1>5. FillsOf(venue, o)' = {} /\ ~IsOpenRow(o)' /\ o \notin BookOf(venue)'
  BY <1>1, <1>2 DEF FillsOf, IsOpenRow, HasRow, BookOf
<1>6. QED BY <1>4, <1>5 DEF InOrder, ClosedAt

LEMMA InsertRows ==
    ASSUME FundInv, ReduceInv, RowsInv, ~crashed, phase = "running",
           UNCHANGED <<rows, own, other, venue, phase, held, dispatched>>, ghosted \subseteq ghosted',
           \A o \in ghosted' \ ghosted : o \in Orders /\ HasRow(o),
           NEW r, IsList(r), queue' = queue \o r, Addressed(r),
           \A o \in Orders \ ghosted' : ~Said(r, o),
           \A o \in Orders : signals[o] \in Menu => signals'[o] = signals[o]
    PROVE  RowsInv'
<1>1. Sound(venue) /\ Addressed(Pending) /\ \A o \in Orders \ ghosted : InOrder(venue, Pending, o)
  BY DEF RowsInv
<1>2. KnownOrders /\ VenueAhead /\ Known(venue)
  BY DEF ReduceInv, VenueAhead
<1>3. /\ Pending' = (Base \o r) \o held /\ Pending = Base \o held
      /\ IsList(Base) /\ IsList(held)
  BY BaseJoins
<1>4. Sound(venue)'
  <2>1. \A i \in DOMAIN venue.book : signals'[venue.book[i].o] = signals[venue.book[i].o]
    <3>1. \A i \in DOMAIN venue.book : venue.book[i].o \in Orders /\ signals[venue.book[i].o] \in Menu
      BY <1>2 DEF Known, WorksOnce, Entries
    <3>2. QED BY <3>1
  <2>2. \A f \in venue.unapplied : f.o \in Orders
    BY <1>2 DEF Known, CountsFills, Records
  <2>3. \A f \in venue.unapplied : signals'[f.o] = signals[f.o]
    BY <1>1, <2>2 DEF Sound
  <2>4. QED BY <1>1, <2>1, <2>3 DEF Sound, Side
<1>5. Addressed(Pending)'
  <2>1. Addressed(Base \o held)
    BY <1>1, <1>3, Zenon
  <2>2. Addressed((Base \o r) \o held)
    BY <1>3, <2>1, AddressedAround
  <2>3. Addressed(Pending')
    BY <1>3, <2>2, Zenon
  <2>4. QED BY <2>3 DEF Addressed
<1>6. ASSUME NEW o \in Orders \ ghosted' PROVE InOrder(venue, Pending, o)'
  <2> DEFINE p == (Base \o r) \o held
  <2>1. InOrder(venue, Pending, o)
    BY <1>1
  <2>2. SameVoice(Base \o held, p, o)
    BY <1>3, SilentAround
  <2>3. SameVoice(Pending, p, o) /\ Pending' = p
    BY <1>3, <2>2, Zenon
  <2> HIDE DEF p
  <2>4. InOrder(venue, p, o)
    BY <2>1, <2>3, InOrderVoice
  <2>5. CASE HasRow(o)
    <3>1. signals'[o] = signals[o]
      BY <1>2, <2>5 DEF KnownOrders
    <3>2. QED BY <2>3, <2>4, <3>1, InOrderStays DEF SameRow
  <2>6. CASE ~HasRow(o)
    BY <2>3, <2>4, <2>6, UnsentStays
  <2>7. QED BY <2>5, <2>6
<1>7. \A p \in Orders : SameOrder(p)
  BY <1>2 DEF KnownOrders, SameOrder, IsOpenRow, HasRow, Side, OpenPart
<1>8. Capped => Capped'
  BY <1>7, CappedStays
<1>9. \A o \in ghosted' : o \in Orders /\ HasRow(o)'
  BY DEF RowsInv, HasRow
<1>10. QED BY <1>4, <1>5, <1>6, <1>8, <1>9, RowsFrom

LEMMA PublishRows ==
    ASSUME FundInv, ReduceInv, RowsInv, ~crashed, phase = "running",
           UNCHANGED <<rows, own, other, venue, phase>>, ghosted \subseteq ghosted',
           \A o \in ghosted' \ ghosted : o \in Orders /\ HasRow(o),
           NEW m, Publish(m), m.k \in {"fill", "status"} => m.o \in Orders,
           \A o \in Orders \ ghosted' : ~ReportOf(m, o),
           \A o \in Orders : signals[o] \in Menu => signals'[o] = signals[o]
    PROVE  RowsInv'
<1> DEFINE one == <<m>>
<1>1. queue' = Append(queue, m) /\ UNCHANGED <<held, dispatched>>
  BY DEF Publish
<1>2. IsList(queue)
  BY DEF FundInv, Bus
<1>3. IsList(one) /\ DOMAIN one = {1} /\ one[1] = m /\ Append(queue, m) = queue \o one
  BY <1>2, OneMore, Zenon
<1>4. \A o \in Orders \ ghosted' : ~Said(one, o)
  BY VoiceOne
<1> HIDE DEF one
<1>5. Addressed(one)
  BY <1>3 DEF Addressed
<1>6. queue' = queue \o one
  BY <1>1, <1>3, Zenon
<1>7. QED BY <1>1, <1>3, <1>4, <1>5, <1>6, InsertRows

LEMMA PublishersRows ==
    ASSUME FundInv, ReduceInv, RowsInv, ~crashed,
           EmitCancel \/ FeedTick \/ \E o \in Orders : Ghost(o)
    PROVE  RowsInv'
<1>1. CASE EmitCancel
  <2> DEFINE m(o) == CancelSignal(o)
  <2>1. PICK o \in Sent : Publish(m(o))
    BY <1>1 DEF EmitCancel
  <2>2. m(o).k = "cancel"
    BY DEF CancelSignal
  <2> HIDE DEF m
  <2>3. /\ phase = "running"
        /\ UNCHANGED <<rows, own, other, venue, phase, ghosted, signals>>
    BY <1>1 DEF EmitCancel, config, durable, memory, history
  <2>4. \A p : ~ReportOf(m(o), p)
    BY <2>2 DEF ReportOf
  <2>5. QED BY <2>1, <2>2, <2>3, <2>4, PublishRows
<1>2. CASE FeedTick
  <2> DEFINE m(price) == MarketTick(price)
  <2>1. PICK price \in Prices : Publish(m(price))
    BY <1>2 DEF FeedTick
  <2>2. m(price).k = "tick"
    BY DEF MarketTick
  <2> HIDE DEF m
  <2>3. /\ phase = "running"
        /\ UNCHANGED <<rows, own, other, venue, phase, ghosted, signals>>
    BY <1>2 DEF FeedTick, config, durable, memory, history
  <2>4. \A p : ~ReportOf(m(price), p)
    BY <2>2 DEF ReportOf
  <2>5. QED BY <2>1, <2>2, <2>3, <2>4, PublishRows
<1>3. CASE \E o \in Orders : Ghost(o)
  <2>1. PICK o \in Orders : Ghost(o)
    BY <1>3
  <2> DEFINE m(st) == StatusReport(o, st)
  <2>2. PICK st : Publish(m(st))
    BY <2>1 DEF Ghost
  <2>3. m(st).k = "status" /\ m(st).o = o
    BY DEF StatusReport
  <2> HIDE DEF m
  <2>4. /\ phase = "running" /\ ghosted' = ghosted \cup {o}
        /\ UNCHANGED <<rows, own, other, venue, phase, signals>>
    BY <2>1 DEF Ghost, config, durable, memory
  <2>5. \A p \in Orders \ ghosted' : ~ReportOf(m(st), p)
    BY <2>3, <2>4 DEF ReportOf
  <2>6. HasRow(o)
    BY <2>1 DEF Ghost, WorkingStates, HasRow
  <2>7. QED BY <2>2, <2>3, <2>4, <2>5, <2>6, PublishRows
<1>4. QED BY <1>1, <1>2, <1>3

\* The next order is one no strategy sent, so it has no terms and no row.
LEMMA EmitPlaceRows ==
    ASSUME FundInv, ReduceInv, RowsInv, ~crashed, EmitPlace
    PROVE  RowsInv'
<1>1. KnownOrders /\ SentFirst
  BY DEF ReduceInv
<1>2. PICK n \in Nat : Sent = 1..n /\ n + bounds.signals <= MostOrders
  BY <1>1 DEF SentFirst
<1>3. Cardinality(Sent) = n
  BY <1>2, FS_Interval
<1> DEFINE m == PlaceSignal(n + 1)
<1>4. PICK signal \in Menu :
         signals' = [signals EXCEPT ![n + 1] = signal] /\ Publish(m)
  BY <1>3 DEF EmitPlace
<1>5. m.k = "place"
  BY DEF PlaceSignal
<1> HIDE DEF m
<1>6. /\ phase = "running" /\ UNCHANGED <<rows, own, other, venue, phase, ghosted>>
  BY DEF EmitPlace, config, durable, memory, history
<1>7. n + 1 \notin Sent
  BY <1>2
<1>8. NoSignal \notin Menu
  BY MenuHasSides
<1>9. \A o \in Orders : signals[o] \in Menu => signals'[o] = signals[o]
  BY <1>1, <1>4, <1>7, <1>8 DEF Sent, KnownOrders
<1>10. \A p : ~ReportOf(m, p)
  BY <1>5 DEF ReportOf
<1>11. QED BY <1>4, <1>5, <1>6, <1>9, <1>10, PublishRows

LEMMA RunFundingRows ==
    ASSUME FundInv, ReduceInv, RowsInv, ~crashed, RunFunding
    PROVE  RowsInv'
<1> DEFINE crossed == Boundaries(settled, now)
           r == [i \in DOMAIN crossed |-> FundingAccrual(crossed[i])]
<1>1. /\ UNCHANGED <<rows, own, other, venue, phase, crashed, ghosted, signals, held, dispatched>>
      /\ phase = "running"
      /\ queue' = queue \/ queue' = queue \o r
  BY DEF RunFunding, config, durable
<1>2. settled \in Nat /\ now \in Nat /\ settled <= now
  BY DEF FundInv, Clock
<1>3. IsList(crossed)
  BY <1>2, BoundariesAre
<1> HIDE DEF crossed
<1>4. IsList(r) /\ DOMAIN r = DOMAIN crossed
  BY <1>3, ListMapped
<1>5. \A i \in DOMAIN r : r[i].k = "funding"
  BY <1>4 DEF FundingAccrual
<1> HIDE DEF r
<1>6. Addressed(r) /\ \A o : ~Said(r, o)
  BY <1>5 DEF Addressed, Said, ReportOf
<1>7. CASE queue' = queue
  <2>1. Pending' = Pending
    BY <1>1, <1>7 DEF Pending, Base
  <2>2. QED BY <1>1, <2>1, RowsStill
<1>8. CASE queue' = queue \o r
  BY <1>1, <1>4, <1>6, <1>8, InsertRows
<1>9. QED BY <1>1, <1>7, <1>8

\* What is pending when an event is handled, and after it.
LEMMA HandlingPending ==
    ASSUME FundInv, ReduceInv, ~crashed, NEW kind, Handling(kind), NEW out, IsList(out), Dispatch(out)
    PROVE  /\ Pending = queue /\ IsList(queue) /\ queue # <<>> /\ IsList(Tail(queue))
           /\ Pending' = Tail(queue) \o out
<1>1. ~dispatched /\ queue # <<>> /\ IsList(queue) /\ BusShape /\ Bus
  BY DEF Handling, FundInv, Bus, ReduceInv
<1>2. held = <<>> /\ Pending = queue
  BY <1>1, PendingList DEF BusShape
<1>3. IsList(Tail(queue))
  BY <1>1, ListTail
<1>4. CASE kafka
  <2>1. held' = out /\ dispatched' = TRUE /\ queue' = queue
    BY <1>4 DEF Dispatch
  <2>2. Pending' = Tail(queue) \o out
    BY <2>1 DEF Pending, Base
  <2>3. QED BY <1>1, <1>2, <1>3, <2>2
<1>5. CASE ~kafka
  <2>1. queue' = Tail(queue) \o out /\ held' = <<>> /\ dispatched' = FALSE
    BY <1>1, <1>2, <1>5 DEF Dispatch
  <2> DEFINE q == Tail(queue) \o out
  <2>2. IsList(q)
    BY <1>3, ListConcat
  <2>3. Pending' = queue' \o held'
    BY <2>1 DEF Pending, Base
  <2>4. queue' = q
    BY <2>1
  <2> HIDE DEF q
  <2>5. q \o <<>> = q
    BY <2>2, ConcatNothing
  <2>6. Pending' = q
    BY <2>1, <2>3, <2>4, <2>5
  <2>7. QED BY <1>1, <1>2, <1>3, <2>6 DEF q
<1>6. QED BY <1>4, <1>5

\* A venue publishes nothing of what is no order.
LEMMA ServesAddressed ==
    ASSUME NEW v, Known(v), v.out = <<>>, NEW w, \A p : p \in Orders \/ Serves(v, w, p)
    PROVE  Addressed(w.out)
<1>1. ASSUME NEW i \in DOMAIN w.out, w.out[i].k \in {"fill", "status"}, w.out[i].o \notin Orders
      PROVE  FALSE
  <2> DEFINE p == w.out[i].o
  <2>1. p \notin BookOf(v)
    BY <1>1 DEF BookOf, Known, WorksOnce, Entries
  <2>2. FillsOf(v, p) = {}
    BY <1>1 DEF FillsOf, Known, CountsFills, Records
  <2>3. ~Said(v.out, p)
    BY VoiceNone
  <2>4. Idle(v, p, {}) /\ Serves(v, w, p)
    BY <1>1, <2>1, <2>2, <2>3 DEF Idle
  <2>5. ~Said(w.out, p)
    BY <2>4 DEF Serves, Idle
  <2>6. QED BY <1>1, <2>5 DEF Said, ReportOf
<1>2. QED BY <1>1 DEF Addressed

LEMMA AddressedHandled ==
    ASSUME NEW l, IsList(l), l # <<>>, Addressed(l), NEW out, IsList(out), Addressed(out)
    PROVE  Addressed(Tail(l) \o out)
<1> DEFINE t == Tail(l)
           p == t \o out
<1>1. IsList(t) /\ \A i \in DOMAIN t : i + 1 \in DOMAIN l /\ t[i] = l[i + 1]
  BY ListTail, TailOf
<1>2. Addressed(t)
  BY <1>1 DEF Addressed
<1> HIDE DEF t
<1>3. InARow(t, out, p)
  BY <1>1, InARowIs
<1> HIDE DEF p
<1>4. Addressed(p)
  BY <1>2, <1>3, AddressedConcat
<1>5. QED BY <1>4 DEF p, t

LEMMA SoundStays ==
    ASSUME NEW w, Sound(w), venue'.book = w.book, venue'.unapplied = w.unapplied, signals' = signals
    PROVE  Sound(venue)'
  BY DEF Sound, Side

\* An order that the event at the head does not speak of.
LEMMA HandledInOrder ==
    ASSUME FundInv, ReduceInv, RowsInv, ~crashed, NEW kind, Handling(kind), signals' = signals,
           NEW w, Known(w), venue'.book = w.book, venue'.unapplied = w.unapplied, Dispatch(w.out),
           NEW p \in Orders \ ghosted, ~ReportOf(Head(queue), p), SameRow(p), Serves(venue, w, p),
           p \in BookOf(w) => p \in BookOf(venue)
    PROVE  InOrder(venue, Pending, p)'
<1>1. phase = "running" /\ venue.out = <<>>
  BY HandlingRuns
<1>2. IsList(w.out)
  BY DEF Known, Tame, Reports
<1> DEFINE out == w.out
           t == Tail(queue)
           l == t \o out
<1>3. /\ Pending = queue /\ IsList(queue) /\ queue # <<>> /\ IsList(t)
      /\ Pending' = l
  BY <1>2, HandlingPending
<1>4. InOrder(venue, queue, p)
  BY <1>1, <1>3 DEF RowsInv
<1>5. SameVoice(queue, t, p)
  BY <1>3, HeadVoice
<1> HIDE DEF t
<1>6. InOrder(venue, t, p)
  BY <1>4, <1>5, InOrderVoice
<1>7. InOrder(w, t \o w.out, p)
  BY <1>1, <1>2, <1>3, <1>6, ServedInOrder
<1>8. InOrder(w, l, p)
  BY <1>7
<1> HIDE DEF l
<1>9. QED BY <1>3, <1>8, InOrderStays

\* A handler of an event that is no report, and that leaves the rows but for
\* their cancel marks.
LEMMA HandlerRows ==
    ASSUME FundInv, ReduceInv, RowsInv, ~crashed, NEW kind, Handling(kind),
           kind \notin {"fill", "status"},
           UNCHANGED <<own, other, phase, ghosted, signals>>, \A p \in Orders : SameRow(p),
           NEW w, Known(w), Sound(w), \A p : Serves(venue, w, p), BookOf(w) \subseteq BookOf(venue),
           venue'.book = w.book, venue'.unapplied = w.unapplied, Dispatch(w.out)
    PROVE  RowsInv'
<1>1. /\ phase = "running" /\ venue.out = <<>> /\ Known(venue) /\ Head(queue).k = kind
  BY HandlingRuns
<1>2. IsList(w.out)
  BY DEF Known, Tame, Reports
<1>3. \A p : ~ReportOf(Head(queue), p)
  BY <1>1 DEF ReportOf
<1>4. \A p \in Orders \ ghosted' : InOrder(venue, Pending, p)'
  BY <1>3, HandledInOrder
<1>5. Addressed(w.out)
  BY <1>1, ServesAddressed
<1>6. Addressed(Pending)'
  <2> DEFINE out == w.out
             l == Tail(queue) \o out
  <2>1. Pending = queue /\ IsList(queue) /\ queue # <<>> /\ Pending' = l
    BY <1>2, HandlingPending
  <2>2. Addressed(queue)
    BY <1>1, <2>1 DEF RowsInv
  <2>3. Addressed(l)
    BY <1>2, <1>5, <2>1, <2>2, AddressedHandled
  <2> HIDE DEF l
  <2>4. QED BY <2>1, <2>3 DEF Addressed
<1>7. Sound(venue)'
  BY SoundStays
<1>8. \A p \in Orders : SameOrder(p)
  BY DEF SameRow, SameOrder, IsOpenRow, HasRow, Side, OpenPart
<1>9. Capped => Capped'
  BY <1>8, CappedStays
<1>10. \A o \in ghosted' : o \in Orders /\ HasRow(o)'
  BY <1>1 DEF RowsInv, HasRow, SameRow
<1>11. QED BY <1>1, <1>4, <1>6, <1>7, <1>9, <1>10, RowsFrom

LEMMA QuietRows ==
    ASSUME FundInv, ReduceInv, RowsInv, ~crashed, NEW kind, Handling(kind),
           kind \notin {"fill", "status"},
           UNCHANGED <<own, other, phase, ghosted, signals, venue>>, \A p \in Orders : SameRow(p),
           Dispatch(<<>>)
    PROVE  RowsInv'
<1>1. phase = "running" /\ Known(venue) /\ venue.out = <<>>
  BY HandlingRuns
<1>2. Sound(venue)
  BY <1>1 DEF RowsInv
<1>3. Dispatch(venue.out)
  BY <1>1
<1>4. QED BY <1>1, <1>2, <1>3, ServesSelf, HandlerRows

LEMMA SkipRows ==
    ASSUME FundInv, ReduceInv, RowsInv, ~crashed, SkipPlaced \/ OnFunding
    PROVE  RowsInv'
<1>1. UNCHANGED <<own, other, phase, ghosted, signals, venue, rows>> /\ Dispatch(<<>>)
  BY DEF SkipPlaced, OnFunding, config, durable, memory, history
<1>2. Handling("place") \/ Handling("funding")
  BY DEF SkipPlaced, OnFunding
<1>3. \A p \in Orders : SameRow(p)
  BY <1>1 DEF SameRow
<1>4. QED BY <1>1, <1>2, <1>3, QuietRows

\* What a venue that published keeps.
LEMMA Published ==
    ASSUME NEW v, Known(v), venue' = [v EXCEPT !.out = <<>>]
    PROVE  venue'.book = v.book /\ venue'.unapplied = v.unapplied
  BY DEF Known, Tame

LEMMA OnTickRows ==
    ASSUME FundInv, ReduceInv, RowsInv, ~crashed, OnTick
    PROVE  RowsInv'
<1>1. Handling("tick")
  BY DEF OnTick
<1>2. /\ phase = "running" /\ venue.out = <<>> /\ Known(venue) /\ Fits(venue) /\ Solid
  BY <1>1, HandlingRuns
<1>3. PICK missed :
         /\ venue' = [MatchBook(venue, Head(queue).price, missed) EXCEPT !.out = <<>>]
         /\ Dispatch(MatchBook(venue, Head(queue).price, missed).out)
  BY DEF OnTick
<1> DEFINE w == MatchBook(venue, Head(queue).price, missed)
<1>4. BookOf(w) \subseteq BookOf(venue)
  BY <1>2, MatchKeeps
<1>5. Sound(venue)
  BY <1>2 DEF RowsInv
<1>6. Known(w) /\ Sound(w) /\ \A p : Serves(venue, w, p)
  BY <1>2, <1>5, MatchServes
<1>7. venue' = [w EXCEPT !.out = <<>>] /\ Dispatch(w.out)
  BY <1>3
<1> HIDE DEF w
<1>8. /\ UNCHANGED <<own, other, phase, ghosted, signals, rows>>
  BY DEF OnTick, config, durable, history
<1>9. \A p \in Orders : SameRow(p)
  BY <1>8 DEF SameRow
<1>10. venue'.book = w.book /\ venue'.unapplied = w.unapplied
  BY <1>6, <1>7, Published
<1>11. QED BY <1>1, <1>4, <1>6, <1>7, <1>8, <1>9, <1>10, HandlerRows

LEMMA OnCancelRows ==
    ASSUME FundInv, ReduceInv, RowsInv, ~crashed, OnCancel
    PROVE  RowsInv'
<1>1. Handling("cancel")
  BY DEF OnCancel
<1>2. /\ phase = "running" /\ venue.out = <<>> /\ Known(venue) /\ Fits(venue) /\ Solid
  BY <1>1, HandlingRuns
<1> DEFINE o == Head(queue).o
           w == Cancel(venue, o)
<1>3. /\ UNCHANGED <<own, other, phase, ghosted, signals>>
      /\ \/ /\ rows' = [rows EXCEPT ![o].cancel = TRUE]
            /\ venue' = [w EXCEPT !.out = <<>>] /\ Dispatch(w.out)
         \/ Dispatch(<<>>) /\ UNCHANGED <<rows, venue>>
  BY DEF OnCancel, config, history
<1>4. \A p \in Orders : SameRow(p)
  <2> HIDE DEF o
  <2>1. CASE rows' = [rows EXCEPT ![o].cancel = TRUE]
    <3>1. DOMAIN rows = Orders
      BY <1>1, HandlingRuns DEF KnownOrders
    <3>2. ASSUME NEW p \in Orders PROVE SameRow(p)
      <4>1. CASE p = o
        <5>1. rows'[p] = [rows[p] EXCEPT !.cancel = TRUE]
          BY <2>1, <3>1, <4>1
        <5>2. QED BY <5>1 DEF SameRow
      <4>2. CASE p # o
        <5>1. rows'[p] = rows[p]
          BY <2>1, <3>1, <4>2
        <5>2. QED BY <5>1 DEF SameRow
      <4>3. QED BY <4>1, <4>2
    <3>3. QED BY <3>2
  <2>2. CASE rows' = rows
    BY <2>2 DEF SameRow
  <2>3. QED BY <1>3, <2>1, <2>2
<1>5. BookOf(w) \subseteq BookOf(venue)
  BY <1>2, CancelKeeps
<1>6. Sound(venue)
  BY <1>2 DEF RowsInv
<1>7. Known(w) /\ Sound(w) /\ \A p : Serves(venue, w, p)
  BY <1>2, <1>6, CancelServes
<1> HIDE DEF w
<1>8. CASE venue' = [w EXCEPT !.out = <<>>] /\ Dispatch(w.out)
  <2>1. venue'.book = w.book /\ venue'.unapplied = w.unapplied
    BY <1>7, <1>8, Published
  <2>2. QED BY <1>1, <1>3, <1>4, <1>5, <1>7, <1>8, <2>1, HandlerRows
<1>9. CASE Dispatch(<<>>) /\ UNCHANGED <<rows, venue>>
  BY <1>1, <1>3, <1>4, <1>9, QuietRows
<1>10. QED BY <1>3, <1>8, <1>9

\* While nothing was disturbed the open orders have something open.
LEMMA PartsAre ==
    ASSUME RowsInv, ~crashed, ghosted = {}
    PROVE  PartsKnown /\ \A p \in Orders : IsOpenRow(p) => OpenPart(p) \in Nat \ {0}
<1>1. \A p \in Orders : InOrder(venue, Pending, p)
  BY DEF RowsInv
<1>2. \A p \in Orders : IsOpenRow(p) => OpenPart(p) \in Nat \ {0}
  BY <1>1 DEF InOrder, OpenAt, OpenPart
<1>3. QED BY <1>2 DEF PartsKnown

\* The order of a place signal that has no row is new to the venue.
LEMMA PlacedFresh ==
    ASSUME FundInv, ReduceInv, RowsInv, ~crashed, Handling("place"),
           NEW o, o = Head(queue).o, ~HasRow(o), NEW size \in Nat \ {0}
    PROVE  /\ Fresh(venue, o, size) /\ rows[o].trades = {} /\ o \in Orders \ ghosted
           /\ IsList(queue) /\ queue # <<>> /\ ~Said(Tail(queue), o)
           /\ \A p : ~ReportOf(Head(queue), p)
<1>1. /\ KnownOrders /\ Solid /\ Known(venue) /\ Fits(venue) /\ BusShape
      /\ phase = "running" /\ venue.out = <<>> /\ Head(queue).k = "place"
      /\ \A p \in BookOf(venue) : HasRow(p)
  BY HandlingRuns
<1>2. IsList(queue) /\ queue # <<>> /\ Pending = queue
  BY PendingList DEF Handling, FundInv, Bus, ReduceInv, BusShape
<1>3. o \in Orders /\ signals[o] \in Menu
  <2>1. 1 \in DOMAIN queue /\ Head(queue) = queue[1]
    BY <1>2, ListTail, ListFacts
  <2>2. QED BY <1>1, <2>1 DEF BusShape
<1>4. o \in Orders \ ghosted /\ Sound(venue) /\ InOrder(venue, queue, o)
  BY <1>1, <1>2, <1>3 DEF RowsInv
<1>5. ~Said(queue, o) /\ FillsOf(venue, o) = {}
  BY <1>4 DEF InOrder, ClosedAt, IsOpenRow
<1>6. ~Said(Tail(queue), o)
  BY <1>2, <1>5, HeadVoice
<1>7. \A p : ~ReportOf(Head(queue), p)
  BY <1>1 DEF ReportOf
<1>8. Fresh(venue, o, size)
  BY <1>1, <1>3, <1>4, <1>5 DEF Fresh, Arrives
<1>9. QED BY <1>1, <1>2, <1>3, <1>4, <1>6, <1>7, <1>8 DEF KnownOrders

LEMMA DenyRows ==
    ASSUME FundInv, ReduceInv, RowsInv, ~crashed, Deny
    PROVE  RowsInv'
<1>o. PICK o : o = Head(queue).o
  OBVIOUS
<1>r. PICK row : row = NewRow(o, "DENIED")
  OBVIOUS
<1>1. /\ Handling("place") /\ ~HasRow(o) /\ rows' = [rows EXCEPT ![o] = row] /\ Dispatch(<<>>)
      /\ UNCHANGED <<own, other, phase, ghosted, signals, venue>>
  BY <1>o, <1>r DEF Deny, config, memory, history
<1>2. row.st = "DENIED" /\ row.trades = {}
  BY <1>r DEF NewRow, NoRow
<1>3. /\ KnownOrders /\ Known(venue) /\ phase = "running" /\ venue.out = <<>>
  BY <1>1, HandlingRuns
<1>4. /\ Fresh(venue, o, 1) /\ rows[o].trades = {} /\ o \in Orders \ ghosted
      /\ IsList(queue) /\ queue # <<>> /\ ~Said(Tail(queue), o)
      /\ \A p : ~ReportOf(Head(queue), p)
  BY <1>1, <1>o, PlacedFresh
<1>5. DOMAIN rows = Orders /\ rows'[o] = row /\ \A p \in Orders : p # o => rows'[p] = rows[p]
  BY <1>1, <1>3, <1>4 DEF KnownOrders
<1>6. Sound(venue) /\ Addressed(queue)
  BY <1>3, <1>4, HandlingPending, ListEmpty, <1>1 DEF RowsInv
<1> DEFINE l == Tail(queue) \o venue.out
<1>7. Pending' = l /\ IsList(Tail(queue))
  BY <1>1, <1>3, HandlingPending, ListEmpty
<1>8. Addressed(l) /\ ~Said(l, o)
  <2>1. IsList(venue.out) /\ Addressed(venue.out) /\ ~Said(venue.out, o)
    BY <1>3, ListEmpty, VoiceNone DEF Addressed
  <2>2. InARow(Tail(queue), venue.out, l)
    BY <1>7, <2>1, InARowIs
  <2>3. Addressed(l)
    BY <1>4, <1>6, <2>1, AddressedHandled
  <2> HIDE DEF l
  <2>4. ~Said(l, o)
    BY <1>4, <2>1, <2>2, VoiceConcat
  <2>5. QED BY <2>3, <2>4
<1> HIDE DEF l
<1>9. InOrder(venue, Pending, o)'
  <2>1. Clear(l, o) /\ ~Begun(l, o)
    BY <1>8, VoiceIs
  <2>2. /\ Clear(Pending, o)' /\ ~Begun(Pending, o)' /\ ~Said(Pending, o)'
    BY <1>7, <1>8, <2>1
  <2>3. o \notin BookOf(venue) /\ FillsOf(venue, o) = {}
    BY <1>4 DEF Fresh, Arrives
  <2>4. FillsOf(venue, o)' = {} /\ ~IsOpenRow(o)' /\ o \notin BookOf(venue)'
    BY <1>1, <1>2, <1>4, <1>5, <2>3 DEF FillsOf, IsOpenRow, HasRow, BookOf, TerminalStates
  <2>5. QED BY <2>2, <2>4 DEF InOrder, ClosedAt
<1>10. ASSUME NEW p \in Orders \ ghosted', p # o PROVE InOrder(venue, Pending, p)'
  <2>1. SameRow(p)
    BY <1>5, <1>10 DEF SameRow
  <2>2. Dispatch(venue.out)
    BY <1>1, <1>3
  <2>3. Serves(venue, venue, p)
    BY ServesSelf
  <2>4. QED BY <1>1, <1>3, <1>4, <1>10, <2>1, <2>2, <2>3, HandledInOrder
<1>11. Addressed(Pending)'
  BY <1>7, <1>8 DEF Addressed
<1>12. Sound(venue)'
  BY <1>1, <1>6, SoundStays
<1>13. \A p \in Orders : SameOrder(p)
  <2>1. ~IsOpenRow(o) /\ ~IsOpenRow(o)'
    BY <1>1, <1>2, <1>5 DEF IsOpenRow, TerminalStates
  <2>2. \A p \in Orders : p # o => SameOrder(p)
    BY <1>1, <1>5 DEF SameOrder, IsOpenRow, HasRow, Side, OpenPart
  <2>3. QED BY <2>1, <2>2 DEF SameOrder
<1>14. Capped => Capped'
  BY <1>1, <1>13, CappedStays
<1>15. \A p \in ghosted' : p \in Orders /\ HasRow(p)'
  BY <1>1, <1>3, <1>4, <1>5 DEF RowsInv, HasRow
<1>16. QED BY <1>1, <1>3, <1>9, <1>10, <1>11, <1>12, <1>14, <1>15, RowsFrom

-----------------------------------------------------------------------------
\* The guard lets nothing pass that could take the position beyond the cap.

LEMMA GuardCaps ==
    ASSUME Solid, Capped, NEW o \in Orders, signals[o] \in Menu, NEW rest, rest = OpenRemainder(Side(o)),
           rest \in Int, NEW size \in Nat \ {0}, size = QuantizeSize(signals[o].raw),
           NEW mark, NEW t, NEW a, NEW now0, Approves(signals[o], Reading(o, mark), t, a, now0)
    PROVE  IF Side(o) = "buy" THEN StoreNet + rest + size <= MaxPosition
           ELSE StoreNet - rest - size >= -MaxPosition
<1> DEFINE signal == signals[o]
           reading == Reading(o, mark)
           d == Direction(signal.side)
<1>1. /\ reading.accountNet = StoreNet /\ reading.strategyNet = own /\ reading.openRemainder = rest
  BY DEF Reading
<1>2. /\ signal.side \in {"buy", "sell"} /\ signal.reduceOnly \in BOOLEAN /\ ~signal.operator
      /\ d \in {1, -1} /\ (d = 1 <=> signal.side = "buy") /\ Side(o) = signal.side
  BY PaperAssumption DEF Direction, Side
<1>3. StoreNet \in Int /\ own \in Int /\ other \in Int /\ StoreNet = own + other /\ MaxPosition \in Nat
  BY GuardAssumption DEF Solid, StoreNet
<1>4. Before(signal, reading) = StoreNet + d * rest
  BY <1>1 DEF Before
<1>5. WorstCase(signal, reading) = StoreNet + d * rest + d * size
  BY <1>4 DEF WorstCase
<1>6. /\ ~GrowsItsOwn(signal, reading)
      /\ SkipsCaps(signal, reading) \/ ~(Abs(WorstCase(signal, reading)) > MaxPosition)
  BY DEF Approves, Refused
<1>7. Abs(other) <= MaxPosition
  BY DEF Capped
<1>8. CASE signal.reduceOnly
  <2>1. OrderKind(signal) = "reduce_only"
    BY <1>2, <1>8 DEF OrderKind
  <2>2. Shrinks(own + d * rest, own + d * rest + d * size)
    BY <1>1, <1>6, <2>1 DEF GrowsItsOwn
  <2> HIDE DEF d, signal, reading
  <2>3. CASE d = 1
    <3>1. own + rest + size <= 0
      BY <1>3, <2>2, <2>3 DEF Shrinks, Abs
    <3>2. StoreNet + rest + size <= MaxPosition
      BY <1>3, <1>7, <3>1 DEF Abs
    <3>3. QED BY <1>2, <2>3, <3>2
  <2>4. CASE d = -1
    <3>1. own - rest - size >= 0
      BY <1>3, <2>2, <2>4 DEF Shrinks, Abs
    <3>2. StoreNet - rest - size >= -MaxPosition
      BY <1>3, <1>7, <3>1 DEF Abs
    <3>3. QED BY <1>2, <2>4, <3>2
  <2>5. QED BY <1>2, <2>3, <2>4
<1>9. CASE ~signal.reduceOnly
  <2>1. OrderKind(signal) = "plain"
    BY <1>9 DEF OrderKind
  <2>2. \/ Shrinks(StoreNet + d * rest, StoreNet + d * rest + d * size)
        \/ ~(Abs(StoreNet + d * rest + d * size) > MaxPosition)
    BY <1>4, <1>5, <1>6, <2>1 DEF SkipsCaps, Reduces
  <2> HIDE DEF d, signal, reading
  <2>3. CASE d = 1
    <3>1. StoreNet + rest + size <= 0 \/ Abs(StoreNet + rest + size) <= MaxPosition
      BY <1>3, <2>2, <2>3 DEF Shrinks, Abs
    <3>2. StoreNet + rest + size <= MaxPosition
      BY <1>3, <3>1 DEF Abs
    <3>3. QED BY <1>2, <2>3, <3>2
  <2>4. CASE d = -1
    <3>1. StoreNet - rest - size >= 0 \/ Abs(StoreNet - rest - size) <= MaxPosition
      BY <1>3, <2>2, <2>4 DEF Shrinks, Abs
    <3>2. StoreNet - rest - size >= -MaxPosition
      BY <1>3, <3>1 DEF Abs
    <3>3. QED BY <1>2, <2>4, <3>2
  <2>5. QED BY <1>2, <2>3, <2>4
<1>10. QED BY <1>2, <1>8, <1>9

\* The order the venue took, in its new row.
LEMMA TakenInOrder ==
    ASSUME NEW w, NEW o, NEW a \in Nat \ {0}, Taken(w, o, a),
           NEW l, Clear(l, o), Said(l, o), Ended(l, o) <=> Ended(w.out, o),
           \A f : Carries(w.out, f) => Carries(l, f), Pending' = l,
           venue'.book = w.book, venue'.unapplied = w.unapplied, signals' = signals,
           rows'[o].st = "SUBMITTED", rows'[o].trades = rows[o].trades, rows'[o].size = a,
           rows'[o].cum = 0, rows'[o].entered = {"SUBMITTED"}
    PROVE  InOrder(venue, Pending, o)'
<1>1. /\ FillsOf(venue, o)' = FillsOf(w, o) /\ (o \in BookOf(venue)' <=> o \in BookOf(w))
      /\ Filling(venue, o)' = Filling(w, o) /\ Left(venue, o)' = Left(w, o)
  BY DEF FillsOf, Filling, BookOf, Left, Entry, Resting, Side
<1>2. IsOpenRow(o)' /\ OpenPart(o)' = a
  BY DEF IsOpenRow, HasRow, TerminalStates, OpenPart
<1>3. /\ Clear(Pending, o)' /\ Said(Pending, o)'
      /\ Ended(Pending, o)' <=> Ended(w.out, o)
      /\ \A f : Carries(w.out, f) => Carries(Pending, f)'
  BY DEF Clear, Said, Ended, Carries, Record
<1>4. Accounts(venue, Pending, o, a)'
  BY <1>1, <1>3 DEF Taken, Accounts
<1>5. OpenAt(venue, Pending, o)'
  BY <1>1, <1>2, <1>3, <1>4 DEF OpenAt, Taken
<1>6. QED BY <1>1, <1>2, <1>3, <1>5 DEF InOrder, Taken

LEMMA PlaceOrderRows ==
    ASSUME FundInv, ReduceInv, RowsInv, ~crashed, PlaceOrder
    PROVE  RowsInv'
<1>o. PICK o : o = Head(queue).o
  OBVIOUS
<1>a. PICK size : size = QuantizeSize(signals[o].raw)
  OBVIOUS
<1>r. PICK row : row = [NewRow(o, "SUBMITTED") EXCEPT !.entered = {"SUBMITTED"}]
  OBVIOUS
<1>1. /\ Handling("place") /\ ~HasRow(o) /\ rows' = [rows EXCEPT ![o] = row]
      /\ UNCHANGED <<own, other, phase, ghosted, signals>>
  BY <1>o, <1>r DEF PlaceOrder, config, history
<1>2. /\ KnownOrders /\ Solid /\ Known(venue) /\ phase = "running" /\ venue.out = <<>> /\ BusShape
  BY <1>1, HandlingRuns
<1>3. row.st = "SUBMITTED" /\ row.trades = {} /\ row.size = size /\ row.cum = 0 /\ row.entered = {"SUBMITTED"}
  BY <1>r, <1>a DEF NewRow, NoRow
<1>4. PICK mark \in Marks : Approves(signals[o], Reading(o, mark), tripped, approved, now)
  BY <1>o DEF PlaceOrder
<1>5. o \in Orders /\ signals[o] \in Menu
  <2>1. 1 \in DOMAIN queue /\ Head(queue) = queue[1] /\ queue[1].k = "place"
    BY <1>1, ListTail, ListFacts DEF Handling, FundInv, Bus
  <2>2. QED BY <1>2, <1>o, <2>1 DEF BusShape
<1>6. size \in Nat \ {0}
  <2>1. size # 0
    BY <1>4, <1>a DEF Approves, Refused
  <2>2. signals[o].raw \in Nat
    BY <1>5, TermsAre
  <2>3. QED BY <1>a, <2>1, <2>2, GuardAssumption DEF QuantizeSize
<1>7. /\ Fresh(venue, o, size) /\ rows[o].trades = {} /\ o \in Orders \ ghosted
      /\ IsList(queue) /\ queue # <<>> /\ ~Said(Tail(queue), o)
      /\ \A p : ~ReportOf(Head(queue), p)
  BY <1>1, <1>o, <1>6, PlacedFresh
<1>8. DOMAIN rows = Orders /\ rows'[o] = row /\ \A p \in Orders : p # o => rows'[p] = rows[p]
  BY <1>1, <1>2, <1>5 DEF KnownOrders
<1>9. PICK missed \in BOOLEAN : LET v == Place(venue, o, rows'[o].size, missed)
                                IN  venue' = [v EXCEPT !.out = <<>>] /\ Dispatch(v.out)
  BY <1>o DEF PlaceOrder
<1>10. PICK w : w = Place(venue, o, size, missed)
  OBVIOUS
<1>11. venue' = [w EXCEPT !.out = <<>>] /\ Dispatch(w.out)
  BY <1>3, <1>8, <1>9, <1>10
<1>12. Placed(venue, w, o, size)
  BY <1>7, <1>10, PlacePlaced
<1>13. /\ Taken(w, o, size) /\ Known(w) /\ Sound(w) /\ \A p : p # o => Serves(venue, w, p)
       /\ IsList(w.out)
  BY <1>12 DEF Placed, Known, Tame, Reports
<1>14. venue'.book = w.book /\ venue'.unapplied = w.unapplied
  BY <1>11, <1>13, Published
<1>15. BookOf(w) \subseteq BookOf(venue) \cup {o}
  BY <1>7, <1>10, PlaceKeeps DEF Fresh
<1> DEFINE t == Tail(queue)
           out == w.out
           l == t \o out
<1>16. Pending = queue /\ Pending' = l /\ IsList(t)
  BY <1>1, <1>11, <1>13, HandlingPending
<1>17. InARow(t, out, l)
  BY <1>13, <1>16, InARowIs
<1>18. Addressed(queue) /\ Addressed(out)
  BY <1>2, <1>5, <1>13, <1>16, ServesAddressed DEF RowsInv
<1>19. Addressed(l)
  BY <1>7, <1>13, <1>18, AddressedHandled
<1>20. PICK e : e = l
  OBVIOUS
<1>21. ~Said(t, o)
  BY <1>7
<1> HIDE DEF t, l
<1>22. Clear(e, o) /\ Said(e, o) /\ (Ended(e, o) <=> Ended(w.out, o))
       /\ \A f : Carries(w.out, f) => Carries(e, f)
  <2>1. InARow(t, out, e)
    BY <1>17, <1>20
  <2>2. Clear(t, o) /\ ~Ended(t, o)
    BY <1>21, VoiceIs
  <2>3. Clear(out, o) /\ Said(out, o)
    BY <1>13 DEF Taken
  <2>4. Clear(e, o)
    BY <1>21, <2>1, <2>2, <2>3, ClearConcat
  <2>5. QED BY <1>21, <2>1, <2>2, <2>3, <2>4, VoiceConcat
<1>23. InOrder(venue, Pending, o)'
  BY <1>1, <1>3, <1>6, <1>7, <1>8, <1>13, <1>14, <1>16, <1>20, <1>22, TakenInOrder
<1>24. ASSUME NEW p \in Orders \ ghosted', p # o PROVE InOrder(venue, Pending, p)'
  <2>1. SameRow(p)
    BY <1>8, <1>24 DEF SameRow
  <2>2. p \in BookOf(w) => p \in BookOf(venue)
    BY <1>15, <1>24
  <2>3. QED BY <1>1, <1>7, <1>11, <1>13, <1>14, <1>24, <2>1, <2>2, HandledInOrder
<1>25. Addressed(Pending)'
  BY <1>16, <1>19 DEF Addressed
<1>26. Sound(venue)'
  BY <1>1, <1>13, <1>14, SoundStays
<1>27. ASSUME ghosted' = {}, Capped PROVE Capped'
  <2>1. PartsKnown
    BY <1>1, <1>27, PartsAre
  <2>2. IsOpenRow(o)' /\ ~IsOpenRow(o) /\ OpenPart(o)' = size /\ Side(o)' = Side(o)
    BY <1>1, <1>3, <1>6, <1>8 DEF IsOpenRow, HasRow, TerminalStates, OpenPart, Side
  <2>3. \A p \in Orders \ {o} : SameOrder(p)
    BY <1>1, <1>8 DEF SameOrder, IsOpenRow, HasRow, Side, OpenPart
  <2>4. /\ OpenRemainder("buy")' - Part(o, "buy")' = OpenRemainder("buy") - Part(o, "buy")
        /\ OpenRemainder("buy") \in Int /\ OpenRemainder("buy")' \in Int
        /\ OpenRemainder("sell")' - Part(o, "sell")' = OpenRemainder("sell") - Part(o, "sell")
        /\ OpenRemainder("sell") \in Int /\ OpenRemainder("sell")' \in Int
    BY <1>5, <1>6, <2>1, <2>2, <2>3, RemainderMoves
  <2>5. /\ Part(o, "buy") = 0 /\ Part(o, "sell") = 0
        /\ Part(o, "buy")' = (IF Side(o) = "buy" THEN size ELSE 0)
        /\ Part(o, "sell")' = (IF Side(o) = "sell" THEN size ELSE 0)
    BY <2>2 DEF Part
  <2>6. Side(o) \in {"buy", "sell"}
    BY <1>5, TermsAre DEF Side
  <2>7. IF Side(o) = "buy" THEN StoreNet + OpenRemainder("buy") + size <= MaxPosition
        ELSE StoreNet - OpenRemainder("sell") - size >= -MaxPosition
    BY <1>2, <1>4, <1>5, <1>6, <1>a, <1>27, <2>4, <2>6, GuardCaps
  <2>8. StoreNet' = StoreNet /\ other' = other /\ StoreNet \in Int /\ MaxPosition \in Nat
    BY <1>1, <1>2, GuardAssumption DEF Solid, StoreNet
  <2>9. StoreNet + OpenRemainder("buy") <= MaxPosition /\ StoreNet - OpenRemainder("sell") >= -MaxPosition
    BY <1>27, <2>4, <2>8 DEF Capped, Worst, Direction
  <2>10. StoreNet + OpenRemainder("buy")' <= MaxPosition /\ StoreNet - OpenRemainder("sell")' >= -MaxPosition
    BY <1>6, <2>4, <2>5, <2>6, <2>7, <2>8, <2>9
  <2>11. Worst("buy")' <= MaxPosition /\ Worst("sell")' >= -MaxPosition
    BY <2>4, <2>8, <2>10 DEF Worst, Direction
  <2>12. QED BY <1>27, <2>8, <2>11 DEF Capped
<1>28. \A p \in ghosted' : p \in Orders /\ HasRow(p)'
  BY <1>1, <1>2, <1>7, <1>8 DEF RowsInv, HasRow
<1>29. QED BY <1>1, <1>2, <1>23, <1>24, <1>25, <1>26, <1>27, <1>28, RowsFrom

\* A sum of terms of one sign has that sign.
LEMMA SignedSum ==
    ASSUME NEW S, IsFiniteSet(S), NEW fun, NEW d \in {1, -1},
           \A p \in S : fun[p] \in Int /\ d * fun[p] \in Nat
    PROVE  SumFunctionOnSet(fun, S) \in Int /\ d * SumFunctionOnSet(fun, S) \in Nat
<1> DEFINE OneSign(t) == SumFunctionOnSet(fun, t) \in Int /\ d * SumFunctionOnSet(fun, t) \in Nat
           C == {k \in Nat : \A t \in SUBSET S : Cardinality(t) = k => OneSign(t)}
<1>0. \A t \in SUBSET S : IsFiniteSet(t) /\ Cardinality(t) \in Nat
  BY FS_Subset, FS_CardinalityType
<1>1. 0 \in C
  <2>1. ASSUME NEW t \in SUBSET S, Cardinality(t) = 0 PROVE OneSign(t)
    <3>1. t = {}
      BY <1>0, <2>1, FS_EmptySet
    <3>2. SumFunctionOnSet(fun, t) = 0
      BY <1>0, <3>1, SumUnfolds
    <3>3. QED BY <3>2
  <2>2. QED BY <2>1
<1>2. ASSUME NEW k \in Nat, k \in C PROVE k + 1 \in C
  <2>1. ASSUME NEW t \in SUBSET S, Cardinality(t) = k + 1 PROVE OneSign(t)
    <3>1. t # {}
      BY <1>0, <2>1, FS_EmptySet
    <3>2. /\ Pick(t) \in t /\ t \ {Pick(t)} \in SUBSET S
          /\ Cardinality(t \ {Pick(t)}) = k
      BY <1>0, <2>1, <3>1, PickIs
    <3>3. OneSign(t \ {Pick(t)}) /\ fun[Pick(t)] \in Int /\ d * fun[Pick(t)] \in Nat
      BY <1>2, <3>2
    <3>4. SumFunctionOnSet(fun, t) = fun[Pick(t)] + SumFunctionOnSet(fun, t \ {Pick(t)})
      BY <1>0, <3>1, SumUnfolds
    <3>5. QED BY <3>3, <3>4
  <2>2. QED BY <2>1
<1>3. \A k \in Nat : k \in C => k + 1 \in C
  BY <1>2
<1>4. Cardinality(S) \in C
  <2> HIDE DEF C
  <2>1. QED BY <1>0, <1>1, <1>3, ClimbNat
<1>5. QED BY <1>4

LEMMA SignedTotal ==
    ASSUME NEW U, IsFiniteSet(U), NEW d \in {1, -1},
           \A f \in U : f.size \in Int /\ d * f.size \in Nat
    PROVE  Total(U) \in Int /\ d * Total(U) \in Nat
<1> DEFINE fun == [f \in U |-> f.size]
<1>1. DOMAIN fun = U /\ \A x \in U : fun[x] \in Int /\ d * fun[x] \in Nat
  OBVIOUS
<1>2. Total(U) = SumFunctionOnSet(fun, U)
  BY <1>1 DEF Total, SumFunction
<1> HIDE DEF fun
<1>3. QED BY <1>1, <1>2, SignedSum

\* The fills of an order without one of them.
LEMMA FillLeaves ==
    ASSUME NEW v, Known(v), Sound(v), NEW o, signals[o] \in Menu, NEW f \in FillsOf(v, o),
           NEW size \in Nat \ {0}, f.size = Direction(Side(o)) * size
    PROVE  \E rest \in Nat :
              /\ Direction(Side(o)) * Total(FillsOf(v, o) \ {f}) = rest
              /\ Filling(v, o) = size + rest
              /\ rest = 0 => FillsOf(v, o) \ {f} = {}
<1>d. PICK d \in {1, -1} : d = Direction(Side(o))
  BY TermsAre
<1>u. PICK U : U = FillsOf(v, o) \ {f}
  OBVIOUS
<1>1. IsFiniteSet(FillsOf(v, o)) /\ \A g \in FillsOf(v, o) : g.size \in Int
  BY FillsAre DEF Known
<1>2. \A g \in FillsOf(v, o) : d * g.size \in Nat \ {0}
  BY <1>d DEF Sound, FillsOf
<1>3. IsFiniteSet(U) /\ \A g \in U : g.size \in Int /\ d * g.size \in Nat
  BY <1>u, <1>1, <1>2, FS_Subset
<1>4. Total(U) \in Int /\ d * Total(U) \in Nat
  BY <1>3, SignedTotal
<1>5. U \cup {f} = FillsOf(v, o) /\ f \notin U /\ f.size \in Int
  BY <1>u, <1>1
<1>6. Total(FillsOf(v, o)) = Total(U) + f.size
  BY <1>3, <1>5, TotalAdd
<1>7. Filling(v, o) = size + d * Total(U)
  BY <1>d, <1>4, <1>6 DEF Filling
<1>8. ASSUME d * Total(U) = 0 PROVE U = {}
  <2>1. SUFFICES ASSUME NEW g \in U PROVE FALSE
    OBVIOUS
  <2>2. PICK W : W = U \ {g}
    OBVIOUS
  <2>3. IsFiniteSet(W) /\ \A h \in W : h.size \in Int /\ d * h.size \in Nat
    BY <1>3, <2>2, FS_Subset
  <2>4. Total(W) \in Int /\ d * Total(W) \in Nat
    BY <2>3, SignedTotal
  <2>5. W \cup {g} = U /\ g \notin W /\ g.size \in Int /\ d * g.size \in Nat \ {0}
    BY <1>u, <1>2, <1>3, <2>1, <2>2
  <2>6. Total(U) = Total(W) + g.size
    BY <2>3, <2>5, TotalAdd
  <2>7. QED BY <1>8, <2>4, <2>5, <2>6
<1>9. QED BY <1>d, <1>u, <1>4, <1>7, <1>8

\* The order of a fill that the store handles is open, and the fill is no more
\* than what it has open.
LEMMA FillFits ==
    ASSUME NEW v, Known(v), Sound(v), NEW o, signals[o] \in Menu, NEW l, InOrder(v, l, o),
           NEW f \in FillsOf(v, o), NEW size \in Nat \ {0}, f.size = Direction(Side(o)) * size
    PROVE  \E rest \in Nat :
              /\ Direction(Side(o)) * Total(FillsOf(v, o) \ {f}) = rest
              /\ rest = 0 => FillsOf(v, o) \ {f} = {}
              /\ IsOpenRow(o) /\ OpenAt(v, l, o) /\ size <= OpenPart(o)
              /\ IF o \in BookOf(v)
                 THEN rest + Left(v, o) = OpenPart(o) - size /\ Left(v, o) \in Nat \ {0} /\ ~Ended(l, o)
                 ELSE rest <= OpenPart(o) - size /\ (rest = OpenPart(o) - size \/ Ended(l, o))
<1>1. PICK rest \in Nat : /\ Direction(Side(o)) * Total(FillsOf(v, o) \ {f}) = rest
                          /\ Filling(v, o) = size + rest
                          /\ rest = 0 => FillsOf(v, o) \ {f} = {}
  BY FillLeaves
<1>2. IsOpenRow(o) /\ OpenAt(v, l, o)
  BY DEF InOrder, ClosedAt
<1>3. Accounts(v, l, o, OpenPart(o)) /\ OpenPart(o) \in Nat
  BY <1>2 DEF OpenAt, OpenPart
<1>4. CASE o \in BookOf(v)
  <2>1. PICK i \in DOMAIN v.book : v.book[i].o = o
    BY <1>4 DEF BookOf
  <2>2. Entry(v, o) = v.book[i]
    BY <2>1, EntryAt DEF Known
  <2>3. Left(v, o) \in Nat \ {0}
    BY <2>1, <2>2 DEF Left, Known, WorksOnce, Entries, Sound
  <2>4. Filling(v, o) + Left(v, o) = OpenPart(o) /\ ~Ended(l, o)
    BY <1>3, <1>4 DEF Accounts
  <2>5. QED BY <1>1, <1>2, <1>3, <1>4, <2>3, <2>4
<1>5. CASE o \notin BookOf(v)
  <2>1. Filling(v, o) <= OpenPart(o) /\ (Filling(v, o) = OpenPart(o) \/ Ended(l, o))
    BY <1>3, <1>5 DEF Accounts
  <2>2. QED BY <1>1, <1>2, <1>3, <1>5, <2>1
<1>6. QED BY <1>4, <1>5

\* What it says of the row.
LEMMA FillOpens ==
    ASSUME NEW v, Known(v), Sound(v), NEW o, signals[o] \in Menu, NEW l, InOrder(v, l, o),
           NEW f \in FillsOf(v, o), NEW size \in Nat \ {0}, f.size = Direction(Side(o)) * size
    PROVE  IsOpenRow(o) /\ OpenAt(v, l, o) /\ size <= OpenPart(o)
<1>1. PICK rest \in Nat : IsOpenRow(o) /\ OpenAt(v, l, o) /\ size <= OpenPart(o)
  BY FillFits
<1>2. QED BY <1>1

\* A fill of an order that nothing disturbed is one its row may book.
LEMMA FillHandled ==
    ASSUME FundInv, ReduceInv, RowsInv, ~crashed, Handling("fill"),
           NEW m, m = Head(queue), NEW o, o = m.o, o \notin ghosted, NEW f, f = Record(signals, m)
    PROVE  /\ o \in Orders /\ m.size \in Nat \ {0} /\ f \in FillsOf(venue, o) /\ f.n = m.n
           /\ Known(venue) /\ Sound(venue) /\ signals[o] \in Menu /\ InOrder(venue, queue, o)
           /\ Pending = queue /\ IsList(queue) /\ queue # <<>> /\ m.k = "fill"
           /\ f.size = Direction(Side(o)) * m.size
           /\ IsOpenRow(o) /\ OpenAt(venue, queue, o) /\ m.size <= OpenPart(o)
           /\ MayEnter(rows[o], Reached(rows[o], m.size))
<1>1. /\ m.k = "fill" /\ o \in Orders /\ signals[o] \in Menu /\ m.size \in Nat \ {0}
      /\ m.n \in Nat /\ m.n \notin rows[o].trades
      /\ f \in Unapplied(venue) /\ f.size = Direction(Side(o)) * m.size
  BY NextFill
<1>2. phase = "running" /\ Known(venue)
  BY HandlingRuns
<1>3. Pending = queue /\ IsList(queue) /\ queue # <<>>
  BY PendingList DEF Handling, FundInv, Bus, ReduceInv, BusShape
<1>4. Sound(venue) /\ InOrder(venue, queue, o)
  BY <1>1, <1>2, <1>3 DEF RowsInv
<1>5. f.o = o /\ f.n = m.n
  BY DEF Record
<1>6. f \in FillsOf(venue, o)
  BY <1>1, <1>5 DEF FillsOf, Unapplied
<1> DEFINE size == m.size
<1>7. IsOpenRow(o) /\ OpenAt(venue, queue, o) /\ m.size <= OpenPart(o)
  <2>1. size \in Nat \ {0} /\ f.size = Direction(Side(o)) * size /\ signals[o] \in Menu
    BY <1>1
  <2> HIDE DEF size
  <2>2. IsOpenRow(o) /\ OpenAt(venue, queue, o) /\ size <= OpenPart(o)
    BY <1>2, <1>4, <1>6, <2>1, FillOpens
  <2>3. QED BY <2>2 DEF size
<1>8. MayEnter(rows[o], Reached(rows[o], m.size))
  BY <1>7 DEF OpenAt, MayEnter, LegalTransitions, Reached
<1>9. QED BY <1>1, <1>2, <1>3, <1>4, <1>5, <1>6, <1>7, <1>8

\* Its row, the fill booked, is still in order.
LEMMA AppliedInOrder ==
    ASSUME FundInv, ReduceInv, RowsInv, ~crashed, Handling("fill"),
           NEW m, m = Head(queue), NEW o, o = m.o, o \notin ghosted,
           signals' = signals, venue' = venue, Dispatch(<<>>),
           rows'[o] = [rows[o] EXCEPT !.st = Reached(rows[o], m.size), !.cum = @ + m.size,
                                      !.trades = @ \cup {m.n}]
    PROVE  /\ InOrder(venue, Pending, o)'
           /\ \/ IsOpenRow(o)' /\ OpenPart(o)' = OpenPart(o) - m.size
              \/ ~IsOpenRow(o)' /\ OpenPart(o) = m.size
<1>f. PICK f : f = Record(signals, m)
  OBVIOUS
<1>1. /\ o \in Orders /\ m.size \in Nat \ {0} /\ f \in FillsOf(venue, o) /\ f.n = m.n
      /\ Known(venue) /\ Sound(venue) /\ signals[o] \in Menu /\ InOrder(venue, queue, o)
      /\ Pending = queue /\ IsList(queue) /\ queue # <<>> /\ m.k = "fill"
      /\ f.size = Direction(Side(o)) * m.size
      /\ IsOpenRow(o) /\ OpenAt(venue, queue, o) /\ m.size <= OpenPart(o)
  BY <1>f, FillHandled
<1>2. PICK S : S = FillsOf(venue, o)
  OBVIOUS
<1>3. PICK rest \in Nat :
            /\ Direction(Side(o)) * Total(S \ {f}) = rest
            /\ rest = 0 => S \ {f} = {}
            /\ IF o \in BookOf(venue)
               THEN rest + Left(venue, o) = OpenPart(o) - m.size /\ Left(venue, o) \in Nat \ {0}
                    /\ ~Ended(queue, o)
               ELSE rest <= OpenPart(o) - m.size
                    /\ (rest = OpenPart(o) - m.size \/ Ended(queue, o))
  BY <1>1, <1>2, FillFits
<1>4. PICK t : t = Tail(queue)
  OBVIOUS
<1>5. Pending' = t
  <2>1. IsList(<<>>)
    BY ListEmpty
  <2>2. Pending' = Tail(queue) \o <<>> /\ IsList(Tail(queue))
    BY <2>1, HandlingPending
  <2>3. Tail(queue) \o <<>> = Tail(queue)
    BY <2>2, ConcatNothing
  <2>4. QED BY <1>4, <2>2, <2>3
<1>6. /\ Clear(t, o) /\ ~Begun(t, o) /\ (Ended(queue, o) <=> Ended(t, o))
      /\ \A g : Carries(queue, g) <=> f = g \/ Carries(t, g)
  <2>1. ReportOf(m, o) /\ ~Ends(m, o)
    BY <1>1 DEF ReportOf, Ends
  <2>2. Clear(queue, o)
    BY <1>1 DEF InOrder
  <2>3. QED BY <1>1, <1>4, <1>f, <2>1, <2>2, HeadVoice
<1>7. /\ Clear(Pending, o)' /\ ~Begun(Pending, o)' /\ (Ended(Pending, o)' <=> Ended(queue, o))
      /\ \A g : Carries(Pending, g)' <=> Carries(t, g)
  BY <1>5, <1>6 DEF Clear, Begun, Ended, Carries, Record
<1>8. FillsOf(venue, o)' = S \ {f}
  <2>1. FillsOf(venue, o)' = {g \in venue.unapplied : g.o = o /\ g.n \notin rows'[o].trades}
    BY DEF FillsOf
  <2>2. rows'[o].trades = rows[o].trades \cup {m.n}
    OBVIOUS
  <2>3. \A g \in S : g.n = m.n => g = f
    BY <1>1, <1>2 DEF Known, CountsFills, FillsOf
  <2>4. QED BY <1>1, <1>2, <2>1, <2>2, <2>3 DEF FillsOf
<1>9. Filling(venue, o)' = rest
  BY <1>3, <1>8 DEF Filling, Side
<1>10. Left(venue, o)' = Left(venue, o) /\ BookOf(venue)' = BookOf(venue)
  BY DEF Left, Entry, Resting, BookOf
<1>11. /\ rows'[o].size = rows[o].size /\ rows'[o].cum = rows[o].cum + m.size
       /\ rows'[o].entered = rows[o].entered /\ rows'[o].st = Reached(rows[o], m.size)
  OBVIOUS
<1>12. rows[o].size \in Nat /\ rows[o].cum \in Nat /\ OpenPart(o) = rows[o].size - rows[o].cum
  BY <1>1 DEF OpenAt, OpenPart
<1>13. \A g \in FillsOf(venue, o)' : Carries(Pending, g)'
  BY <1>1, <1>2, <1>6, <1>7, <1>8 DEF InOrder
<1>14. CASE m.size = OpenPart(o)
  <2>1. rows'[o].st = "FILLED"
    BY <1>1, <1>11, <1>12, <1>14 DEF Reached
  <2>2. o \notin BookOf(venue) /\ rest = 0
    BY <1>1, <1>3, <1>12, <1>14
  <2>3. HasRow(o)' /\ ~IsOpenRow(o)'
    BY <2>1 DEF HasRow, IsOpenRow, TerminalStates
  <2>4. ClosedAt(venue, Pending, o)'
    BY <1>3, <1>8, <1>10, <2>2, <2>3 DEF ClosedAt
  <2>5. QED BY <1>7, <1>13, <1>14, <2>3, <2>4 DEF InOrder
<1>15. CASE m.size # OpenPart(o)
  <2>1. rows'[o].st = "PARTIALLY_FILLED"
    BY <1>1, <1>11, <1>12, <1>15 DEF Reached
  <2>2. OpenPart(o)' = OpenPart(o) - m.size /\ OpenPart(o)' > 0
    BY <1>1, <1>11, <1>12, <1>15 DEF OpenPart
  <2>3. IsOpenRow(o)'
    BY <2>1 DEF HasRow, IsOpenRow, TerminalStates
  <2>4. Accounts(venue, Pending, o, OpenPart(o))'
    BY <1>3, <1>7, <1>9, <1>10, <2>2 DEF Accounts
  <2>5. OpenAt(venue, Pending, o)'
    BY <1>1, <1>10, <1>11, <1>12, <2>1, <2>2, <2>4 DEF OpenAt
  <2>6. QED BY <1>7, <1>13, <2>2, <2>3, <2>5 DEF InOrder
<1>16. QED BY <1>14, <1>15

\* A run that faults over an order that was disturbed is down.
LEMMA FaultRows ==
    ASSUME ghosted # {}, Faults
    PROVE  RowsInv'
<1>1. phase' = "down" /\ ghosted' = ghosted
  BY DEF Faults, Down
<1>2. QED BY <1>1 DEF RowsInv

\* What is pending once an event is handled that published nothing.
LEMMA DroppedHead ==
    ASSUME FundInv, ReduceInv, RowsInv, ~crashed, NEW kind, Handling(kind), Dispatch(<<>>)
    PROVE  /\ Pending = queue /\ IsList(queue) /\ queue # <<>>
           /\ Pending' = Tail(queue) /\ Addressed(Tail(queue))
<1>1. IsList(<<>>)
  BY ListEmpty
<1>2. /\ Pending = queue /\ IsList(queue) /\ queue # <<>> /\ IsList(Tail(queue))
      /\ Pending' = Tail(queue) \o <<>>
  BY <1>1, HandlingPending
<1>3. Tail(queue) \o <<>> = Tail(queue)
  BY <1>2, ConcatNothing
<1>4. Addressed(queue)
  BY <1>2, HandlingRuns DEF RowsInv
<1> DEFINE t == Tail(queue)
<1>5. \A i \in DOMAIN t : i + 1 \in DOMAIN queue /\ t[i] = queue[i + 1]
  BY <1>2, ListTail, TailOf
<1>6. Addressed(t)
  BY <1>4, <1>5 DEF Addressed
<1>7. QED BY <1>2, <1>3, <1>6

\* A report of an order m.o was handled, and its row moved.
LEMMA ReportRows ==
    ASSUME FundInv, ReduceInv, RowsInv, ~crashed, NEW kind, Handling(kind),
           NEW m, m = Head(queue), NEW o \in Orders, o = m.o,
           UNCHANGED <<phase, ghosted, signals, other>>,
           venue'.book = venue.book, venue'.unapplied = venue.unapplied, Dispatch(<<>>),
           \A p \in Orders \ {o} : rows'[p] = rows[p], rows'[o].st # "none",
           o \in ghosted \/ InOrder(venue, Pending, o)',
           ghosted = {} /\ Capped => Capped'
    PROVE  RowsInv'
<1>1. phase = "running" /\ venue.out = <<>> /\ Known(venue)
  BY HandlingRuns
<1>2. ASSUME NEW p \in Orders \ ghosted', p # o PROVE InOrder(venue, Pending, p)'
  <2>1. ~ReportOf(Head(queue), p) /\ SameRow(p) /\ Serves(venue, venue, p)
    BY <1>2, ServesSelf DEF ReportOf, SameRow
  <2>2. Dispatch(venue.out)
    BY <1>1
  <2>3. QED BY <1>1, <1>2, <2>1, <2>2, HandledInOrder
<1>3. Addressed(Pending)'
  BY DroppedHead DEF Addressed
<1>4. Sound(venue)'
  BY <1>1, SoundStays DEF RowsInv
<1>5. \A p \in ghosted' : p \in Orders /\ HasRow(p)'
  BY <1>1 DEF RowsInv, HasRow
<1>6. QED BY <1>1, <1>2, <1>3, <1>4, <1>5, RowsFrom

\* The worst case stands when an order's open part becomes the store's.
LEMMA CappedApplied ==
    ASSUME Capped, Solid, ghosted = {}, RowsInv, ~crashed, NEW o \in Orders, IsOpenRow(o),
           signals[o] \in Menu, signals' = signals, other' = other,
           NEW size \in Nat, own' = own + Direction(Side(o)) * size,
           \A p \in Orders \ {o} : rows'[p] = rows[p],
           \/ IsOpenRow(o)' /\ OpenPart(o)' = OpenPart(o) - size
           \/ ~IsOpenRow(o)' /\ OpenPart(o) = size
    PROVE  Capped'
<1>1. PartsKnown /\ OpenPart(o) \in Nat
  BY PartsAre
<1>2. \A p \in Orders \ {o} : SameOrder(p)
  BY DEF SameOrder, IsOpenRow, HasRow, Side, OpenPart
<1>3. IsOpenRow(o)' => OpenPart(o)' \in Int
  BY <1>1
<1>4. /\ OpenRemainder("buy")' - Part(o, "buy")' = OpenRemainder("buy") - Part(o, "buy")
      /\ OpenRemainder("buy") \in Int /\ OpenRemainder("buy")' \in Int
      /\ OpenRemainder("sell")' - Part(o, "sell")' = OpenRemainder("sell") - Part(o, "sell")
      /\ OpenRemainder("sell") \in Int /\ OpenRemainder("sell")' \in Int
  BY <1>1, <1>2, <1>3, RemainderMoves
<1>5. Side(o)' = Side(o) /\ Side(o) \in {"buy", "sell"}
  BY TermsAre DEF Side
<1>6. /\ Part(o, "buy") = (IF Side(o) = "buy" THEN OpenPart(o) ELSE 0)
      /\ Part(o, "sell") = (IF Side(o) = "sell" THEN OpenPart(o) ELSE 0)
      /\ Part(o, "buy")' = (IF Side(o) = "buy" THEN OpenPart(o) - size ELSE 0)
      /\ Part(o, "sell")' = (IF Side(o) = "sell" THEN OpenPart(o) - size ELSE 0)
  BY <1>1, <1>5 DEF Part
<1>7. /\ StoreNet \in Int /\ MaxPosition \in Nat
      /\ StoreNet' = (IF Side(o) = "buy" THEN StoreNet + size ELSE StoreNet - size)
  BY <1>5, GuardAssumption DEF Solid, StoreNet, Direction
<1>8. StoreNet + OpenRemainder("buy") <= MaxPosition /\ StoreNet - OpenRemainder("sell") >= -MaxPosition
  BY <1>4, <1>7 DEF Capped, Worst, Direction
<1>9. StoreNet' + OpenRemainder("buy")' <= MaxPosition /\ StoreNet' - OpenRemainder("sell")' >= -MaxPosition
  BY <1>1, <1>4, <1>5, <1>6, <1>7, <1>8
<1>10. StoreNet' \in Int
  BY <1>7
<1>11. Worst("buy")' <= MaxPosition /\ Worst("sell")' >= -MaxPosition
  BY <1>4, <1>9, <1>10 DEF Worst, Direction
<1>12. QED BY <1>11 DEF Capped

LEMMA OnFillRows ==
    ASSUME FundInv, ReduceInv, RowsInv, ~crashed, OnFill
    PROVE  RowsInv'
<1>m. PICK m : m = Head(queue)
  OBVIOUS
<1>o. PICK o : o = m.o
  OBVIOUS
<1>1. Handling("fill")
  BY DEF OnFill
<1>2. /\ o \in Orders /\ signals[o] \in Menu /\ m.size \in Nat \ {0}
      /\ m.n \notin rows[o].trades /\ m.n \in Nat /\ m.n <= venue.count[o]
  BY <1>1, <1>m, <1>o, NextFill
<1>3. KnownOrders /\ Solid /\ phase = "running" /\ venue.out = <<>>
  BY <1>1, HandlingRuns
<1>4. CASE ~MayEnter(rows[o], Reached(rows[o], m.size))
  <2>1. Faults
    BY <1>m, <1>o, <1>2, <1>4 DEF OnFill, Reached
  <2>2. o \in ghosted
    BY <1>1, <1>m, <1>o, <1>4, FillHandled
  <2>3. QED BY <2>1, <2>2, FaultRows
<1>5. CASE MayEnter(rows[o], Reached(rows[o], m.size))
  <2> DEFINE e == [rows[o] EXCEPT !.st = Reached(rows[o], m.size), !.cum = @ + m.size,
                                  !.trades = @ \cup {m.n}]
  <2>1. /\ venue' = OnFillReport(venue, m) /\ rows' = [rows EXCEPT ![o] = e]
        /\ own' = own + Direction(Side(o)) * m.size /\ Dispatch(<<>>)
        /\ UNCHANGED <<signals, phase, ghosted, other>>
    BY <1>m, <1>o, <1>2, <1>5 DEF OnFill, Reached, config, history
  <2>2. venue' = venue
    BY <1>o, <1>2, <2>1 DEF OnFillReport
  <2>3. e.st \in {"FILLED", "PARTIALLY_FILLED"}
    BY <1>5 DEF Reached, MayEnter, LegalTransitions
  <2>4. rows'[o] = e /\ \A p \in Orders \ {o} : rows'[p] = rows[p]
    BY <1>2, <1>3, <2>1 DEF KnownOrders
  <2>5. rows'[o].st # "none"
    BY <2>3, <2>4
  <2>6. ASSUME o \notin ghosted
        PROVE  /\ InOrder(venue, Pending, o)'
               /\ \/ IsOpenRow(o)' /\ OpenPart(o)' = OpenPart(o) - m.size
                  \/ ~IsOpenRow(o)' /\ OpenPart(o) = m.size
    BY <1>1, <1>m, <1>o, <2>1, <2>2, <2>4, <2>6, AppliedInOrder
  <2>7. ASSUME ghosted = {}, Capped PROVE Capped'
    <3>1. IsOpenRow(o)
      BY <1>1, <1>m, <1>o, <2>7, FillHandled
    <3> DEFINE size == m.size
    <3>2. /\ size \in Nat /\ own' = own + Direction(Side(o)) * size
          /\ \/ IsOpenRow(o)' /\ OpenPart(o)' = OpenPart(o) - size
             \/ ~IsOpenRow(o)' /\ OpenPart(o) = size
      BY <1>2, <2>1, <2>6, <2>7
    <3> HIDE DEF size
    <3>3. QED BY <1>2, <1>3, <2>1, <2>4, <2>7, <3>1, <3>2, CappedApplied
  <2>8. QED BY <1>1, <1>m, <1>o, <1>2, <2>1, <2>2, <2>4, <2>5, <2>6, <2>7, ReportRows
<1>6. QED BY <1>4, <1>5

\* What a status says of an order that nothing disturbed: its row is over and
\* ignores it, or it is live, or it ends.
LEMMA StatusHandled ==
    ASSUME FundInv, ReduceInv, RowsInv, ~crashed, Handling("status"),
           NEW m, m = Head(queue), NEW o, o = m.o, o \in Orders \ ghosted
    PROVE  /\ Pending = queue /\ IsList(queue) /\ queue # <<>> /\ m.k = "status"
           /\ Clear(Tail(queue), o) /\ ~Begun(Tail(queue), o)
           /\ \A f : Carries(queue, f) <=> Carries(Tail(queue), f)
           /\ \A f \in FillsOf(venue, o) : Carries(queue, f)
           /\ \/ ~IsOpenRow(o) /\ HasRow(o) /\ ClosedAt(venue, queue, o)
              \/ /\ IsOpenRow(o) /\ OpenAt(venue, queue, o) /\ m.st = "LIVE"
                 /\ rows[o].st = "SUBMITTED" /\ (Ended(queue, o) <=> Ended(Tail(queue), o))
              \/ /\ IsOpenRow(o) /\ m.st \in {"CANCELLED", "REJECTED", "FAILED"}
                 /\ ~SeenStatus(rows[o], m.st) /\ MayEnter(rows[o], m.st)
                 /\ o \notin BookOf(venue) /\ FillsOf(venue, o) = {}
<1>1. phase = "running" /\ m.k = "status"
  BY HandlingRuns
<1>2. Pending = queue /\ IsList(queue) /\ queue # <<>>
  BY PendingList DEF Handling, FundInv, Bus, ReduceInv, BusShape
<1>3. InOrder(venue, queue, o)
  BY <1>1, <1>2 DEF RowsInv
<1>4. PICK t : t = Tail(queue)
  OBVIOUS
<1>5. ReportOf(m, o) /\ Said(queue, o)
  BY <1>1, <1>2, HeadVoice DEF ReportOf
<1>6. /\ m.st \in {"LIVE", "CANCELLED", "REJECTED", "FAILED"}
      /\ Clear(t, o) /\ (Ends(m, o) => ~Said(t, o)) /\ ~Begun(t, o)
      /\ Ended(queue, o) <=> Ends(m, o) \/ Ended(t, o)
      /\ Begins(m, o) => Begun(queue, o)
      /\ \A f : Carries(queue, f) <=> Carries(t, f)
  BY <1>1, <1>2, <1>3, <1>4, <1>5, HeadVoice DEF InOrder
<1>7. /\ Begins(m, o) <=> m.st # "CANCELLED"
      /\ Ends(m, o) <=> m.st # "LIVE"
  BY <1>1, <1>6 DEF Begins, Ends, TerminalStates
<1>8. Begins(m, o) => rows[o].st = "SUBMITTED"
  BY <1>3, <1>6 DEF InOrder
<1>9. \A f \in FillsOf(venue, o) : Carries(queue, f)
  BY <1>3 DEF InOrder
<1>10. CASE ~IsOpenRow(o)
  <2>1. ClosedAt(venue, queue, o)
    BY <1>3, <1>10 DEF InOrder
  <2>2. HasRow(o)
    BY <1>5, <2>1 DEF ClosedAt
  <2>3. QED BY <1>1, <1>2, <1>4, <1>6, <1>9, <1>10, <2>1, <2>2
<1>11. CASE IsOpenRow(o)
  <2>1. OpenAt(venue, queue, o)
    BY <1>3, <1>11 DEF InOrder
  <2>2. CASE m.st = "LIVE"
    BY <1>1, <1>2, <1>4, <1>6, <1>7, <1>8, <1>9, <1>11, <2>1, <2>2
  <2>3. CASE m.st # "LIVE"
    <3>1. m.st \in {"CANCELLED", "REJECTED", "FAILED"} /\ ~Said(t, o) /\ Ended(queue, o)
      BY <1>6, <1>7, <2>3
    <3>2. ~SeenStatus(rows[o], m.st) /\ MayEnter(rows[o], m.st)
      BY <1>7, <1>8, <2>1, <3>1 DEF OpenAt, SeenStatus, MayEnter, LegalTransitions
    <3>3. o \notin BookOf(venue)
      BY <2>1, <3>1 DEF OpenAt, Accounts
    <3>4. FillsOf(venue, o) = {}
      <4>1. ASSUME NEW f \in FillsOf(venue, o) PROVE FALSE
        <5>1. Carries(t, f) /\ f.o = o
          BY <1>6, <1>9, <4>1 DEF FillsOf
        <5>2. QED BY <3>1, <5>1, VoiceIs
      <4>2. QED BY <4>1
    <3>5. QED BY <1>1, <1>2, <1>4, <1>6, <1>9, <1>11, <3>1, <3>2, <3>3, <3>4
  <2>4. QED BY <2>2, <2>3
<1>12. QED BY <1>10, <1>11

\* The worst case only falls when an order ends.
LEMMA CappedEnded ==
    ASSUME Capped, Solid, ghosted = {}, RowsInv, ~crashed, NEW o \in Orders,
           signals' = signals, UNCHANGED <<own, other>>,
           \A p \in Orders \ {o} : rows'[p] = rows[p], ~IsOpenRow(o)'
    PROVE  Capped'
<1>1. PartsKnown /\ (IsOpenRow(o) => OpenPart(o) \in Nat)
  BY PartsAre
<1>2. \A p \in Orders \ {o} : SameOrder(p)
  BY DEF SameOrder, IsOpenRow, HasRow, Side, OpenPart
<1>3. /\ OpenRemainder("buy")' - Part(o, "buy")' = OpenRemainder("buy") - Part(o, "buy")
      /\ OpenRemainder("buy") \in Int /\ OpenRemainder("buy")' \in Int
      /\ OpenRemainder("sell")' - Part(o, "sell")' = OpenRemainder("sell") - Part(o, "sell")
      /\ OpenRemainder("sell") \in Int /\ OpenRemainder("sell")' \in Int
  BY <1>1, <1>2, RemainderMoves
<1>4. Part(o, "buy") \in Nat /\ Part(o, "sell") \in Nat /\ Part(o, "buy")' = 0 /\ Part(o, "sell")' = 0
  BY <1>1 DEF Part
<1>5. OpenRemainder("buy")' <= OpenRemainder("buy") /\ OpenRemainder("sell")' <= OpenRemainder("sell")
  BY <1>3, <1>4
<1>6. StoreNet \in Int /\ StoreNet' = StoreNet /\ MaxPosition \in Nat
  BY GuardAssumption DEF Solid, StoreNet
<1>7. StoreNet + OpenRemainder("buy") <= MaxPosition /\ StoreNet - OpenRemainder("sell") >= -MaxPosition
  BY <1>3, <1>6 DEF Capped, Worst, Direction
<1>8. StoreNet + OpenRemainder("buy")' <= MaxPosition /\ StoreNet - OpenRemainder("sell")' >= -MaxPosition
  BY <1>3, <1>5, <1>6, <1>7
<1>9. Worst("buy")' <= MaxPosition /\ Worst("sell")' >= -MaxPosition
  BY <1>3, <1>6, <1>8 DEF Worst, Direction
<1>10. QED BY <1>9 DEF Capped

\* A row that ignores the status, or enters it, is still in order.
LEMMA StatusInOrder ==
    ASSUME FundInv, ReduceInv, RowsInv, ~crashed, Handling("status"),
           NEW m, m = Head(queue), NEW o, o = m.o, o \in Orders \ ghosted,
           signals' = signals, venue'.book = venue.book, venue'.unapplied = venue.unapplied,
           Dispatch(<<>>), rows'[o].size = rows[o].size, rows'[o].cum = rows[o].cum,
           rows'[o].trades = rows[o].trades,
           IF IsTerminal(rows[o]) \/ SeenStatus(rows[o], m.st)
           THEN rows'[o].st = rows[o].st /\ rows'[o].entered = rows[o].entered
           ELSE rows'[o].st = m.st /\ rows'[o].entered = rows[o].entered \cup {m.st}
    PROVE  /\ InOrder(venue, Pending, o)'
           /\ SameOrder(o) \/ ~IsOpenRow(o)'
<1>t. PICK t : t = Tail(queue)
  OBVIOUS
<1>1. /\ Clear(t, o) /\ ~Begun(t, o)
      /\ \A f \in FillsOf(venue, o) : Carries(t, f)
      /\ \/ ~IsOpenRow(o) /\ HasRow(o) /\ ClosedAt(venue, queue, o)
         \/ /\ IsOpenRow(o) /\ OpenAt(venue, queue, o) /\ m.st = "LIVE"
            /\ rows[o].st = "SUBMITTED" /\ (Ended(queue, o) <=> Ended(t, o))
         \/ /\ IsOpenRow(o) /\ m.st \in {"CANCELLED", "REJECTED", "FAILED"}
            /\ ~SeenStatus(rows[o], m.st) /\ MayEnter(rows[o], m.st)
            /\ o \notin BookOf(venue) /\ FillsOf(venue, o) = {}
  BY <1>t, StatusHandled
<1>2. Pending' = t
  BY <1>t, DroppedHead
<1>3. /\ Clear(Pending, o)' /\ ~Begun(Pending, o)' /\ (Ended(Pending, o)' <=> Ended(t, o))
      /\ \A f : Carries(Pending, f)' <=> Carries(t, f)
  BY <1>1, <1>2 DEF Clear, Begun, Ended, Carries, Record
<1>4. /\ FillsOf(venue, o)' = FillsOf(venue, o) /\ Filling(venue, o)' = Filling(venue, o)
      /\ Left(venue, o)' = Left(venue, o) /\ BookOf(venue)' = BookOf(venue)
  BY DEF FillsOf, Filling, Side, Left, Entry, Resting, BookOf
<1>5. OpenPart(o)' = OpenPart(o) /\ Side(o)' = Side(o)
  BY DEF OpenPart, Side
<1>6. \A f \in FillsOf(venue, o)' : Carries(Pending, f)'
  BY <1>1, <1>3, <1>4
<1>7. CASE ~IsOpenRow(o) /\ HasRow(o) /\ ClosedAt(venue, queue, o)
  <2>1. rows'[o].st = rows[o].st
    BY <1>7 DEF IsOpenRow, HasRow, IsTerminal
  <2>2. HasRow(o)' /\ ~IsOpenRow(o)'
    BY <1>7, <2>1 DEF IsOpenRow, HasRow
  <2>3. ClosedAt(venue, Pending, o)'
    BY <1>4, <1>7, <2>2 DEF ClosedAt
  <2>4. QED BY <1>3, <1>6, <2>2, <2>3 DEF InOrder
<1>8. CASE /\ IsOpenRow(o) /\ OpenAt(venue, queue, o) /\ m.st = "LIVE"
           /\ rows[o].st = "SUBMITTED" /\ (Ended(queue, o) <=> Ended(t, o))
  <2>1. rows'[o].st = "LIVE" /\ rows'[o].entered = {"SUBMITTED", "LIVE"}
    BY <1>8 DEF OpenAt, IsTerminal, SeenStatus, TerminalStates
  <2>2. IsOpenRow(o)' /\ SameOrder(o)
    BY <1>5, <1>8, <2>1 DEF IsOpenRow, HasRow, SameOrder, TerminalStates
  <2>3. Accounts(venue, Pending, o, OpenPart(o))'
    BY <1>3, <1>4, <1>5, <1>8 DEF OpenAt, Accounts
  <2>4. OpenAt(venue, Pending, o)'
    BY <1>4, <1>5, <1>8, <2>1, <2>3 DEF OpenAt
  <2>5. QED BY <1>3, <1>6, <2>2, <2>4 DEF InOrder
<1>9. CASE /\ IsOpenRow(o) /\ m.st \in {"CANCELLED", "REJECTED", "FAILED"}
           /\ ~SeenStatus(rows[o], m.st) /\ MayEnter(rows[o], m.st)
           /\ o \notin BookOf(venue) /\ FillsOf(venue, o) = {}
  <2>1. rows'[o].st = m.st
    BY <1>9 DEF IsTerminal, IsOpenRow
  <2>2. HasRow(o)' /\ ~IsOpenRow(o)'
    BY <1>9, <2>1 DEF IsOpenRow, HasRow, TerminalStates
  <2>3. ClosedAt(venue, Pending, o)'
    BY <1>4, <1>9, <2>2 DEF ClosedAt
  <2>4. QED BY <1>3, <1>6, <2>2, <2>3 DEF InOrder
<1>10. QED BY <1>1, <1>7, <1>8, <1>9

LEMMA OnStatusRows ==
    ASSUME FundInv, ReduceInv, RowsInv, ~crashed, OnStatus
    PROVE  RowsInv'
<1>m. PICK m : m = Head(queue)
  OBVIOUS
<1>o. PICK o : o = m.o
  OBVIOUS
<1>1. Handling("status")
  BY DEF OnStatus
<1>2. /\ KnownOrders /\ Solid /\ phase = "running" /\ m.k = "status"
  BY <1>1, <1>m, HandlingRuns
<1>3. o \in Orders
  <2>1. Pending = queue /\ IsList(queue) /\ queue # <<>>
    BY <1>1, PendingList DEF Handling, FundInv, Bus, ReduceInv, BusShape
  <2>2. Addressed(queue)
    BY <1>2, <2>1 DEF RowsInv
  <2>3. 1 \in DOMAIN queue /\ m = queue[1]
    BY <1>m, <2>1, ListTail, ListFacts
  <2>4. QED BY <1>2, <1>o, <2>2, <2>3 DEF Addressed
<1>4. o \notin ghosted =>
         \/ ~IsOpenRow(o) /\ HasRow(o)
         \/ IsOpenRow(o) /\ m.st = "LIVE" /\ rows[o].st = "SUBMITTED"
         \/ MayEnter(rows[o], m.st)
  BY <1>1, <1>m, <1>o, <1>3, StatusHandled
<1>5. CASE ~(IsTerminal(rows[o]) \/ SeenStatus(rows[o], m.st)) /\ ~MayEnter(rows[o], m.st)
  <2>1. Faults
    BY <1>m, <1>o, <1>5 DEF OnStatus
  <2>2. o \in ghosted
    BY <1>4, <1>5 DEF IsOpenRow, IsTerminal, MayEnter, LegalTransitions
  <2>3. QED BY <2>1, <2>2, FaultRows
<1>6. CASE IsTerminal(rows[o]) \/ SeenStatus(rows[o], m.st) \/ MayEnter(rows[o], m.st)
  <2>1. /\ UNCHANGED <<signals, phase, ghosted, own, other, venue>> /\ Dispatch(<<>>)
        /\ \A p \in Orders \ {o} : rows'[p] = rows[p]
        /\ rows'[o].size = rows[o].size /\ rows'[o].cum = rows[o].cum
        /\ rows'[o].trades = rows[o].trades
        /\ IF IsTerminal(rows[o]) \/ SeenStatus(rows[o], m.st)
           THEN rows'[o].st = rows[o].st /\ rows'[o].entered = rows[o].entered
           ELSE rows'[o].st = m.st /\ rows'[o].entered = rows[o].entered \cup {m.st}
    <3>1. CASE IsTerminal(rows[o]) \/ SeenStatus(rows[o], m.st)
      BY <1>m, <1>o, <3>1 DEF OnStatus, config, durable, memory, history
    <3>2. CASE ~(IsTerminal(rows[o]) \/ SeenStatus(rows[o], m.st))
      <4>1. /\ Dispatch(<<>>) /\ UNCHANGED <<signals, phase, ghosted, own, other, venue>>
            /\ rows' = [rows EXCEPT ![o].st = m.st, ![o].entered = @ \cup {m.st}]
        BY <1>m, <1>o, <1>6, <3>2 DEF OnStatus, config, memory, history
      <4>2. PICK st : st = m.st
        OBVIOUS
      <4>3. rows' = [rows EXCEPT ![o].st = st, ![o].entered = @ \cup {st}]
        BY <4>1, <4>2
      <4>4. DOMAIN rows = Orders
        BY <1>2 DEF KnownOrders
      <4>5. rows'[o] = [[rows[o] EXCEPT !.st = st] EXCEPT !.entered = @ \cup {st}]
        BY <1>3, <4>3, <4>4
      <4>6. \A p \in Orders \ {o} : rows'[p] = rows[p]
        BY <1>3, <4>3, <4>4
      <4>7. PICK r : r = rows[o]
        OBVIOUS
      <4>8. rows'[o] = [[r EXCEPT !.st = st] EXCEPT !.entered = @ \cup {st}]
        BY <4>5, <4>7
      <4>9. /\ rows'[o].size = r.size /\ rows'[o].cum = r.cum /\ rows'[o].trades = r.trades
        BY <4>8
      <4>10. rows'[o].st = st
        BY <4>8
      <4>11. rows'[o].entered = r.entered \cup {st}
        BY <4>8
      <4>12. QED BY <3>2, <4>1, <4>2, <4>6, <4>7, <4>9, <4>10, <4>11
    <3>3. QED BY <3>1, <3>2
  <2>2. o \notin ghosted => InOrder(venue, Pending, o)' /\ (SameOrder(o) \/ ~IsOpenRow(o)')
    BY <1>1, <1>m, <1>o, <1>3, <2>1, StatusInOrder
  <2>3. rows'[o].st # "none"
    <3>1. CASE o \in ghosted
      <4>1. rows[o].st # "none"
        BY <1>2, <3>1 DEF RowsInv, HasRow
      <4>2. MayEnter(rows[o], m.st) => m.st # "none"
        BY DEF MayEnter, LegalTransitions
      <4>3. QED BY <1>6, <2>1, <4>1, <4>2
    <3>2. CASE o \notin ghosted
      <4>1. rows[o].st # "none"
        BY <1>4, <3>2 DEF HasRow, IsOpenRow, MayEnter, LegalTransitions
      <4>2. MayEnter(rows[o], m.st) => m.st # "none"
        BY DEF MayEnter, LegalTransitions
      <4>3. QED BY <1>6, <2>1, <4>1, <4>2
    <3>3. QED BY <3>1, <3>2
  <2>4. ASSUME ghosted = {}, Capped PROVE Capped'
    <3>1. CASE SameOrder(o)
      <4>1. \A p \in Orders : SameOrder(p)
        BY <2>1, <3>1 DEF SameOrder, IsOpenRow, HasRow, Side, OpenPart
      <4>2. QED BY <2>1, <2>4, <4>1, CappedStays
    <3>2. CASE ~IsOpenRow(o)'
      BY <1>2, <1>3, <2>1, <2>4, <3>2, CappedEnded
    <3>3. QED BY <2>2, <2>4, <3>1, <3>2
  <2>5. QED BY <1>1, <1>m, <1>o, <1>3, <2>1, <2>2, <2>3, <2>4, ReportRows
<1>7. QED BY <1>5, <1>6

LEMMA RowsStep == FundInv /\ ReduceInv /\ RowsInv /\ [Next]_vars => RowsInv'
<1> SUFFICES ASSUME FundInv, ReduceInv, RowsInv, [Next]_vars, ~crashed' PROVE RowsInv'
  BY DEF RowsInv
<1>1. CASE Crash \/ CrashInSwitch \/ CrashInPlace
  BY <1>1 DEF Crash, CrashInSwitch, CrashInPlace, Crashes
<1>2. CASE ~(Crash \/ CrashInSwitch \/ CrashInPlace)
  <2>1. crashed' = crashed
    <3>1. CASE UNCHANGED vars
      BY <3>1 DEF vars, history
    <3>2. CASE FlushHeld \/ Commit \/ Restart \/ ReconcileStartup \/ BarrierClears
      BY <3>2 DEF FlushHeld, Commit, Restart, ReconcileStartup, BarrierClears, history
    <3>3. CASE Advance \/ RunFunding \/ EmitPlace \/ EmitCancel \/ FeedTick \/ Trip \/ Reset
      BY <3>3 DEF Advance, RunFunding, EmitPlace, EmitCancel, FeedTick, Trip, Reset, history
    <3>4. CASE SkipPlaced \/ Deny \/ PlaceOrder \/ OnCancel \/ OnTick \/ OnFunding
      BY <3>4 DEF SkipPlaced, Deny, PlaceOrder, OnCancel, OnTick, OnFunding, history
    <3>5. CASE OnFill \/ OnStatus
      BY <3>5 DEF OnFill, OnStatus, Faults, history
    <3>6. CASE \E o \in Orders : Ghost(o)
      BY <3>6 DEF Ghost
    <3>7. QED BY <1>2, <3>1, <3>2, <3>3, <3>4, <3>5, <3>6 DEF Next
  <2>2. ~crashed
    BY <2>1
  <2>3. CASE UNCHANGED vars \/ Advance \/ Trip \/ Reset
    BY <2>2, <2>3, ApartRows
  <2>4. CASE FlushHeld
    BY <2>2, <2>4, FlushRows
  <2>5. CASE Commit
    BY <2>2, <2>5, CommitRows
  <2>6. CASE Restart \/ ReconcileStartup \/ BarrierClears
    BY <2>2, <2>6, NeverKeeps
  <2>7. CASE RunFunding
    BY <2>2, <2>7, RunFundingRows
  <2>8. CASE EmitPlace
    BY <2>2, <2>8, EmitPlaceRows
  <2>9. CASE EmitCancel \/ FeedTick \/ \E o \in Orders : Ghost(o)
    BY <2>2, <2>9, PublishersRows
  <2>10. CASE SkipPlaced \/ OnFunding
    BY <2>2, <2>10, SkipRows
  <2>11. CASE Deny
    BY <2>2, <2>11, DenyRows
  <2>12. CASE PlaceOrder
    BY <2>2, <2>12, PlaceOrderRows
  <2>13. CASE OnCancel
    BY <2>2, <2>13, OnCancelRows
  <2>14. CASE OnTick
    BY <2>2, <2>14, OnTickRows
  <2>15. CASE OnFill
    BY <2>2, <2>15, OnFillRows
  <2>16. CASE OnStatus
    BY <2>2, <2>16, OnStatusRows
  <2>17. QED BY <1>2, <2>3, <2>4, <2>5, <2>6, <2>7, <2>8, <2>9, <2>10, <2>11, <2>12, <2>13,
                <2>14, <2>15, <2>16 DEF Next
<1>3. QED BY <1>1, <1>2

LEMMA RowsInitially == Init => RowsInv
<1> SUFFICES ASSUME Init PROVE RowsInv
  OBVIOUS
<1>1. FundInv /\ ReduceInv
  BY FundInitially, ReduceInitially
<1>2. /\ queue = <<>> /\ phase = "running" /\ ghosted = {} /\ ~crashed
      /\ venue.book = <<>> /\ venue.unapplied = {}
      /\ \A o \in Orders : rows[o].st = "none"
  BY DEF Init, NewVenue, NoRow
<1>3. Pending = <<>>
  BY <1>1, <1>2, PendingList DEF FundInv, Init
<1>4. Sound(venue) /\ BookOf(venue) = {}
  <2>1. DOMAIN venue.book = {}
    BY <1>2, ListEmpty
  <2>2. QED BY <1>2, <2>1 DEF Sound, BookOf
<1>5. Addressed(Pending)
  BY <1>3, ListEmpty DEF Addressed
<1>6. ASSUME NEW o \in Orders PROVE InOrder(venue, Pending, o)
  <2>1. ~Said(Pending, o) /\ ~Begun(Pending, o) /\ Clear(Pending, o)
    BY <1>3, VoiceNone
  <2>2. FillsOf(venue, o) = {} /\ ~IsOpenRow(o)
    BY <1>2, <1>6 DEF FillsOf, IsOpenRow, HasRow
  <2>3. QED BY <1>4, <2>1, <2>2 DEF InOrder, ClosedAt
<1>7. ASSUME HoldingsFit PROVE Capped
  <2>1. OpenRemainder("buy") = 0 /\ OpenRemainder("sell") = 0
    <3>1. OpenOn("buy") = {} /\ OpenOn("sell") = {}
      BY <1>2 DEF OpenOn, IsOpenRow, HasRow
    <3>2. SumFunctionOnSet(OpenParts, {}) = 0
      BY FS_EmptySet, SumUnfolds
    <3>3. QED BY <3>1, <3>2, RemainderIs DEF RemaindersAreSums, Remainder
  <2>2. PICK h \in Holdings : own = h.own /\ other = h.other
    BY DEF Init
  <2>3. Abs(StoreNet) <= MaxPosition /\ Abs(other) <= MaxPosition
    BY <1>7, <2>2 DEF HoldingsFit, StoreNet
  <2>4. StoreNet \in Int /\ MaxPosition \in Nat
    BY <1>1, <1>2, GuardAssumption DEF ReduceInv, KnownOrders, Solid, StoreNet
  <2>5. QED BY <2>1, <2>3, <2>4 DEF Capped, Worst, Direction, Abs
<1>8. QED BY <1>2, <1>4, <1>5, <1>6, <1>7 DEF RowsInv

LEMMA RowsInvHolds == Spec => []RowsInv
<1>1. Init => RowsInv
  BY RowsInitially
<1>2. FundInv /\ ReduceInv /\ RowsInv /\ [Next]_vars => RowsInv'
  BY RowsStep
<1>3. QED BY <1>1, <1>2, FundInvHolds, ReduceInvHolds, PTL DEF Spec

-----------------------------------------------------------------------------
\* With nothing left to handle an order in order has the same part open in its
\* row and in the book.

LEMMA NothingPending ==
    ASSUME FundInv, ReduceInv, queue = <<>>
    PROVE  ~crashed => Pending = <<>>
<1>1. SUFFICES ASSUME ~crashed PROVE Pending = <<>>
  OBVIOUS
<1>2. Bus /\ ~dispatched /\ held = <<>>
  BY <1>1 DEF FundInv, Bus, ReduceInv, BusShape
<1>3. QED BY <1>2, PendingList

LEMMA RestsOrNot ==
    ASSUME Known(venue), Sound(venue), NEW o \in Orders, InOrder(venue, <<>>, o)
    PROVE  /\ RestsAtVenue(o) <=> Resting(venue, o) # {}
           /\ RestsAtVenue(o) =>
                 LET left == Entry(venue, o).working - Entry(venue, o).filled
                 IN  IF signals[o].reduceOnly THEN left <= OpenPart(o) ELSE left = OpenPart(o)
<1>1. /\ ~Said(<<>>, o) /\ ~Ended(<<>>, o) /\ \A f : ~Carries(<<>>, f)
  BY VoiceNone
<1>2. FillsOf(venue, o) = {}
  BY <1>1 DEF InOrder
<1>3. Filling(venue, o) = 0
  BY <1>2, TotalNone DEF Filling, Direction
<1>4. Resting(venue, o) # {} <=> o \in BookOf(venue)
  BY DEF Resting, BookOf
<1>5. CASE ~IsOpenRow(o)
  <2>1. o \notin BookOf(venue)
    BY <1>5 DEF InOrder, ClosedAt
  <2>2. ~RestsAtVenue(o)
    BY <1>5 DEF RestsAtVenue, WorkingStates, IsOpenRow, HasRow, TerminalStates
  <2>3. QED BY <1>4, <2>1, <2>2
<1>6. CASE IsOpenRow(o)
  <2>1. OpenAt(venue, <<>>, o)
    BY <1>6 DEF InOrder
  <2>2. rows[o].st \in WorkingStates /\ OpenPart(o) \in Nat \ {0}
    BY <1>1, <2>1 DEF OpenAt, OpenPart, WorkingStates
  <2>3. o \in BookOf(venue) /\ Left(venue, o) = OpenPart(o)
    <3>1. Accounts(venue, <<>>, o, OpenPart(o))
      BY <2>1 DEF OpenAt
    <3>2. o \in BookOf(venue)
      BY <1>1, <1>3, <2>2, <3>1 DEF Accounts
    <3>3. Left(venue, o) \in Int
      <4>1. PICK i \in DOMAIN venue.book : venue.book[i].o = o
        BY <3>2 DEF BookOf
      <4>2. QED BY <4>1, EntryAt DEF Left, Known, WorksOnce, Entries
    <3>4. QED BY <1>3, <3>1, <3>2, <3>3 DEF Accounts
  <2>4. RestsAtVenue(o)
    BY <2>1, <2>2, <2>3 DEF OpenAt, RestsAtVenue
  <2>5. PICK i \in DOMAIN venue.book : venue.book[i].o = o
    BY <2>3 DEF BookOf
  <2>6. Entry(venue, o) = venue.book[i]
    BY <2>5, EntryAt DEF Known
  <2>7. /\ Entry(venue, o).working \in Nat /\ Entry(venue, o).filled \in Nat
        /\ Entry(venue, o).asked \in Nat /\ Entry(venue, o).working <= Entry(venue, o).asked
        /\ signals[o].reduceOnly \/ Entry(venue, o).working = Entry(venue, o).asked
    BY <2>5, <2>6 DEF Known, WorksOnce, Entries, Sound
  <2>8. QED BY <1>4, <2>2, <2>3, <2>4, <2>7 DEF Left
<1>7. QED BY <1>5, <1>6

LEMMA BookMatches ==
    ASSUME FundInv, ReduceInv, RowsInv, ~crashed
    PROVE  BookMatchesRows
<1> SUFFICES ASSUME phase = "running", queue = <<>>, NEW o \in Comparable \ ghosted
             PROVE  /\ RestsAtVenue(o) <=> Resting(venue, o) # {}
                    /\ RestsAtVenue(o) =>
                          LET left == Entry(venue, o).working - Entry(venue, o).filled
                          IN  IF signals[o].reduceOnly THEN left <= OpenPart(o) ELSE left = OpenPart(o)
  BY DEF BookMatchesRows
<1>1. o \in Orders \ ghosted
  BY DEF Comparable
<1>2. Pending = <<>>
  BY NothingPending
<1>3. Sound(venue) /\ InOrder(venue, <<>>, o)
  BY <1>1, <1>2 DEF RowsInv
<1>4. Known(venue)
  BY DEF ReduceInv, VenueAhead
<1>5. QED BY <1>1, <1>3, <1>4, RestsOrNot

\* While no process is killed, an order works in its row exactly when it rests in
\* the venue's book once every report is handled, with the same part still open;
\* only a reduce-only order may work less (_place_limit, _on_fill_report).
THEOREM BookAlwaysMatchesRows == Spec => [](~crashed => BookMatchesRows)
<1>1. FundInv /\ ReduceInv /\ RowsInv => (~crashed => BookMatchesRows)
  BY BookMatches
<1>2. QED BY <1>1, FundInvHolds, ReduceInvHolds, RowsInvHolds, PTL

\* The total of the fills of two lots.
LEMMA TotalUnion ==
    ASSUME NEW A, NEW B, IsFiniteSet(A), IsFiniteSet(B), A \cap B = {},
           \A f \in A \cup B : f.size \in Int
    PROVE  Total(A \cup B) = Total(A) + Total(B)
<1> DEFINE C == {k \in Nat : \A t \in SUBSET B : Cardinality(t) = k => Total(A \cup t) = Total(A) + Total(t)}
<1>0. \A t \in SUBSET B : IsFiniteSet(t) /\ Cardinality(t) \in Nat
  BY FS_Subset, FS_CardinalityType
<1>a. Total(A) \in Int /\ \A t \in SUBSET B : Total(t) \in Int
  BY <1>0, TotalIs
<1>1. 0 \in C
  <2>1. ASSUME NEW t \in SUBSET B, Cardinality(t) = 0 PROVE Total(A \cup t) = Total(A) + Total(t)
    <3>1. t = {} /\ A \cup t = A
      BY <1>0, <2>1, FS_EmptySet
    <3>2. Total(t) = 0
      BY <3>1, TotalNone
    <3>3. QED BY <1>a, <3>1, <3>2
  <2>2. QED BY <2>1
<1>2. ASSUME NEW k \in Nat, k \in C PROVE k + 1 \in C
  <2>1. ASSUME NEW t \in SUBSET B, Cardinality(t) = k + 1 PROVE Total(A \cup t) = Total(A) + Total(t)
    <3>1. t # {}
      BY <1>0, <2>1, FS_EmptySet
    <3>2. PICK g : g = Pick(t)
      OBVIOUS
    <3>3. PICK r : r = t \ {g}
      OBVIOUS
    <3>4. g \in t /\ r \in SUBSET B /\ Cardinality(r) = k
      BY <1>0, <2>1, <3>1, <3>2, <3>3, PickIs
    <3>5. Total(A \cup r) = Total(A) + Total(r)
      BY <1>2, <3>4
    <3>6. /\ r \cup {g} = t /\ g \notin r /\ g \notin A \cup r /\ (A \cup r) \cup {g} = A \cup t
          /\ g.size \in Int /\ \A f \in A \cup r : f.size \in Int
      BY <3>3, <3>4
    <3>7. IsFiniteSet(r) /\ IsFiniteSet(A \cup r)
      BY <1>0, <3>4, FS_Union
    <3>8. Total(t) = Total(r) + g.size
      BY <3>6, <3>7, TotalAdd
    <3>9. Total(A \cup t) = Total(A \cup r) + g.size
      <4>1. PICK U : U = A \cup r
        OBVIOUS
      <4>2. Total(U \cup {g}) = Total(U) + g.size
        BY <3>6, <3>7, <4>1, TotalAdd
      <4>3. QED BY <3>6, <4>1, <4>2
    <3>10. QED BY <1>a, <3>4, <3>5, <3>6, <3>8, <3>9
  <2>2. QED BY <2>1
<1>3. \A k \in Nat : k \in C => k + 1 \in C
  BY <1>2
<1>4. Cardinality(B) \in C
  <2> HIDE DEF C
  <2>1. QED BY <1>0, <1>1, <1>3, ClimbNat
<1>5. QED BY <1>4

\* One more order of a side.
LEMMA OrderJoins ==
    ASSUME PartsKnown, NEW o \in Orders, NEW side, NEW K, K \subseteq Orders, o \notin K,
           NEW S, S = OpenOn(side) \cap (K \cup {o}), NEW T, T = OpenOn(side) \cap K
    PROVE  /\ SumFunctionOnSet(OpenParts, S) = SumFunctionOnSet(OpenParts, T) + Part(o, side)
           /\ SumFunctionOnSet(OpenParts, T) \in Int /\ Part(o, side) \in Int
<1>3. IsFiniteSet(S) /\ IsFiniteSet(T) /\ S \subseteq Orders /\ T \subseteq S
  BY OpenOnFinite, FS_Subset
<1>4. \A x \in S : OpenParts[x] \in Int
  BY <1>3 DEF PartsKnown, OpenParts, OpenOn
<1>5. OpenParts[o] = OpenPart(o) /\ (o \in S <=> IsOpenRow(o) /\ Side(o) = side)
  BY DEF OpenParts, OpenOn
<1>6. SumFunctionOnSet(OpenParts, T) \in Int
  BY <1>3, <1>4, SumInt
<1>7. SumFunctionOnSet(OpenParts, S) = SumFunctionOnSet(OpenParts, T) + Part(o, side)
      /\ Part(o, side) \in Int
  <2>1. CASE o \in S
    <3>1. S \ {o} = T
      BY <2>1
    <3>2. SumFunctionOnSet(OpenParts, S) = OpenParts[o] + SumFunctionOnSet(OpenParts, T)
      BY <1>3, <1>4, <2>1, <3>1, SumSplits
    <3>3. Part(o, side) = OpenPart(o) /\ OpenPart(o) \in Int
      BY <1>4, <1>5, <2>1 DEF Part
    <3>4. QED BY <1>5, <1>6, <3>2, <3>3
  <2>2. CASE o \notin S
    <3>1. S = T
      BY <2>2
    <3>2. Part(o, side) = 0
      BY <1>5, <2>2 DEF Part
    <3>3. SumFunctionOnSet(OpenParts, S) = SumFunctionOnSet(OpenParts, T)
      BY <3>1
    <3>4. QED BY <1>6, <3>2, <3>3
  <2>3. QED BY <2>1, <2>2
<1>8. QED BY <1>6, <1>7

\* What the venue filled of an order and the store has not applied is on its
\* side, and no more than it has open.
LEMMA FillsWithin ==
    ASSUME Known(venue), Sound(venue), NEW l, NEW o \in Orders, InOrder(venue, l, o),
           signals[o] \in Menu \/ FillsOf(venue, o) = {}, PartsKnown
    PROVE  /\ Total(FillsOf(venue, o)) \in Int
           /\ Total(FillsOf(venue, o)) <= Part(o, "buy")
           /\ Total(FillsOf(venue, o)) >= -Part(o, "sell")
<1>1. CASE FillsOf(venue, o) = {}
  <2>1. Total(FillsOf(venue, o)) = 0
    BY <1>1, TotalNone
  <2>2. IsOpenRow(o) => OpenPart(o) \in Nat
    BY DEF InOrder, OpenAt, OpenPart
  <2>3. Part(o, "buy") \in Nat /\ Part(o, "sell") \in Nat
    BY <2>2 DEF Part
  <2>4. QED BY <2>1, <2>3
<1>2. CASE FillsOf(venue, o) # {}
  <2>1. IsOpenRow(o) /\ OpenAt(venue, l, o)
    BY <1>2 DEF InOrder, ClosedAt
  <2>2. PICK d \in {1, -1} : d = Direction(Side(o)) /\ (d = 1 <=> Side(o) # "sell")
    BY <1>2, TermsAre
  <2>3. Side(o) \in {"buy", "sell"}
    BY <1>2, TermsAre DEF Side
  <2>4. IsFiniteSet(FillsOf(venue, o)) /\ \A f \in FillsOf(venue, o) : f.size \in Int /\ d * f.size \in Nat
    BY <1>2, <2>2, FillsAre DEF Known, Sound, FillsOf
  <2>5. Total(FillsOf(venue, o)) \in Int /\ d * Total(FillsOf(venue, o)) \in Nat
    BY <2>4, SignedTotal
  <2>6. OpenPart(o) \in Nat /\ d * Total(FillsOf(venue, o)) <= OpenPart(o)
    <3>1. OpenPart(o) \in Nat /\ Accounts(venue, l, o, OpenPart(o))
      BY <2>1 DEF OpenAt, OpenPart
    <3>2. CASE o \in BookOf(venue)
      <4>1. PICK i \in DOMAIN venue.book : venue.book[i].o = o
        BY <3>2 DEF BookOf
      <4>2. Entry(venue, o) = venue.book[i]
        BY <4>1, EntryAt DEF Known
      <4>3. Left(venue, o) \in Nat
        BY <4>1, <4>2 DEF Left, Known, WorksOnce, Entries, Sound
      <4>4. QED BY <2>2, <2>5, <3>1, <3>2, <4>3 DEF Accounts, Filling
    <3>3. CASE o \notin BookOf(venue)
      BY <2>2, <2>5, <3>1, <3>3 DEF Accounts, Filling
    <3>4. QED BY <3>2, <3>3
  <2>7. CASE d = 1
    <3>1. Side(o) = "buy"
      BY <2>2, <2>3, <2>7
    <3>2. Part(o, "buy") = OpenPart(o) /\ Part(o, "sell") = 0
      BY <2>1, <3>1 DEF Part
    <3>3. QED BY <2>5, <2>6, <2>7, <3>2
  <2>8. CASE d = -1
    <3>1. Side(o) = "sell"
      BY <2>2, <2>3, <2>8
    <3>2. Part(o, "sell") = OpenPart(o) /\ Part(o, "buy") = 0
      BY <2>1, <3>1 DEF Part
    <3>3. QED BY <2>5, <2>6, <2>8, <3>2
  <2>9. QED BY <2>7, <2>8
<1>3. QED BY <1>1, <1>2

\* The fills on their way take the store's net no further than what is open could.
LEMMA NetWithin ==
    ASSUME FundInv, ReduceInv, RowsInv, ~crashed, ghosted = {}
    PROVE  /\ Net(venue) \in Int /\ StoreNet \in Int
           /\ OpenRemainder("buy") \in Nat /\ OpenRemainder("sell") \in Nat
           /\ Net(venue) <= StoreNet + OpenRemainder("buy")
           /\ Net(venue) >= StoreNet - OpenRemainder("sell")
<1>1. /\ phase = "running" /\ Sound(venue) /\ Known(venue) /\ Solid /\ KnownOrders
      /\ \A o \in Orders : InOrder(venue, Pending, o)
  BY DEF RowsInv, ReduceInv, VenueAhead, KnownOrders
<1>2. PartsKnown /\ \A p \in Orders : IsOpenRow(p) => OpenPart(p) \in Nat
  BY PartsAre
<1>3. PICK U : U = Unapplied(venue)
  OBVIOUS
<1>4. IsFiniteSet(U) /\ \A f \in U : f.size \in Int /\ f.o \in Orders
  BY <1>1, <1>3, FS_Subset DEF Unapplied, Known, CountsFills, Records
<1>5. MostOrders \in Nat /\ Orders = 1..MostOrders
  BY MostIs
<1> DEFINE C == {k \in Nat : k <= MostOrders => WithinTo(k)}
<1>6. \A k \in Nat : IsFiniteSet(FillsTo(k)) /\ Total(FillsTo(k)) \in Int
  <2>1. ASSUME NEW k \in Nat PROVE IsFiniteSet(FillsTo(k)) /\ Total(FillsTo(k)) \in Int
    <3>1. IsFiniteSet(FillsTo(k)) /\ \A f \in FillsTo(k) : f.size \in Int
      BY <1>3, <1>4, FS_Subset DEF FillsTo
    <3>2. QED BY <3>1, TotalIs
  <2>2. QED BY <2>1
<1>7. 0 \in C
  <2>1. FillsTo(0) = {} /\ \A side : OpenOn(side) \cap (1..0) = {}
    BY DEF FillsTo
  <2>2. Total(FillsTo(0)) = 0
    BY <2>1, TotalNone
  <2>3. SumFunctionOnSet(OpenParts, {}) = 0
    BY FS_EmptySet, SumUnfolds
  <2>4. OpenTo("buy", 0) = 0 /\ OpenTo("sell", 0) = 0
    BY <2>1, <2>3 DEF OpenTo
  <2>5. WithinTo(0)
    BY <2>2, <2>4 DEF WithinTo
  <2>6. QED BY <2>5
<1>8. ASSUME NEW k \in Nat, k \in C PROVE k + 1 \in C
  <2> SUFFICES ASSUME k + 1 <= MostOrders PROVE WithinTo(k + 1)
    OBVIOUS
  <2>1. PICK o : o = k + 1
    OBVIOUS
  <2>2. o \in Orders /\ 1..k \subseteq Orders /\ o \notin 1..k /\ 1..(k + 1) = (1..k) \cup {o}
    BY <1>5, <2>1
  <2>3. WithinTo(k)
    BY <1>5, <1>8
  <2>4. FillsTo(k + 1) = FillsTo(k) \cup FillsOf(venue, o) /\ FillsTo(k) \cap FillsOf(venue, o) = {}
    BY <2>2 DEF Unapplied, FillsOf, FillsTo
  <2>5. IsFiniteSet(FillsOf(venue, o)) /\ \A f \in FillsOf(venue, o) : f.size \in Int
    BY <1>1, FS_Subset DEF FillsOf, Known, CountsFills, Records
  <2>6. /\ Total(FillsOf(venue, o)) \in Int
        /\ Total(FillsOf(venue, o)) <= Part(o, "buy") /\ Total(FillsOf(venue, o)) >= -Part(o, "sell")
    <3>1. signals[o] \in Menu \/ FillsOf(venue, o) = {}
      BY <1>1 DEF Sound, FillsOf
    <3>2. QED BY <1>1, <1>2, <2>2, <3>1, FillsWithin
  <2>7. \A side : OpenTo(side, k + 1) = OpenTo(side, k) + Part(o, side) /\ Part(o, side) \in Int
    <3>1. ASSUME NEW side
          PROVE  OpenTo(side, k + 1) = OpenTo(side, k) + Part(o, side) /\ Part(o, side) \in Int
      <4>1. PICK K : K = 1..k
        OBVIOUS
      <4>2. PICK S : S = OpenOn(side) \cap (K \cup {o})
        OBVIOUS
      <4>3. PICK T : T = OpenOn(side) \cap K
        OBVIOUS
      <4>4. SumFunctionOnSet(OpenParts, S) = SumFunctionOnSet(OpenParts, T) + Part(o, side)
            /\ Part(o, side) \in Int
        BY <1>2, <2>2, <4>1, <4>2, <4>3, OrderJoins
      <4>5. OpenTo(side, k + 1) = SumFunctionOnSet(OpenParts, S)
        BY <2>2, <4>1, <4>2, Zenon DEF OpenTo
      <4>6. OpenTo(side, k) = SumFunctionOnSet(OpenParts, T)
        BY <4>1, <4>3, Zenon DEF OpenTo
      <4>7. QED BY <4>4, <4>5, <4>6
    <3>2. QED BY <3>1
  <2>8. \A f \in FillsTo(k) : f.size \in Int
    BY <1>3, <1>4 DEF FillsTo
  <2>9. IsFiniteSet(FillsTo(k)) /\ Total(FillsTo(k)) \in Int
    BY <1>6
  <2>10. Total(FillsTo(k + 1)) = Total(FillsTo(k)) + Total(FillsOf(venue, o))
    <3>1. PICK A : A = FillsTo(k)
      OBVIOUS
    <3>2. PICK B : B = FillsOf(venue, o)
      OBVIOUS
    <3>3. Total(A \cup B) = Total(A) + Total(B)
      BY <2>4, <2>5, <2>8, <2>9, <3>1, <3>2, TotalUnion
    <3>4. QED BY <2>4, <3>1, <3>2, <3>3
  <2>11. WithinTo(k + 1)
    BY <2>3, <2>6, <2>7, <2>9, <2>10 DEF WithinTo
  <2>12. QED BY <2>11
<1>9. \A k \in Nat : k \in C => k + 1 \in C
  BY <1>8
<1>10. MostOrders \in C
  <2> HIDE DEF C
  <2>1. QED BY <1>5, <1>7, <1>9, ClimbNat
<1>11. FillsTo(MostOrders) = U /\ \A side : OpenOn(side) \cap (1..MostOrders) = OpenOn(side)
  BY <1>3, <1>4, <1>5, OpenOnFinite DEF FillsTo
<1>12. OpenTo("buy", MostOrders) = OpenRemainder("buy") /\ OpenTo("sell", MostOrders) = OpenRemainder("sell")
  BY <1>11, RemainderIs DEF RemaindersAreSums, Remainder, OpenTo
<1>13. WithinTo(MostOrders)
  BY <1>5, <1>10
<1>14. /\ Total(U) \in Int /\ Total(U) <= OpenRemainder("buy") /\ Total(U) >= -OpenRemainder("sell")
       /\ OpenRemainder("buy") \in Int /\ OpenRemainder("sell") \in Int
  BY <1>5, <1>6, <1>11, <1>12, <1>13 DEF WithinTo
<1>15. \A side : OpenRemainder(side) \in Nat
  <2>1. ASSUME NEW side PROVE OpenRemainder(side) \in Nat
    <3>1. \A p \in OpenOn(side) : OpenParts[p] \in Nat
      BY <1>2, OpenOnFinite DEF OpenOn, OpenParts
    <3>2. IsFiniteSet(OpenOn(side))
      BY OpenOnFinite
    <3>3. QED BY <3>1, <3>2, RemainderNat, RemainderIs DEF RemaindersAreSums, Remainder
  <2>2. QED BY <2>1
<1>16. Net(venue) = StoreNet + Total(U) /\ StoreNet \in Int
  BY <1>1, <1>3 DEF Net, Total, Solid, StoreNet
<1>17. QED BY <1>14, <1>15, <1>16

\* The net once everything published is applied is the venue's.
LEMMA LastNet ==
    ASSUME FundInv, ReduceInv, ~crashed, phase = "running"
    PROVE  NetAfter[Len(Log)] = Net(venue)
<1>1. PICK s, t : Leads(signals, Pending, s, t) /\ Stored(s) /\ t = View(venue)
  BY DEF ReduceInv, LogReduces
<1>d. PICK d \in {0, 1} : \E c :
            /\ Through(signals, Pending, c) /\ c[0] = s /\ c[Len(Pending)] = t
            /\ Len(Log) = Len(Pending) + d
            /\ \A k \in 0..Len(Pending) : NetAfter[k + d] = c[k].net
  BY <1>1, LogNets
<1>2. PICK c :
         /\ Through(signals, Pending, c) /\ c[0] = s /\ c[Len(Pending)] = t
         /\ Len(Log) = Len(Pending) + d
         /\ \A k \in 0..Len(Pending) : NetAfter[k + d] = c[k].net
  BY <1>d
<1>3. Len(Pending) \in Nat
  BY PendingList, ListFacts DEF FundInv
<1>4. QED BY <1>1, <1>2, <1>3 DEF View

LEMMA CapHolds ==
    ASSUME FundInv, ReduceInv, RowsInv, ~crashed
    PROVE  WithinCap
<1> SUFFICES ASSUME HoldingsFit, ghosted = {}
             PROVE  Abs(StoreNet) <= MaxPosition /\ Abs(NetAfter[Len(Log)]) <= MaxPosition
  BY DEF WithinCap
<1>1. phase = "running" /\ Capped
  BY DEF RowsInv
<1>2. /\ Net(venue) \in Int /\ StoreNet \in Int
      /\ OpenRemainder("buy") \in Nat /\ OpenRemainder("sell") \in Nat
      /\ Net(venue) <= StoreNet + OpenRemainder("buy")
      /\ Net(venue) >= StoreNet - OpenRemainder("sell")
  BY NetWithin
<1>3. NetAfter[Len(Log)] = Net(venue)
  BY <1>1, LastNet
<1>4. StoreNet + OpenRemainder("buy") <= MaxPosition /\ StoreNet - OpenRemainder("sell") >= -MaxPosition
  BY <1>1, <1>2 DEF Capped, Worst, Direction
<1>5. MaxPosition \in Nat
  BY GuardAssumption
<1>6. QED BY <1>2, <1>3, <1>4, <1>5 DEF Abs

\* While no process is killed the account's net stays within the cap it began
\* within, and stays there whatever of the open and in-flight orders fills: what
\* the guard measures when it approves an order (guard.py's worst case) bounds
\* every net the venue's fills go through.
THEOREM CapHoldsThroughout == Spec => [](~crashed => WithinCap)
<1>1. FundInv /\ ReduceInv /\ RowsInv => (~crashed => WithinCap)
  BY CapHolds
<1>2. QED BY <1>1, FundInvHolds, ReduceInvHolds, RowsInvHolds, PTL
==============================================================================
