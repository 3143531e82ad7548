----------------------------- MODULE LedgerProofs -----------------------------
(***************************************************************************)
(* Proofs about Ledger, for every set of instruments, owners, facts and    *)
(* amounts and every number of crashes and lost connections: each trade    *)
(* and each payment is booked at most once, and no mark passes a payment   *)
(* that was not booked.                                                    *)
(*                                                                         *)
(* Neither is inductive.  The fields of the row that decide over a replay  *)
(* are followed by Opening, Clock and Replays; that a payment in front of  *)
(* the inbox is the earliest one still owed, which is what makes a single  *)
(* boundary per symbol enough, by Ahead.                                   *)
(***************************************************************************)
EXTENDS LedgerProperties, FiniteSetTheorems, SequenceTheorems, TLAPS

USE LedgerAssumption

\* What decides over replays in the row has its type; cash and sizes may be
\* anything here.
RowFields == {"open", "genesis", "cash", "pos", "mark", "applied"}
RowShape(r) ==
    /\ r = [x \in RowFields |-> r[x]]
    /\ r.open \in BOOLEAN
    /\ r.genesis \in Nat
    /\ r.mark \in [Symbols -> Nat]
    /\ r.applied \in SUBSET Fills

Shape ==
    /\ when \in [Facts -> Nat]
    /\ books \in [Facts -> Nat]
    /\ inbox \in Seq(SUBSET Payments)
    /\ linked \in BOOLEAN
    /\ RowShape(row)
    /\ pass = [x \in {"stage", "snap", "instant", "sizes", "cash"} |-> pass[x]]
    /\ pass.instant \in Nat

\* The venue's clock counts the facts it booked, no two at one instant.
Clock ==
    /\ \A f \in Facts : when[f] <= Now
    /\ \A f, g \in Facts : when[f] > 0 /\ when[f] = when[g] => f = g
    /\ \A s \in Symbols : row.mark[s] <= Now

\* Nothing is folded before the account row is open.
Opening ==
    ~row.open => /\ \A f \in Facts : books[f] = 0
                 /\ \A s \in Symbols : row.mark[s] = 0
                 /\ row.genesis = 0

\* What has been folded is what a replay is recognised by.
Replays ==
    /\ \A f \in Facts : books[f] \in {0, 1}
    /\ \A f \in Fills : f \notin row.applied => books[f] = 0
    /\ \A p \in Payments :
         books[p] = 1 => /\ row.genesis < when[p]
                         /\ when[p] <= row.mark[SymbolOf[p]]

\* A payment the venue booked after the opening and the ledger has not.
Owed(p) == when[p] > row.genesis /\ books[p] = 0

\* An owed payment is in the inbox no later than any later payment of its
\* symbol, and while the socket is subscribed it is in the inbox.
Ahead ==
    /\ \A i \in 1 .. Len(inbox) : \A q \in inbox[i] :
         /\ when[q] > 0
         /\ \A p \in Payments :
              Owed(p) /\ when[p] <= when[q] /\ SymbolOf[p] = SymbolOf[q]
                => \E j \in 1 .. i : p \in inbox[j]
    /\ linked => \A p \in Payments :
                    Owed(p) => \E j \in 1 .. Len(inbox) : p \in inbox[j]

IInv == Shape /\ Clock /\ Opening /\ Replays /\ MarksCoverBooked /\ Ahead

-----------------------------------------------------------------------------
(* The operators                                                           *)

\* Sizes and cash are not what a replay is recognised by.
Same(r, t) ==
    /\ RowShape(t)
    /\ t.applied = r.applied
    /\ t.open = r.open
    /\ t.genesis = r.genesis
    /\ t.mark = r.mark

LEMMA CashIsFree ==
    ASSUME NEW r, RowShape(r), NEW c
    PROVE  Same(r, [r EXCEPT !.cash = c])
BY DEF Same, RowShape, RowFields

LEMMA PositionsAreFree ==
    ASSUME NEW r, RowShape(r), NEW p
    PROVE  Same(r, [r EXCEPT !.pos = p])
BY DEF Same, RowShape, RowFields

LEMMA SameIsTransitive ==
    ASSUME NEW r, NEW t, NEW u, Same(r, t), Same(t, u)
    PROVE  Same(r, u)
BY DEF Same

\* A fill moves the position and the cash line, and is recorded as applied.
LEMMA FoldFillShape ==
    ASSUME NEW r, RowShape(r), NEW f \in Fills
    PROVE  Same([r EXCEPT !.applied = @ \cup {f}], FoldFill(r, f))
<1> DEFINE o == OwnerOf[f]
           s == SymbolOf[f]
           traded == FoldTrade(r, o, s, Qty[f], Price[f])
           cash == traded.cash + Money[f]
           moved == [r EXCEPT !.pos[o][s] = Book(@, Qty[f], Price[f])]
           line == r.cash + Realizes(r.pos[o][s], Qty[f], Price[f])
           paid == [traded EXCEPT !.cash = cash]
<1>1. Same(r, moved)
  BY PositionsAreFree
<1>2. RowShape(moved)
  BY <1>1 DEF Same
<1>3. traded = [moved EXCEPT !.cash = line]
  BY DEF FoldTrade
<1>4. Same(moved, traded)
  <2> HIDE DEF moved, line, traded
  <2> QED  BY <1>2, <1>3, CashIsFree
<1>5. RowShape(traded)
  BY <1>4 DEF Same
<1>6. Same(traded, paid)
  <2> HIDE DEF traded, cash
  <2> QED  BY <1>5, CashIsFree
<1>7. Same(r, paid)
  <2> HIDE DEF moved, traded, paid
  <2> QED  BY <1>1, <1>4, <1>6, SameIsTransitive
<1>8. FoldFill(r, f) = [paid EXCEPT !.applied = @ \cup {f}]
  BY DEF FoldFill
<1> HIDE DEF paid
<1> QED  BY <1>7, <1>8 DEF Same, RowShape, RowFields

\* A payment moves the cash line, and its symbol's mark to its instant.
LEMMA FoldPaymentShape ==
    ASSUME NEW r, RowShape(r), NEW p \in Payments, when[p] \in Nat
    PROVE  /\ RowShape(FoldPayment(r, p))
           /\ FoldPayment(r, p).applied = r.applied
           /\ FoldPayment(r, p).open = r.open
           /\ FoldPayment(r, p).genesis = r.genesis
           /\ FoldPayment(r, p).mark = [r.mark EXCEPT ![SymbolOf[p]] = when[p]]
<1> DEFINE paid == [r EXCEPT !.cash = @ + Money[p]]
<1>1. Same(r, paid)
  BY CashIsFree
<1>2. FoldPayment(r, p) = [paid EXCEPT !.mark[SymbolOf[p]] = when[p]]
  BY DEF FoldPayment
<1>3. SymbolOf[p] \in Symbols
  BY DEF Facts
<1> HIDE DEF paid
<1> QED  BY <1>1, <1>2, <1>3 DEF Same, RowShape, RowFields

\* A heal moves positions and cash only.
LEMMA HealShape ==
    ASSUME NEW r, RowShape(r), NEW v, NEW sizes, NEW cash
    PROVE  Same(r, Heal(r, v, sizes, cash))
<1> DEFINE healed == [s \in Symbols |->
                        IF s \in Figures(sizes)
                        THEN Book(r.pos[Unattributed][s], GapOf(sizes, s),
                                  EntryPrice(v, s))
                        ELSE r.pos[Unattributed][s]]
           line == r.cash + Total(LAMBDA s : Realizes(r.pos[Unattributed][s],
                                                      GapOf(sizes, s),
                                                      EntryPrice(v, s)),
                                  Figures(sizes))
           moved == [r EXCEPT !.pos[Unattributed] = healed]
           sized == FoldSizes(r, v, sizes)
<1>1. Same(r, moved)
  <2> HIDE DEF healed
  <2> QED  BY PositionsAreFree
<1>2. RowShape(moved)
  BY <1>1 DEF Same
<1>3. sized = [moved EXCEPT !.cash = line]
  BY DEF FoldSizes
<1>4. Same(moved, sized)
  <2> HIDE DEF moved, line, sized
  <2> QED  BY <1>2, <1>3, CashIsFree
<1>5. Same(r, sized)
  <2> HIDE DEF moved, sized
  <2> QED  BY <1>1, <1>4, SameIsTransitive
<1>6. RowShape(sized)
  BY <1>5 DEF Same
<1>7. Same(sized, CorrectCash(sized, v))
  <2> HIDE DEF sized
  <2> QED  BY <1>6, CashIsFree DEF CorrectCash
<1>8. \/ Heal(r, v, sizes, cash) = sized
      \/ Heal(r, v, sizes, cash) = CorrectCash(sized, v)
  <2> HIDE DEF sized
  <2> QED  BY DEF Heal, sized
<1> HIDE DEF sized
<1> QED  BY <1>5, <1>7, <1>8, SameIsTransitive

\* The small facts that Shape gives.
LEMMA Basics ==
    ASSUME Shape
    PROVE  /\ \A f \in Facts : when[f] \in Nat /\ books[f] \in Nat
           /\ \A p \in Payments : /\ p \in Facts
                                  /\ SymbolOf[p] \in Symbols
                                  /\ when[p] \in Nat /\ books[p] \in Nat
                                  /\ row.mark[SymbolOf[p]] \in Nat
           /\ row.genesis \in Nat
           /\ Len(inbox) \in Nat
           /\ \A i \in 1 .. Len(inbox) : inbox[i] \in SUBSET Payments
<1>1. Payments \subseteq Facts
  BY DEF Facts
<1>2. \A p \in Payments : SymbolOf[p] \in Symbols
  BY <1>1
<1> QED  BY <1>1, <1>2, LenProperties, ElementOfSeq DEF Shape, RowShape

\* The clock is a number, and booking a fact moves it by one.
LEMMA NowIsNat ==
    ASSUME when \in [Facts -> Nat]
    PROVE  Now \in Nat
<1> {f \in Facts : when[f] > 0} \subseteq Facts
  OBVIOUS
<1> QED  BY FS_Subset, FS_CardinalityType DEF Now

LEMMA BookingTicks ==
    ASSUME when \in [Facts -> Nat], NEW f \in Facts, when[f] = 0,
           NEW n \in Nat \ {0}, when' = [when EXCEPT ![f] = n]
    PROVE  Now' = Now + 1
<1> DEFINE S == {g \in Facts : when[g] > 0}
<1>1. {g \in Facts : when'[g] > 0} = S \cup {f}
  OBVIOUS
<1>2. IsFiniteSet(S) /\ f \notin S
  <2> S \subseteq Facts
    OBVIOUS
  <2> QED  BY FS_Subset
<1>3. Cardinality(S \cup {f}) = Cardinality(S) + 1
  <2> HIDE DEF S
  <2> QED  BY <1>2, FS_AddElement
<1> QED  BY <1>1, <1>3 DEF Now

-----------------------------------------------------------------------------
(* The steps                                                               *)

LEMMA InitSound == Init => IInv
<1> SUFFICES ASSUME Init PROVE IInv
  OBVIOUS
<1>1. Shape
  <2>1. RowShape(row)
    BY DEF Init, Unopened, RowShape, RowFields
  <2>2. pass.instant \in Nat
        /\ pass = [x \in {"stage", "snap", "instant", "sizes", "cash"}
                     |-> pass[x]]
    BY DEF Init, Idle
  <2>3. inbox \in Seq(SUBSET Payments)
    BY EmptySeq DEF Init
  <2>4. linked \in BOOLEAN
    BY DEF Init
  <2>5. when \in [Facts -> Nat] /\ books \in [Facts -> Nat]
    BY DEF Init
  <2> QED  BY <2>1, <2>2, <2>3, <2>4, <2>5 DEF Shape
<1>2. Now \in Nat
  BY <1>1, NowIsNat DEF Shape
<1>3. Clock
  BY <1>2 DEF Init, Clock, Unopened
<1> QED
  BY <1>1, <1>3 DEF IInv, Opening, Replays, MarksCoverBooked, Ahead, Init,
                    Unopened, Owed, Facts

\* A step that books nothing, delivers nothing and opens nothing.
LEMMA QuietStep ==
    ASSUME IInv, Same(row, row'), UNCHANGED <<when, books, inbox, linked>>,
           pass'.instant \in Nat,
           pass' = [x \in {"stage", "snap", "instant", "sizes", "cash"}
                      |-> pass'[x]]
    PROVE  IInv'
<1>1. Shape'
  BY DEF IInv, Shape, Same
<1>2. Now' = Now
  BY DEF Now
<1>3. Clock'
  BY <1>2 DEF IInv, Clock, Same
<1>4. Opening' /\ Replays' /\ MarksCoverBooked'
  BY DEF IInv, Opening, Replays, MarksCoverBooked, Same
<1>5. Ahead'
  BY DEF IInv, Ahead, Owed, Same
<1> QED  BY <1>1, <1>3, <1>4, <1>5 DEF IInv

\* A payment is owed from the instant the venue books it; what is in the
\* inbox already is older.
LEMMA VenueBooksSound ==
    ASSUME IInv, NEW f \in Facts, VenueBooks(f)
    PROVE  IInv'
<1>0. Shape /\ Clock /\ Opening /\ Replays /\ MarksCoverBooked /\ Ahead
  BY DEF IInv
<1>1. Now \in Nat
  BY <1>0, NowIsNat DEF Shape
<1>2. when' = [when EXCEPT ![f] = Now + 1] /\ when[f] = 0
  BY DEF VenueBooks
<1>3. Now' = Now + 1
  <2> DEFINE n == Now + 1
  <2>1. n \in Nat \ {0} /\ when' = [when EXCEPT ![f] = n]
    BY <1>1, <1>2
  <2> HIDE DEF n
  <2>2. Now' = Now + 1
    BY <1>0, <1>2, <2>1, BookingTicks DEF Shape
  <2> QED  BY <2>2
<1>4. UNCHANGED <<row, books, linked, pass>>
  BY DEF VenueBooks, passVars, ledgerVars
<1>5. \/ inbox' = inbox /\ ~(f \in Payments /\ linked)
      \/ f \in Payments /\ linked /\ inbox' = Append(inbox, {f})
  BY DEF VenueBooks
<1>6. Shape'
  <2>1. f \in Payments => Append(inbox, {f}) \in Seq(SUBSET Payments)
    BY <1>0, AppendProperties DEF Shape
  <2>2. inbox' \in Seq(SUBSET Payments)
    BY <1>0, <1>5, <2>1 DEF Shape
  <2>3. when' \in [Facts -> Nat]
    BY <1>0, <1>1, <1>2 DEF Shape
  <2> QED  BY <1>0, <1>4, <2>2, <2>3 DEF Shape
<1>7. \A g \in Facts : /\ when'[g] = IF g = f THEN Now + 1 ELSE when[g]
                       /\ when[g] \in Nat
                       /\ when[g] <= Now
  BY <1>0, <1>2 DEF Shape, Clock
<1>8. Clock'
  <2>1. \A s \in Symbols : row.mark[s] \in Nat /\ row.mark[s] <= Now
    BY <1>0 DEF Shape, RowShape, Clock
  <2>2. \A g \in Facts : when'[g] <= Now + 1
    BY <1>1, <1>7
  <2>3. ASSUME NEW g \in Facts, NEW h \in Facts, when'[g] > 0,
               when'[g] = when'[h]
        PROVE  g = h
    BY <1>0, <1>1, <1>7, <2>3 DEF Clock
  <2> QED  BY <1>1, <1>3, <1>4, <2>1, <2>2, <2>3 DEF Clock
<1>9. Opening'
  BY <1>0, <1>4 DEF Opening
<1>10. \A p \in Payments : books[p] = 1 => p # f
  BY <1>0, <1>2, Basics DEF Replays
<1>11. \A p \in Payments : p \in Facts /\ (p # f => when'[p] = when[p])
  BY <1>7, Basics, <1>0
<1>12. Replays'
  BY <1>0, <1>4, <1>10, <1>11 DEF Replays
<1>13. MarksCoverBooked'
  <2>1. f \in Payments => ~(when'[f] <= row.mark[SymbolOf[f]])
    BY <1>0, <1>1, <1>7, Basics DEF Clock
  <2> QED  BY <1>0, <1>4, <1>11, <2>1 DEF MarksCoverBooked
<1>14. \A p \in Payments : p # f => (Owed(p)' <=> Owed(p))
  BY <1>4, <1>11 DEF Owed
<1>15. ASSUME NEW i \in 1 .. Len(inbox), NEW q \in inbox[i]
       PROVE  /\ when'[q] > 0
              /\ \A p \in Payments :
                   Owed(p)' /\ when'[p] <= when'[q] /\ SymbolOf[p] = SymbolOf[q]
                     => \E j \in 1 .. i : p \in inbox[j]
  <2>1. q \in Payments /\ when[q] > 0
    BY <1>0, Basics DEF Ahead
  <2>2. q # f /\ when'[q] = when[q] /\ when[q] <= Now /\ when[q] \in Nat
    BY <1>2, <1>7, <1>11, <2>1
  <2>3. ASSUME NEW p \in Payments, Owed(p)', when'[p] <= when'[q],
               SymbolOf[p] = SymbolOf[q]
        PROVE  \E j \in 1 .. i : p \in inbox[j]
    <3>1. p # f
      BY <1>1, <1>7, <1>11, <2>2, <2>3
    <3>2. Owed(p) /\ when[p] <= when[q]
      BY <1>11, <1>14, <2>2, <2>3, <3>1
    <3> QED  BY <1>0, <2>1, <2>3, <3>2 DEF Ahead
  <2> QED  BY <2>1, <2>2, <2>3
<1>16. Ahead'
  <2>1. CASE inbox' = inbox /\ ~(f \in Payments /\ linked)
    BY <1>0, <1>4, <1>14, <1>15, <2>1 DEF Ahead
  <2>2. CASE f \in Payments /\ linked /\ inbox' = Append(inbox, {f})
    <3> DEFINE n == Len(inbox)
    <3>1. /\ n \in Nat
          /\ Len(inbox') = n + 1
          /\ \A i \in 1 .. n : inbox'[i] = inbox[i]
          /\ inbox'[n + 1] = {f}
      BY <1>0, <2>2, Basics, AppendProperties DEF Shape
    <3>2. ASSUME NEW p \in Payments, Owed(p)'
          PROVE  \E j \in 1 .. n + 1 : p \in inbox'[j]
      <4>1. CASE p = f
        <5>1. n + 1 \in 1 .. n + 1 /\ p \in inbox'[n + 1]
          BY <3>1, <4>1
        <5> QED  BY <5>1
      <4>2. CASE p # f
        <5>1. PICK j \in 1 .. n : p \in inbox[j]
          BY <1>0, <1>14, <2>2, <3>2, <4>2 DEF Ahead
        <5> QED  BY <3>1, <5>1
      <4> QED  BY <4>1, <4>2
    <3>3. ASSUME NEW i \in 1 .. n + 1, NEW q \in inbox'[i]
          PROVE  /\ when'[q] > 0
                 /\ \A p \in Payments :
                      Owed(p)' /\ when'[p] <= when'[q]
                               /\ SymbolOf[p] = SymbolOf[q]
                        => \E j \in 1 .. i : p \in inbox'[j]
      <4>1. CASE i \in 1 .. n
        <5>1. q \in inbox[i] /\ \A j \in 1 .. i : inbox'[j] = inbox[j]
          BY <3>1, <3>3, <4>1
        <5> QED  BY <1>15, <4>1, <5>1
      <4>2. CASE i = n + 1
        <5>1. q = f
          BY <3>1, <3>3, <4>2
        <5> QED  BY <1>1, <1>7, <3>2, <4>2, <5>1
      <4> QED  BY <3>1, <4>1, <4>2
    <3> QED  BY <3>1, <3>2, <3>3 DEF Ahead
  <2> QED  BY <1>5, <2>1, <2>2
<1> QED  BY <1>6, <1>8, <1>9, <1>12, <1>13, <1>16 DEF IInv

\* A crash empties the inbox, a dropped socket cuts it: what is left is in
\* the same order.
LEMMA CutSound ==
    ASSUME IInv, NEW n \in 0 .. Len(inbox), inbox' = SubSeq(inbox, 1, n),
           linked' = FALSE, UNCHANGED <<when, books, row>>,
           pass'.instant \in Nat,
           pass' = [x \in {"stage", "snap", "instant", "sizes", "cash"}
                      |-> pass'[x]]
    PROVE  IInv'
<1>0. Shape /\ Clock /\ Opening /\ Replays /\ MarksCoverBooked /\ Ahead
  BY DEF IInv
<1>1. /\ inbox' \in Seq(SUBSET Payments)
      /\ Len(inbox') = n
      /\ \A i \in 1 .. n : inbox'[i] = inbox[i]
  BY <1>0, SubSeqProperties, Basics DEF Shape
<1>2. Shape'
  BY <1>0, <1>1 DEF Shape
<1>3. Clock'
  BY <1>0 DEF Clock, Now
<1>4. Opening' /\ Replays' /\ MarksCoverBooked'
  BY <1>0 DEF Opening, Replays, MarksCoverBooked
<1>5. \A p \in Payments : Owed(p)' <=> Owed(p)
  BY DEF Owed
<1>6. ASSUME NEW i \in 1 .. n, NEW q \in inbox'[i]
      PROVE  /\ when[q] > 0
             /\ \A p \in Payments :
                  Owed(p)' /\ when[p] <= when[q] /\ SymbolOf[p] = SymbolOf[q]
                    => \E j \in 1 .. i : p \in inbox'[j]
  <2>1. i \in 1 .. Len(inbox) /\ q \in inbox[i]
        /\ \A j \in 1 .. i : inbox'[j] = inbox[j]
    BY <1>0, <1>1, Basics
  <2> QED  BY <1>0, <1>5, <2>1 DEF Ahead
<1>7. Ahead'
  <2> DEFINE A(i, q) == /\ when[q] > 0
                        /\ \A p \in Payments :
                             Owed(p)' /\ when[p] <= when[q]
                                      /\ SymbolOf[p] = SymbolOf[q]
                               => \E j \in 1 .. i : p \in inbox'[j]
  <2>1. \A i \in 1 .. Len(inbox') : \A q \in inbox'[i] : A(i, q)
    BY <1>1, <1>6
  <2>2. when' = when /\ ~linked'
    OBVIOUS
  <2> QED  BY <2>1, <2>2 DEF Ahead
<1> QED  BY <1>2, <1>3, <1>4, <1>7 DEF IInv

\* A subscription's snapshot holds every payment there is.
LEMMA ConnectSound ==
    ASSUME IInv, Connect
    PROVE  IInv'
<1>0. Shape /\ Clock /\ Opening /\ Replays /\ MarksCoverBooked /\ Ahead
  BY DEF IInv
<1> DEFINE history == {p \in Payments : when[p] > 0}
           n == Len(inbox)
<1>1. UNCHANGED <<when, books, row, pass>> /\ linked' = TRUE
  BY DEF Connect, passVars, ledgerVars
<1>2. \/ history = {} /\ inbox' = inbox
      \/ inbox' = Append(inbox, history)
  BY DEF Connect
<1>3. Append(inbox, history) \in Seq(SUBSET Payments)
  BY <1>0, AppendProperties DEF Shape
<1>4. Shape'
  BY <1>0, <1>1, <1>2, <1>3 DEF Shape
<1>5. Clock'
  BY <1>0, <1>1 DEF Clock, Now
<1>6. Opening' /\ Replays' /\ MarksCoverBooked'
  BY <1>0, <1>1 DEF Opening, Replays, MarksCoverBooked
<1>7. \A p \in Payments : (Owed(p)' <=> Owed(p)) /\ (Owed(p) => p \in history)
  BY <1>0, <1>1, Basics DEF Owed
<1>8. Ahead'
  <2>1. CASE history = {} /\ inbox' = inbox
    <3>1. \A p \in Payments : ~Owed(p)'
      BY <1>7, <2>1
    <3> QED  BY <1>0, <1>1, <2>1, <3>1 DEF Ahead
  <2>2. CASE inbox' = Append(inbox, history)
    <3>1. /\ n \in Nat
          /\ Len(inbox') = n + 1
          /\ \A i \in 1 .. n : inbox'[i] = inbox[i]
          /\ inbox'[n + 1] = history
      BY <1>0, <2>2, Basics, AppendProperties DEF Shape
    <3>2. ASSUME NEW p \in Payments, Owed(p)'
          PROVE  \E j \in 1 .. n + 1 : p \in inbox'[j]
      <4>1. n + 1 \in 1 .. n + 1 /\ p \in inbox'[n + 1]
        BY <1>7, <3>1, <3>2
      <4> QED  BY <4>1
    <3>3. ASSUME NEW i \in 1 .. n + 1, NEW q \in inbox'[i]
          PROVE  /\ when[q] > 0
                 /\ \A p \in Payments :
                      Owed(p)' /\ when[p] <= when[q]
                               /\ SymbolOf[p] = SymbolOf[q]
                        => \E j \in 1 .. i : p \in inbox'[j]
      <4>1. CASE i \in 1 .. n
        <5>1. q \in inbox[i] /\ \A j \in 1 .. i : inbox'[j] = inbox[j]
          BY <3>1, <3>3, <4>1
        <5> QED  BY <1>0, <1>7, <4>1, <5>1 DEF Ahead
      <4>2. CASE i = n + 1
        <5>1. q \in history
          BY <3>1, <3>3, <4>2
        <5> QED  BY <3>2, <4>2, <5>1
      <4> QED  BY <3>1, <4>1, <4>2
    <3> QED  BY <1>1, <3>1, <3>2, <3>3 DEF Ahead
  <2> QED  BY <1>2, <2>1, <2>2
<1> QED  BY <1>4, <1>5, <1>6, <1>8 DEF IInv

\* The first snapshot opens the row: what it holds is owed no more.
LEMMA MaterialiseSound ==
    ASSUME IInv, Materialise, Idle.instant \in Nat
    PROVE  IInv'
<1>0. Shape /\ Clock /\ Opening /\ Replays /\ MarksCoverBooked /\ Ahead
  BY DEF IInv
<1>1. UNCHANGED <<when, books, inbox, linked>> /\ pass' = Idle /\ ~row.open
  BY DEF Materialise, linkVars
<1>2. /\ RowShape(row')
      /\ row'.open = TRUE
      /\ row'.genesis = pass.instant
      /\ row'.mark = row.mark
      /\ row'.applied = row.applied
  BY <1>0 DEF Materialise, Shape, RowShape, RowFields
<1>3. \A f \in Facts : books[f] = 0
  BY <1>0, <1>1 DEF Opening
<1>4. \A s \in Symbols : row.mark[s] = 0
  BY <1>0, <1>1 DEF Opening
<1>5. Shape'
  BY <1>0, <1>1, <1>2 DEF Shape, Idle
<1>6. Clock' /\ Opening'
  BY <1>0, <1>1, <1>2 DEF Clock, Now, Opening
<1>7. Replays'
  BY <1>0, <1>1, <1>2, <1>3, Basics DEF Replays, Facts
<1>8. MarksCoverBooked'
  <2>1. pass.instant \in Nat
    BY <1>0 DEF Shape
  <2> QED  BY <1>0, <1>1, <1>2, <1>4, <2>1, Basics DEF MarksCoverBooked
<1>9. \A p \in Payments : Owed(p)' => Owed(p)
  <2>1. row.genesis = 0
    BY <1>0, <1>1 DEF Opening
  <2> QED  BY <1>0, <1>1, <1>2, <2>1, Basics DEF Owed, Shape
<1>10. Ahead'
  BY <1>0, <1>1, <1>9 DEF Ahead
<1> QED  BY <1>5, <1>6, <1>7, <1>8, <1>10 DEF IInv

\* A fill is booked behind its id, and moves no mark.
LEMMA ApplyFillSound ==
    ASSUME IInv, NEW f \in Fills, ApplyFill(f)
    PROVE  IInv'
<1>0. Shape /\ Clock /\ Opening /\ Replays /\ MarksCoverBooked /\ Ahead
  BY DEF IInv
<1>1. /\ UNCHANGED <<when, inbox, linked>>
      /\ row.open /\ f \notin row.applied
      /\ row' = FoldFill(row, f)
      /\ books' = [books EXCEPT ![f] = @ + 1]
      /\ pass' = pass
  BY DEF ApplyFill, linkVars, RepeatsFill
<1>2. Same([row EXCEPT !.applied = @ \cup {f}], row')
  BY <1>0, <1>1, FoldFillShape DEF Shape
<1>3. /\ RowShape(row')
      /\ row'.applied = row.applied \cup {f}
      /\ row'.open = row.open
      /\ row'.genesis = row.genesis
      /\ row'.mark = row.mark
  BY <1>0, <1>2 DEF Same, Shape, RowShape, RowFields
<1>4. f \in Facts /\ books[f] = 0
  BY <1>0, <1>1 DEF Replays, Facts
<1>5. \A g \in Facts : books'[g] = IF g = f THEN 1 ELSE books[g]
  BY <1>0, <1>1, <1>4 DEF Shape
<1>6. Shape'
  <2>1. books' \in [Facts -> Nat]
    BY <1>0, <1>1, <1>4 DEF Shape
  <2> QED  BY <1>0, <1>1, <1>3, <2>1 DEF Shape
<1>7. Clock' /\ Opening'
  BY <1>0, <1>1, <1>3 DEF Clock, Now, Opening
<1>8. \A p \in Payments : p \in Facts /\ books'[p] = books[p]
  BY <1>5 DEF Facts
<1>9. Replays'
  <2>1. \A g \in Fills : g \in Facts
    BY DEF Facts
  <2> QED  BY <1>0, <1>1, <1>3, <1>5, <1>8, <2>1 DEF Replays
<1>10. MarksCoverBooked'
  BY <1>0, <1>1, <1>3, <1>8 DEF MarksCoverBooked
<1>11. Ahead'
  BY <1>0, <1>1, <1>3, <1>8 DEF Ahead, Owed
<1> QED  BY <1>6, <1>7, <1>9, <1>10, <1>11 DEF IInv

\* The payment in front is the earliest one owed on its symbol, so the mark
\* it moves passes none that is.
LEMMA ApplyPaymentSound ==
    ASSUME IInv, NEW p \in Payments, ApplyPayment(p)
    PROVE  IInv'
<1>0. Shape /\ Clock /\ Opening /\ Replays /\ MarksCoverBooked /\ Ahead
  BY DEF IInv
<1>1. /\ UNCHANGED <<when, linked, pass>>
      /\ row.open /\ inbox # <<>>
      /\ p \in NextOf(Head(inbox))
      /\ inbox' = Without(p)
      /\ IF RepeatsPayment(row, p) THEN UNCHANGED ledgerVars
         ELSE /\ row' = FoldPayment(row, p)
              /\ books' = [books EXCEPT ![p] = @ + 1]
  BY DEF ApplyPayment, passVars
<1>2. p \in Facts /\ SymbolOf[p] \in Symbols /\ when[p] \in Nat /\ row.genesis \in Nat
  BY <1>0, Basics
<1>3. /\ Len(inbox) \in Nat \ {0}
      /\ Head(inbox) = inbox[1]
      /\ p \in inbox[1]
      /\ \A q \in inbox[1] : when[p] <= when[q]
  <2>1. Len(inbox) \in Nat \ {0} /\ Head(inbox) = inbox[1]
    BY <1>0, <1>1, EmptySeq, Basics DEF Shape
  <2> QED  BY <1>1, <2>1 DEF NextOf
<1>4. /\ RowShape(row')
      /\ row'.open = row.open
      /\ row'.genesis = row.genesis
      /\ row'.applied = row.applied
      /\ row'.mark \in {row.mark, [row.mark EXCEPT ![SymbolOf[p]] = when[p]]}
  <2>1. CASE RepeatsPayment(row, p)
    BY <1>0, <1>1, <2>1 DEF ledgerVars, Shape
  <2>2. CASE ~RepeatsPayment(row, p)
    <3>1. RowShape(row) /\ row' = FoldPayment(row, p)
      BY <1>0, <1>1, <2>2 DEF Shape
    <3> QED  BY <1>2, <3>1, FoldPaymentShape
  <2> QED  BY <2>1, <2>2
<1>5. RepeatsPayment(row, p) => UNCHANGED <<row, books>> /\ ~Owed(p)
  <2> SUFFICES ASSUME RepeatsPayment(row, p)
               PROVE  UNCHANGED <<row, books>> /\ ~Owed(p)
    OBVIOUS
  <2>1. UNCHANGED <<row, books>>
    BY <1>1 DEF ledgerVars
  <2>2. ~Owed(p)
    <3>1. when[p] \in Nat /\ row.genesis \in Nat /\ row.mark[SymbolOf[p]] \in Nat
      BY <1>0, Basics
    <3>2. when[p] <= row.genesis \/ when[p] <= row.mark[SymbolOf[p]]
      BY DEF RepeatsPayment
    <3>3. when[p] > row.genesis /\ when[p] <= row.mark[SymbolOf[p]] => books[p] = 1
      BY <1>0 DEF MarksCoverBooked
    <3> QED  BY <3>1, <3>2, <3>3 DEF Owed
  <2> QED  BY <2>1, <2>2
<1>6. ~RepeatsPayment(row, p) =>
        /\ row'.mark = [row.mark EXCEPT ![SymbolOf[p]] = when[p]]
        /\ books[p] = 0
        /\ books' = [books EXCEPT ![p] = 1]
        /\ row.genesis < when[p]
        /\ row.mark[SymbolOf[p]] < when[p]
  <2> SUFFICES ASSUME ~RepeatsPayment(row, p)
               PROVE  /\ row'.mark = [row.mark EXCEPT ![SymbolOf[p]] = when[p]]
                      /\ books[p] = 0
                      /\ books' = [books EXCEPT ![p] = 1]
                      /\ row.genesis < when[p]
                      /\ row.mark[SymbolOf[p]] < when[p]
    OBVIOUS
  <2>1. row.genesis < when[p] /\ row.mark[SymbolOf[p]] < when[p]
    BY <1>0, <1>2, Basics DEF RepeatsPayment
  <2>2. books[p] = 0
    BY <1>0, <1>2, <2>1, Basics DEF Replays
  <2>3. row'.mark = [row.mark EXCEPT ![SymbolOf[p]] = when[p]]
    <3>1. RowShape(row) /\ row' = FoldPayment(row, p)
      BY <1>0, <1>1 DEF Shape
    <3> QED  BY <1>2, <3>1, FoldPaymentShape
  <2>4. books' = [books EXCEPT ![p] = 1]
    BY <1>0, <1>1, <1>2, <2>2 DEF Shape
  <2> QED  BY <2>1, <2>2, <2>3, <2>4
<1>7. \A g \in Facts : \/ books'[g] = books[g]
                       \/ g = p /\ books[g] = 0 /\ books'[g] = 1
  BY <1>0, <1>2, <1>5, <1>6 DEF Shape
<1>8. \A q \in Payments : Owed(q)' => Owed(q) /\ q # p
  <2>1. \A q \in Payments : q \in Facts
    BY DEF Facts
  <2> QED  BY <1>0, <1>1, <1>2, <1>4, <1>5, <1>6, <1>7, <2>1 DEF Owed, Shape
<1>9. \A s \in Symbols :
        /\ row.mark[s] \in Nat /\ row'.mark[s] \in Nat
        /\ \/ row'.mark[s] = row.mark[s]
           \/ /\ ~RepeatsPayment(row, p)
              /\ s = SymbolOf[p]
              /\ row'.mark[s] = when[p]
              /\ row.mark[s] < when[p]
  <2>1. row.mark \in [Symbols -> Nat]
    BY <1>0 DEF Shape, RowShape
  <2> QED  BY <1>2, <1>5, <1>6, <2>1
<1>10. Shape'
  <2>1. books' \in [Facts -> Nat]
    <3>1. books \in [Facts -> Nat]
      BY <1>0 DEF Shape
    <3> QED  BY <1>2, <1>5, <1>6, <3>1
  <2>2. inbox' \in Seq(SUBSET Payments)
    <3>1. Tail(inbox) \in Seq(SUBSET Payments)
      BY <1>0, <1>1, HeadTailProperties DEF Shape
    <3>2. inbox[1] \ {p} \in SUBSET Payments /\ 1 \in 1 .. Len(inbox)
      BY <1>0, <1>3, Basics
    <3>3. [inbox EXCEPT ![1] = inbox[1] \ {p}] \in Seq(SUBSET Payments)
      BY <1>0, <3>2, ExceptSeq DEF Shape
    <3> QED  BY <1>1, <3>1, <3>3 DEF Without
  <2> QED  BY <1>0, <1>1, <1>4, <2>1, <2>2 DEF Shape
<1>11. Clock'
  <2>1. Now' = Now /\ Now \in Nat
    BY <1>0, <1>1, NowIsNat DEF Now, Shape
  <2>2. \A s \in Symbols : row'.mark[s] <= Now
    BY <1>0, <1>2, <1>9, <2>1 DEF Clock
  <2> QED  BY <1>0, <1>1, <2>1, <2>2 DEF Clock
<1>12. Opening'
  BY <1>1, <1>4 DEF Opening
<1>13. Replays'
  <2>1. \A f \in Facts : books'[f] \in {0, 1}
    BY <1>0, <1>7 DEF Replays
  <2>2. \A f \in Fills : f \in Facts /\ f # p
    BY DEF Facts
  <2>3. \A f \in Fills : f \notin row'.applied => books'[f] = 0
    BY <1>0, <1>4, <1>7, <2>2 DEF Replays
  <2>4. ASSUME NEW q \in Payments, books'[q] = 1
        PROVE  row'.genesis < when'[q] /\ when'[q] <= row'.mark[SymbolOf[q]]
    <3>1. /\ q \in Facts /\ SymbolOf[q] \in Symbols /\ when[q] \in Nat
          /\ when' = when
      BY <1>0, <1>1, Basics
    <3>2. CASE books[q] = 1
      <4>1. row.genesis < when[q] /\ when[q] <= row.mark[SymbolOf[q]]
        BY <1>0, <3>2 DEF Replays
      <4> QED  BY <1>2, <1>4, <1>9, <3>1, <4>1
    <3>3. CASE books[q] # 1
      <4>1. q = p /\ books'[p] # books[p]
        BY <1>7, <2>4, <3>1, <3>3
      <4>2. ~RepeatsPayment(row, p)
        BY <1>5, <4>1
      <4>3. row.genesis < when[p]
        BY <1>6, <4>2
      <4>4. row'.mark[SymbolOf[p]] = when[p]
        <5>1. row.mark \in [Symbols -> Nat]
          BY <1>0 DEF Shape, RowShape
        <5> QED  BY <1>2, <1>6, <4>2, <5>1
      <4> QED  BY <1>2, <1>4, <3>1, <4>1, <4>3, <4>4
    <3> QED  BY <3>2, <3>3
  <2> QED  BY <2>1, <2>3, <2>4 DEF Replays
<1>14. MarksCoverBooked'
  <2> SUFFICES ASSUME NEW q \in Payments, when[q] > row.genesis,
                      when[q] <= row'.mark[SymbolOf[q]], books'[q] # 1
               PROVE  FALSE
    BY <1>1, <1>4 DEF MarksCoverBooked
  <2>1. q \in Facts /\ SymbolOf[q] \in Symbols /\ when[q] \in Nat
    BY <1>0, Basics
  <2>2. books[q] = 0 /\ (q # p \/ RepeatsPayment(row, p))
    <3>1. books[q] \in {0, 1}
      BY <1>0, <2>1 DEF Replays
    <3>2. books[q] = 0
      BY <1>7, <2>1, <3>1
    <3>3. q = p => RepeatsPayment(row, p)
      BY <1>0, <1>2, <1>6 DEF Shape
    <3> QED  BY <3>2, <3>3
  <2>3. ~(when[q] <= row.mark[SymbolOf[q]])
    BY <1>0, <2>2 DEF MarksCoverBooked
  <2>4. /\ ~RepeatsPayment(row, p)
        /\ SymbolOf[q] = SymbolOf[p]
        /\ when[q] <= when[p]
    BY <1>9, <2>1, <2>3
  <2>5. q # p /\ Owed(q)
    BY <2>2, <2>4 DEF Owed
  <2>6. q \in inbox[1]
    <3>1. 1 \in 1 .. Len(inbox)
      BY <1>3
    <3>2. PICK j \in 1 .. 1 : q \in inbox[j]
      BY <1>0, <1>3, <2>4, <2>5, <3>1 DEF Ahead
    <3> QED  BY <3>2
  <2>7. when[p] = when[q] /\ when[p] > 0
    BY <1>2, <1>3, <2>1, <2>4, <2>6
  <2> QED  BY <1>0, <1>2, <2>1, <2>5, <2>7 DEF Clock
<1>15. Ahead'
  <2>1. CASE inbox' = Tail(inbox) /\ inbox[1] = {p}
    <3>1. /\ Len(inbox') = Len(inbox) - 1
          /\ \A i \in 1 .. Len(inbox') : inbox'[i] = inbox[i + 1]
      BY <1>0, <1>1, <2>1, HeadTailProperties DEF Shape
    <3>2. ASSUME NEW i \in 1 .. Len(inbox), NEW q \in Payments, q # p,
                 \E j \in 1 .. i : q \in inbox[j]
          PROVE  \E j \in 1 .. i - 1 : q \in inbox'[j]
      <4>1. PICK j \in 1 .. i : q \in inbox[j]
        BY <3>2
      <4>2. j # 1
        BY <2>1, <3>2, <4>1
      <4>3. j - 1 \in 1 .. i - 1 /\ inbox'[j - 1] = inbox[j]
        <5>1. j \in Nat /\ j > 1 /\ j <= i /\ i <= Len(inbox) /\ i \in Nat
          BY <1>3, <3>2, <4>1, <4>2
        <5>2. j - 1 \in 1 .. i - 1 /\ j - 1 \in 1 .. Len(inbox')
          BY <1>3, <3>1, <5>1
        <5>3. inbox'[j - 1] = inbox[(j - 1) + 1]
          BY <3>1, <5>2
        <5>4. (j - 1) + 1 = j
          BY <5>1
        <5> QED  BY <5>2, <5>3, <5>4
      <4> QED  BY <4>1, <4>3
    <3>3. ASSUME NEW i \in 1 .. Len(inbox'), NEW q \in inbox'[i]
          PROVE  /\ when[q] > 0
                 /\ \A x \in Payments :
                      Owed(x)' /\ when[x] <= when[q]
                               /\ SymbolOf[x] = SymbolOf[q]
                        => \E j \in 1 .. i : x \in inbox'[j]
      <4>1. i + 1 \in 1 .. Len(inbox) /\ q \in inbox[i + 1] /\ i \in Nat
        BY <1>3, <3>1, <3>3
      <4>2. ASSUME NEW x \in Payments, Owed(x)', when[x] <= when[q],
                   SymbolOf[x] = SymbolOf[q]
            PROVE  \E j \in 1 .. i : x \in inbox'[j]
        <5>1. Owed(x) /\ x # p
          BY <1>8, <4>2
        <5>2. \E j \in 1 .. i + 1 : x \in inbox[j]
          BY <1>0, <4>1, <4>2, <5>1 DEF Ahead
        <5>3. \E j \in 1 .. (i + 1) - 1 : x \in inbox'[j]
          BY <3>2, <4>1, <5>1, <5>2
        <5> QED  BY <4>1, <5>3
      <4> QED  BY <1>0, <4>1, <4>2 DEF Ahead
    <3>4. linked' => \A x \in Payments :
                       Owed(x)' => \E j \in 1 .. Len(inbox') : x \in inbox'[j]
      <4> SUFFICES ASSUME linked', NEW x \in Payments, Owed(x)'
                   PROVE  \E j \in 1 .. Len(inbox') : x \in inbox'[j]
        OBVIOUS
      <4>1. Owed(x) /\ x # p /\ linked
        BY <1>1, <1>8
      <4>2. \E j \in 1 .. Len(inbox) : x \in inbox[j]
        BY <1>0, <4>1 DEF Ahead
      <4>3. Len(inbox) \in 1 .. Len(inbox)
        BY <1>3
      <4> QED  BY <3>1, <3>2, <4>1, <4>2, <4>3
    <3> QED  BY <1>1, <3>3, <3>4 DEF Ahead
  <2>2. CASE inbox' = [inbox EXCEPT ![1] = inbox[1] \ {p}]
    <3>1. /\ Len(inbox') = Len(inbox)
          /\ \A i \in 1 .. Len(inbox) :
               inbox'[i] = IF i = 1 THEN inbox[1] \ {p} ELSE inbox[i]
      <4>1. inbox[1] \ {p} \in SUBSET Payments /\ 1 \in 1 .. Len(inbox)
        BY <1>0, <1>3, Basics
      <4> QED  BY <1>0, <2>2, <4>1, ExceptSeq DEF Shape
    <3>2. ASSUME NEW i \in 1 .. Len(inbox), NEW x, x # p
          PROVE  (\E j \in 1 .. i : x \in inbox[j])
                   => \E j \in 1 .. i : x \in inbox'[j]
      <4>1. \A j \in 1 .. i : j \in 1 .. Len(inbox)
        BY <1>3
      <4> QED  BY <3>1, <3>2, <4>1
    <3>3. ASSUME NEW i \in 1 .. Len(inbox), NEW q \in inbox'[i]
          PROVE  /\ when[q] > 0
                 /\ \A x \in Payments :
                      Owed(x)' /\ when[x] <= when[q]
                               /\ SymbolOf[x] = SymbolOf[q]
                        => \E j \in 1 .. i : x \in inbox'[j]
      <4>1. q \in inbox[i]
        BY <3>1, <3>3
      <4> QED  BY <1>0, <1>8, <3>2, <4>1 DEF Ahead
    <3>4. linked' => \A x \in Payments :
                       Owed(x)' => \E j \in 1 .. Len(inbox') : x \in inbox'[j]
      <4>1. Len(inbox) \in 1 .. Len(inbox)
        BY <1>3
      <4> QED  BY <1>0, <1>1, <1>8, <3>1, <3>2, <4>1 DEF Ahead
    <3> QED  BY <1>1, <3>1, <3>3, <3>4 DEF Ahead
  <2> QED  BY <1>1, <1>3, <2>1, <2>2 DEF Without
<1> QED  BY <1>10, <1>11, <1>12, <1>13, <1>14, <1>15 DEF IInv

LEMMA NextSound == IInv /\ [Next]_vars => IInv'
<1> SUFFICES ASSUME IInv, [Next]_vars PROVE IInv'
  OBVIOUS
<1> DEFINE Quiet ==
      /\ Same(row, row') /\ UNCHANGED <<when, books, inbox, linked>>
      /\ pass'.instant \in Nat
      /\ pass' = [x \in {"stage", "snap", "instant", "sizes", "cash"}
                    |-> pass'[x]]
<1>0. Shape /\ Now \in Nat /\ RowShape(row)
  BY NowIsNat DEF IInv, Shape
<1>1. Same(row, row)
  BY <1>0 DEF Same
<1>2. /\ Idle.instant \in Nat
      /\ Idle = [x \in {"stage", "snap", "instant", "sizes", "cash"}
                   |-> Idle[x]]
  BY DEF Idle
<1>3. ASSUME NEW f \in Facts, VenueBooks(f) PROVE IInv'
  BY <1>3, VenueBooksSound
<1>4. CASE Start
  <2>1. Quiet
    BY <1>0, <1>1, <1>4 DEF Start, ledgerVars, linkVars, passVars, Shape
  <2> QED  BY <2>1, QuietStep
<1>5. CASE Crash
  <2>1. inbox' = SubSeq(inbox, 1, 0) /\ 0 \in 0 .. Len(inbox)
    BY <1>0, <1>5, SubSeqEmpty, Basics DEF Crash
  <2>2. linked' = FALSE /\ pass' = Idle /\ UNCHANGED <<when, books, row>>
    BY <1>5 DEF Crash, ledgerVars
  <2> QED  BY <1>2, <2>1, <2>2, CutSound
<1>6. CASE Connect
  BY <1>6, ConnectSound
<1>7. CASE Drop
  <2>1. PICK n \in 0 .. Len(inbox) : inbox' = SubSeq(inbox, 1, n)
    BY <1>7 DEF Drop
  <2>2. linked' = FALSE /\ pass' = pass /\ UNCHANGED <<when, books, row>>
    BY <1>7 DEF Drop, ledgerVars, passVars
  <2> QED  BY <1>0, <2>1, <2>2, CutSound DEF Shape
<1>8. ASSUME NEW f \in Fills, ApplyFill(f) PROVE IInv'
  BY <1>8, ApplyFillSound
<1>9. ASSUME NEW p \in Payments, ApplyPayment(p) PROVE IInv'
  BY <1>9, ApplyPaymentSound
<1>10. CASE ReadStarts
  <2>1. Quiet
    BY <1>0, <1>1, <1>10 DEF ReadStarts, ledgerVars, linkVars, Shape
  <2> QED  BY <2>1, QuietStep
<1>11. CASE VenueAnswers
  <2>1. Quiet
    BY <1>0, <1>1, <1>11 DEF VenueAnswers, ledgerVars, linkVars, Shape
  <2> QED  BY <2>1, QuietStep
<1>12. CASE ReadFails
  <2>1. Quiet
    BY <1>0, <1>1, <1>2, <1>12 DEF ReadFails, ledgerVars, linkVars
  <2> QED  BY <2>1, QuietStep
<1>13. CASE Materialise
  BY <1>2, <1>13, MaterialiseSound
<1>14. CASE Judge
  <2> DEFINE sizes == SizeHeals(pass.snap, row)
             cash == CashHeals(pass.snap, row)
  <2>1. UNCHANGED <<when, books, inbox, linked>>
    BY <1>14 DEF Judge, linkVars
  <2>2. \/ row' = Heal(row, pass.snap, sizes, {}) /\ pass' = Idle
        \/ row' = row /\ pass' = [pass EXCEPT !.stage = "mode", !.sizes = sizes,
                                              !.cash = cash]
    BY <1>14 DEF Judge
  <2>3. Same(row, Heal(row, pass.snap, sizes, {}))
    BY <1>0, HealShape
  <2>4. Quiet
    <3> HIDE DEF sizes, cash
    <3>1. CASE row' = Heal(row, pass.snap, sizes, {}) /\ pass' = Idle
      BY <1>2, <2>1, <2>3, <3>1
    <3>2. CASE row' = row /\ pass' = [pass EXCEPT !.stage = "mode", !.sizes = sizes,
                                                  !.cash = cash]
      BY <1>0, <1>1, <2>1, <3>2 DEF Shape
    <3> QED  BY <2>2, <3>1, <3>2
  <2> QED  BY <2>4, QuietStep
<1>15. ASSUME NEW verified \in BOOLEAN, ModeAnswers(verified) PROVE IInv'
  <2>1. UNCHANGED <<when, books, inbox, linked>> /\ pass' = Idle
    BY <1>15 DEF ModeAnswers, linkVars
  <2>2. PICK cash : row' = Heal(row, pass.snap, pass.sizes, cash)
    BY <1>15 DEF ModeAnswers
  <2>3. Quiet
    BY <1>0, <1>2, <2>1, <2>2, HealShape
  <2> QED  BY <2>3, QuietStep
<1>16. CASE UNCHANGED vars
  <2>1. Quiet
    BY <1>0, <1>1, <1>16 DEF vars, Shape
  <2> QED  BY <2>1, QuietStep
<1> QED
  BY <1>3, <1>4, <1>5, <1>6, <1>7, <1>8, <1>9, <1>10, <1>11, <1>12, <1>13,
     <1>14, <1>15, <1>16 DEF Next

-----------------------------------------------------------------------------
(* The theorems                                                            *)

\* Ledger keeps its inductive invariant.
THEOREM LedgerInvariant == Spec => []IInv
<1>1. Init => IInv
  BY InitSound
<1>2. IInv /\ [Next]_vars => IInv'
  BY NextSound
<1> QED  BY <1>1, <1>2, PTL DEF Spec

\* Every trade and every payment is folded at most once, and no payment that
\* the opening balance contains: over redelivered reports, snapshots sent
\* again, crashes between any two steps, and account passes at any moment.
THEOREM FactsBookedOnce == Spec => []BookedOnce
<1>1. IInv => BookedOnce
  <2> SUFFICES ASSUME IInv PROVE BookedOnce
    OBVIOUS
  <2>1. /\ \A f \in Facts : books[f] \in {0, 1}
        /\ \A p \in Payments : books[p] = 1 => row.genesis < when[p]
    BY DEF IInv, Replays
  <2>2. row.genesis \in Nat /\ \A p \in Payments : when[p] \in Nat
    BY Basics DEF IInv
  <2> QED  BY <2>1, <2>2 DEF BookedOnce
<1> QED  BY <1>1, LedgerInvariant, PTL

\* One boundary per symbol is enough: what a mark makes the ledger drop is
\* what it has folded.
THEOREM MarksPassNothing == Spec => []MarksCoverBooked
<1>1. IInv => MarksCoverBooked
  BY DEF IInv
<1> QED  BY <1>1, LedgerInvariant, PTL
===============================================================================
