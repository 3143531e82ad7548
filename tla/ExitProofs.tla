----------------------------- MODULE ExitProofs ------------------------------
(***************************************************************************)
(* Proofs about ExitRun for every set of symbols and partitions, every     *)
(* scene a run may start in, and any number of failures, lost answers,     *)
(* hand trades and crashes: a symbol has one close, a run that says done   *)
(* has left its strategies flat, and their leftover moves last.            *)
(***************************************************************************)
EXTENDS ExitProperties, FiniteSetTheorems, TLAPS

Stays(o) == OpenRow(o) \/ CanTrade(o)

\* Kept and BookAll are folds, of one step each.
Keep(c, kept, o) == IF Stays(o) THEN Append(kept, o) ELSE kept
Book(c, b, i) == IF c.new[i].cum = c.old[i].cum THEN b ELSE Booked(b, c.old[i], c.new[i].cum)

Keeping == INSTANCE FoldFacts WITH Op <- Keep
Booking == INSTANCE FoldFacts WITH Op <- Book

-----------------------------------------------------------------------------
\* What the two folds give.

\* The first k of list, without those that are dropped, are l: e says where each was.
Embeds(l, list, k) ==
    /\ l \in Seq({list[i] : i \in DOMAIN list})
    /\ \E e : /\ \A i \in DOMAIN l : e[i] \in 1..k /\ l[i] = list[e[i]] /\ Stays(l[i])
              /\ \A i, j \in DOMAIN l : e[i] = e[j] => i = j

\* Kept is a fold over its list.
LEMMA KeptIsFold ==
    ASSUME NEW list, NEW n \in Nat, DOMAIN list = 1..n
    PROVE  \E f : Keeping!Steps(f, 0, <<>>, list, n) /\ Kept(list) = f[n]
<1>1. PICK f : Keeping!Steps(f, 0, <<>>, list, n) /\ Keeping!Folded(0, <<>>, list) = f[n]
  BY Keeping!FoldSteps
<1>2. Kept(list) = Keeping!Folded(0, <<>>, list)
  BY DEF Kept, FoldLeft, MapThenFoldSet, Keeping!Folded, Keeping!FoldLeft,
         Keeping!MapThenFoldSet, Max, Keeping!Max, Keep, Stays
<1> QED BY <1>1, <1>2

\* One step of that fold.
LEMMA KeepEmbeds ==
    ASSUME NEW list, NEW n \in Nat, DOMAIN list = 1..n, NEW k \in 0..(n - 1), NEW l,
           Embeds(l, list, k)
    PROVE  Embeds(Keep(0, l, list[k + 1]), list, k + 1)
<1> DEFINE S == {list[i] : i \in DOMAIN list}
           o == list[k + 1]
<1>1. k \in Nat /\ k + 1 \in 1..n /\ l \in Seq(S) /\ o \in S /\ \A i \in 1..k : i \in 1..(k + 1)
  BY DEF Embeds
<1>2. PICK e : /\ \A i \in DOMAIN l : e[i] \in 1..k /\ l[i] = list[e[i]] /\ Stays(l[i])
               /\ \A i, j \in DOMAIN l : e[i] = e[j] => i = j
  BY DEF Embeds
<1>3. CASE ~Stays(o)
  <2>1. Keep(0, l, o) = l
    BY <1>3 DEF Keep
  <2>2. \A i \in DOMAIN l : e[i] \in 1..(k + 1) /\ l[i] = list[e[i]] /\ Stays(l[i])
    BY <1>1, <1>2
  <2>3. \E d : /\ \A i \in DOMAIN l : d[i] \in 1..(k + 1) /\ l[i] = list[d[i]] /\ Stays(l[i])
               /\ \A i, j \in DOMAIN l : d[i] = d[j] => i = j
    BY <1>2, <2>2
  <2>4. l \in Seq({list[i] : i \in DOMAIN list})
    BY <1>1
  <2>5. Embeds(l, list, k + 1)
    BY <2>3, <2>4 DEF Embeds
  <2> QED BY <2>1, <2>5
<1>4. CASE Stays(o)
  <2>1. PICK r : r = Append(l, o)
    OBVIOUS
  <2> HIDE DEF S, o
  <2>2. /\ r \in Seq(S) /\ Len(l) \in Nat /\ DOMAIN r = 1..(Len(l) + 1) /\ DOMAIN l = 1..Len(l)
        /\ r[Len(l) + 1] = o /\ \A i \in 1..Len(l) : r[i] = l[i]
    BY <1>1, <2>1
  <2>3. PICK d : d = [i \in 1..(Len(l) + 1) |-> IF i = Len(l) + 1 THEN k + 1 ELSE e[i]]
    OBVIOUS
  <2>4. ASSUME NEW i \in DOMAIN r PROVE d[i] \in 1..(k + 1) /\ r[i] = list[d[i]] /\ Stays(r[i])
    <3>1. CASE i = Len(l) + 1
      BY <1>1, <1>4, <2>2, <2>3, <3>1 DEF o
    <3>2. CASE i # Len(l) + 1
      <4>1. i \in 1..Len(l) /\ d[i] = e[i]
        BY <2>2, <2>3, <3>2
      <4> QED BY <1>1, <1>2, <2>2, <4>1
    <3> QED BY <3>1, <3>2
  <2>5. ASSUME NEW i \in DOMAIN r, NEW j \in DOMAIN r, d[i] = d[j] PROVE i = j
    <3>1. \A x \in 1..Len(l) : d[x] = e[x] /\ e[x] \in 1..k /\ x \in DOMAIN l
      BY <1>2, <2>2, <2>3
    <3>2. d[Len(l) + 1] = k + 1
      BY <2>2, <2>3
    <3>3. i \in 1..Len(l) \/ i = Len(l) + 1
      BY <2>2
    <3>4. j \in 1..Len(l) \/ j = Len(l) + 1
      BY <2>2
    <3>5. k + 1 \notin 1..k
      BY <1>1
    <3> QED BY <1>2, <2>5, <3>1, <3>2, <3>3, <3>4, <3>5
  <2>6. Keep(0, l, o) = r
    BY <1>4, <2>1 DEF Keep
  <2>7. \E f : /\ \A i \in DOMAIN r : f[i] \in 1..(k + 1) /\ r[i] = list[f[i]] /\ Stays(r[i])
               /\ \A i, j \in DOMAIN r : f[i] = f[j] => i = j
    BY <2>4, <2>5
  <2>8. Embeds(r, list, k + 1)
    BY <2>2, <2>7 DEF Embeds, S
  <2> QED BY <2>6, <2>8 DEF o
<1> QED BY <1>3, <1>4

\* What is kept of a list was in it, each entry once, and is wanted.
LEMMA KeptEmbeds ==
    ASSUME NEW list, NEW n \in Nat, DOMAIN list = 1..n
    PROVE  Embeds(Kept(list), list, n)
<1>1. PICK f : Keeping!Steps(f, 0, <<>>, list, n) /\ Kept(list) = f[n]
  BY KeptIsFold
<1> DEFINE C == {k \in Nat : k <= n => Embeds(f[k], list, k)}
<1>2. 0 \in C
  <2>1. f[0] = <<>>
    BY <1>1 DEF Keeping!Steps
  <2>2. \A S : <<>> \in Seq(S)
    OBVIOUS
  <2>3. DOMAIN <<>> = {}
    OBVIOUS
  <2>4. Embeds(<<>>, list, 0)
    BY <2>2, <2>3 DEF Embeds
  <2> QED BY <2>1, <2>4
<1>3. ASSUME NEW k \in Nat, k \in C PROVE k + 1 \in C
  <2> SUFFICES ASSUME k + 1 <= n PROVE Embeds(f[k + 1], list, k + 1)
    OBVIOUS
  <2>1. k \in 0..(n - 1) /\ Embeds(f[k], list, k)
    BY <1>3
  <2>2. f[k + 1] = Keep(0, f[k], list[k + 1])
    BY <1>1, <2>1 DEF Keeping!Steps
  <2> QED BY <2>1, <2>2, KeepEmbeds
<1> HIDE DEF C
<1>4. n \in C
  BY <1>2, <1>3, Keeping!Climb
<1> QED BY <1>1, <1>4 DEF C

\* Nothing is wanted of a list that has no entry.
LEMMA KeptOfNone ==
    ASSUME NEW list, DOMAIN list = {}
    PROVE  Kept(list) = <<>>
<1>1. DOMAIN list = 1..0 /\ 0 \in Nat
  OBVIOUS
<1>2. Embeds(Kept(list), list, 0)
  BY <1>1, KeptEmbeds
<1>3. PICK S : Kept(list) \in Seq(S)
  BY <1>2 DEF Embeds
<1>4. \A i \in DOMAIN Kept(list) : FALSE
  <2>1. \A i \in DOMAIN Kept(list) : \E x : x \in 1..0
    BY <1>2 DEF Embeds
  <2> QED BY <2>1
<1>5. DOMAIN Kept(list) = 1..Len(Kept(list)) /\ Len(Kept(list)) \in Nat
  BY <1>3
<1>6. Len(Kept(list)) = 0
  <2>1. ASSUME Len(Kept(list)) # 0 PROVE FALSE
    <3>1. 1 \in DOMAIN Kept(list)
      BY <1>5, <2>1
    <3> QED BY <1>4, <3>1
  <2> QED BY <2>1
<1> QED BY <1>3, <1>6

\* Booking fills moves partitions and adds none.
LEMMA BookAllShape ==
    ASSUME NEW parts, NEW old, NEW new, NEW n \in Nat, DOMAIN old = 1..n,
           DOMAIN parts = Owners
    PROVE  /\ DOMAIN BookAll(parts, old, new) = Owners
           /\ n = 0 => BookAll(parts, old, new) = parts
<1>1. PICK seq : seq = [i \in DOMAIN old |-> i]
  OBVIOUS
<1>2. PICK c : c = [old |-> old, new |-> new]
  OBVIOUS
<1>3. DOMAIN seq = 1..n
  BY <1>1
<1>4. PICK f : Booking!Steps(f, c, parts, seq, n) /\ Booking!Folded(c, parts, seq) = f[n]
  BY <1>3, Booking!FoldSteps
<1>5. BookAll(parts, old, new) = Booking!Folded(c, parts, seq)
  BY <1>1, <1>2 DEF BookAll, FoldLeftDomain, FoldLeft, MapThenFoldSet, Booking!Folded,
       Booking!FoldLeft, Booking!MapThenFoldSet, Max, Booking!Max, Book
<1> DEFINE C == {k \in Nat : k <= n => DOMAIN f[k] = Owners}
<1>6. f[0] = parts
  BY <1>4 DEF Booking!Steps
<1>7. 0 \in C
  BY <1>6
<1>8. ASSUME NEW k \in Nat, k \in C PROVE k + 1 \in C
  <2> SUFFICES ASSUME k + 1 <= n PROVE DOMAIN f[k + 1] = Owners
    OBVIOUS
  <2>1. k \in 0..(n - 1) /\ DOMAIN f[k] = Owners
    BY <1>8
  <2>2. f[k + 1] = Book(c, f[k], seq[k + 1])
    BY <1>4, <2>1 DEF Booking!Steps
  <2> QED BY <2>1, <2>2 DEF Book, Booked
<1> HIDE DEF C
<1>9. n \in C
  BY <1>7, <1>8, Booking!Climb
<1>10. DOMAIN f[n] = Owners
  BY <1>9 DEF C
<1> QED BY <1>4, <1>5, <1>6, <1>10

-----------------------------------------------------------------------------
\* The inductive invariant.

Fields == {"id", "kind", "owner", "side", "qty", "row", "venue", "record", "exec", "cum",
           "seen", "split"}

\* The orders of a symbol, of which at most one is a close.
Listing(list) ==
    /\ \E n \in Nat : list = [i \in 1..n |-> list[i]]
    /\ \A i \in DOMAIN list : DOMAIN list[i] = Fields
    /\ \A i, j \in DOMAIN list : list[i].kind = "close" /\ list[j].kind = "close" => i = j

\* Nothing is kept that nobody asks about, and what is on the wire has its row.
Live(list) ==
    \A i \in DOMAIN list : Stays(list[i]) /\ (list[i].venue = "wire" => OpenRow(list[i]))

NothingRests(list) == \A i \in DOMAIN list : list[i].venue # "resting"

\* Where a loop stands once no order of its symbol is left.
Cleared == {"attempt", "gap 1", "gap 2", "close", "left", "over"}

\* Where a run stands behind its cancel-all.
Cancelled == {"positions", "loops", "final orders", "final positions", "done"}

Shape ==
    /\ DOMAIN orders = Symbols /\ \A s \in Symbols : Listing(orders[s])
    /\ DOMAIN books = Symbols /\ \A s \in Symbols : DOMAIN books[s] = Owners
    /\ DOMAIN loop = Symbols /\ \A s \in Symbols : DOMAIN loop[s] = DOMAIN IdleLoop

OrdersAre ==
    /\ main # "boot" => \A s \in Symbols : Live(orders[s])
    /\ main \in Cancelled => \A s \in Symbols : NothingRests(orders[s])
    /\ \A s \in Symbols : loop[s].at \in Cleared => orders[s] = <<>>

FlatIs ==
    /\ \A s \in Symbols : loop[s].at = "over" => \A o \in Strategies : books[s][o] = 0
    /\ main \in {"final orders", "final positions"} =>
          \A s \in Symbols : loop[s].at \in {"out", "over", "gave up"}
    /\ main = "done" => \A s \in Symbols : loop[s].at \in {"out", "over"}

ExitInv == Shape /\ OrdersAre /\ FlatIs

-----------------------------------------------------------------------------
\* How an order, and the list of a symbol, may move.

Follows(o, n) ==
    /\ DOMAIN n = Fields /\ n.kind = o.kind /\ n.venue \in {o.venue, "gone"}
    /\ n.venue = "wire" /\ OpenRow(o) => OpenRow(n)

Successor(list, new) ==
    /\ DOMAIN new = DOMAIN list
    /\ \A i \in DOMAIN list : Follows(list[i], new[i])

Moves(list, next) == next = list \/ \E new : Successor(list, new) /\ next = Kept(new)

\* What is kept of a list that moved comes from the list.
LEMMA KeptFollows ==
    ASSUME NEW list, Listing(list), NEW new, Successor(list, new)
    PROVE  /\ Listing(Kept(new))
           /\ \A i \in DOMAIN Kept(new) :
                 Stays(Kept(new)[i]) /\ \E j \in DOMAIN list : Follows(list[j], Kept(new)[i])
<1>1. PICK n \in Nat : DOMAIN list = 1..n
  BY DEF Listing
<1>2. DOMAIN new = 1..n
  BY <1>1 DEF Successor
<1>3. PICK l : l = Kept(new)
  OBVIOUS
<1>4. Embeds(l, new, n)
  BY <1>2, <1>3, KeptEmbeds
<1>5. PICK e : /\ \A i \in DOMAIN l : e[i] \in 1..n /\ l[i] = new[e[i]] /\ Stays(l[i])
               /\ \A i, j \in DOMAIN l : e[i] = e[j] => i = j
  BY <1>4 DEF Embeds
<1>6. \E m \in Nat : l = [i \in 1..m |-> l[i]]
  <2>1. PICK S : l \in Seq(S)
    BY <1>4 DEF Embeds
  <2>2. Len(l) \in Nat /\ l = [i \in 1..Len(l) |-> l[i]]
    BY <2>1
  <2> QED BY <2>2
<1>7. \A i \in DOMAIN l : e[i] \in DOMAIN list /\ Follows(list[e[i]], l[i]) /\ Stays(l[i])
  BY <1>1, <1>5 DEF Successor
<1>8. \A i \in DOMAIN l : DOMAIN l[i] = Fields /\ l[i].kind = list[e[i]].kind
  BY <1>7 DEF Follows
<1>9. \A i, j \in DOMAIN list : list[i].kind = "close" /\ list[j].kind = "close" => i = j
  BY DEF Listing
<1>10. \A i, j \in DOMAIN l : l[i].kind = "close" /\ l[j].kind = "close" => i = j
  BY <1>5, <1>7, <1>8, <1>9
<1> QED BY <1>3, <1>6, <1>7, <1>8, <1>10 DEF Listing

\* What a list that moved has kept of what holds of it.
LEMMA MovesKeep ==
    ASSUME NEW list, Listing(list), NEW next, Moves(list, next)
    PROVE  /\ Listing(next)
           /\ Live(list) => Live(next)
           /\ NothingRests(list) => NothingRests(next)
           /\ list = <<>> => next = <<>>
<1>1. CASE next = list
  BY <1>1
<1>2. CASE next # list
  <2>1. PICK new : Successor(list, new) /\ next = Kept(new)
    BY <1>2 DEF Moves
  <2>2. /\ Listing(next)
        /\ \A i \in DOMAIN next :
              Stays(next[i]) /\ \E j \in DOMAIN list : Follows(list[j], next[i])
    BY <2>1, KeptFollows
  <2>3. ASSUME Live(list) PROVE Live(next)
    <3> SUFFICES ASSUME NEW i \in DOMAIN next, next[i].venue = "wire" PROVE OpenRow(next[i])
      BY <2>2 DEF Live
    <3>1. PICK j \in DOMAIN list : Follows(list[j], next[i])
      BY <2>2
    <3>2. list[j].venue = "wire"
      BY <3>1 DEF Follows
    <3> QED BY <2>3, <3>1, <3>2 DEF Follows, Live
  <2>4. ASSUME NothingRests(list) PROVE NothingRests(next)
    <3> SUFFICES ASSUME NEW i \in DOMAIN next PROVE next[i].venue # "resting"
      BY DEF NothingRests
    <3>1. PICK j \in DOMAIN list : Follows(list[j], next[i])
      BY <2>2
    <3> QED BY <2>4, <3>1 DEF Follows, NothingRests
  <2>5. ASSUME list = <<>> PROVE next = <<>>
    <3>1. DOMAIN new = {}
      BY <2>1, <2>5 DEF Successor
    <3> QED BY <2>1, <3>1, KeptOfNone
  <2> QED BY <2>2, <2>3, <2>4, <2>5
<1> QED BY <1>1, <1>2

\* An order's own handlers.
LEMMA AdoptedFollows ==
    ASSUME NEW o, DOMAIN o = Fields, NEW listed
    PROVE  Follows(o, Adopted(o, listed))
  BY DEF Follows, Adopted, WithFills, OpenRow, Fields

\* Nor does the answer to a close change what it is.
LEMMA PlacedFollows ==
    ASSUME NEW o, DOMAIN o = Fields, o.venue = "gone", NEW listed
    PROVE  Follows(o, Placed(o, listed))
  BY DEF Follows, Placed, WithFills, OpenRow, Fields

\* A read of the rows of a symbol, the answer to a close, a cancel, and a fill.
LEMMA ReadMoves ==
    ASSUME NEW s \in Symbols, Listing(orders[s]), NEW short
    PROVE  Successor(orders[s], AfterRead(s, short))
<1>1. \A i \in DOMAIN orders[s] : DOMAIN orders[s][i] = Fields
  BY DEF Listing
<1> QED BY <1>1, AdoptedFollows DEF Successor, AfterRead

\* One order of the list moves.
LEMMA OneMoves ==
    ASSUME NEW list, Listing(list), NEW i, NEW n, i \in DOMAIN list => Follows(list[i], n)
    PROVE  Moves(list, Kept([list EXCEPT ![i] = n]))
<1>1. PICK new : new = [list EXCEPT ![i] = n]
  OBVIOUS
<1>2. \A o : DOMAIN o = Fields => Follows(o, o)
  BY DEF Follows
<1>3. Successor(list, new)
  BY <1>1, <1>2 DEF Successor, Listing
<1> QED BY <1>1, <1>3 DEF Moves

\* A cancel moves the orders it reaches.
LEMMA CancelMoves ==
    ASSUME NEW list, Listing(list), NEW s, NEW which, NEW answered
    PROVE  Moves(list, Kept(CancelledAt(list, s, which, answered)))
<1>1. Successor(list, CancelledAt(list, s, which, answered))
  <2>1. DOMAIN CancelledAt(list, s, which, answered) = DOMAIN list
    BY DEF CancelledAt
  <2>2. ASSUME NEW i \in DOMAIN list
        PROVE  Follows(list[i], CancelledAt(list, s, which, answered)[i])
    <3>1. DOMAIN list[i] = Fields
      BY DEF Listing
    <3> QED BY <3>1 DEF CancelledAt, Follows, Fields
  <2> QED BY <2>1, <2>2 DEF Successor
<1> QED BY <1>1 DEF Moves

\* A list without entries.
LEMMA NoEntry ==
    ASSUME NEW list, Listing(list), DOMAIN list = {}
    PROVE  list = <<>>
<1>1. PICK n \in Nat : list = [i \in 1..n |-> list[i]]
  BY DEF Listing
<1>2. n = 0
  <2>1. ASSUME n # 0 PROVE FALSE
    <3>1. 1 \in DOMAIN list
      BY <1>1, <2>1
    <3> QED BY <3>1
  <2> QED BY <2>1
<1> QED BY <1>1, <1>2

\* Behind the cancel-all, a symbol without an open row has no order.
LEMMA NoneOpen ==
    ASSUME NEW s \in Symbols, Listing(orders[s]), Live(orders[s]), NothingRests(orders[s]),
           OpenRows(s) = {}
    PROVE  orders[s] = <<>>
<1>1. ASSUME NEW i \in DOMAIN orders[s] PROVE FALSE
  <2>1. ~OpenRow(orders[s][i])
    BY DEF OpenRows
  <2>2. orders[s][i].venue \in {"wire", "resting"}
    BY <2>1 DEF Live, Stays, CanTrade
  <2> QED BY <2>1, <2>2 DEF Live, NothingRests
<1> QED BY <1>1, NoEntry

-----------------------------------------------------------------------------
\* The actions on the orders.

MoveAll ==
    /\ DOMAIN orders' = Symbols
    /\ \A s \in Symbols : Moves(orders[s], orders'[s])

\* A read leaves the books of a symbol without orders alone.
LEMMA AdoptsMove ==
    ASSUME Shape, NEW seen, NEW short, Adopts(seen, short)
    PROVE  /\ MoveAll
           /\ \A s \in Symbols : \E new : Successor(orders[s], new) /\ orders'[s] = Kept(new)
           /\ DOMAIN books' = Symbols
           /\ \A s \in Symbols : /\ DOMAIN books'[s] = Owners
                                 /\ orders[s] = <<>> => books'[s] = books[s]
<1>1. PICK new : /\ new = [s \in Symbols |-> IF s \in seen THEN AfterRead(s, short) ELSE orders[s]]
                 /\ orders' = [s \in Symbols |-> Kept(new[s])]
                 /\ books' = [s \in Symbols |-> BookAll(books[s], orders[s], new[s])]
  BY DEF Adopts
<1>2. ASSUME NEW s \in Symbols PROVE Successor(orders[s], new[s]) /\ orders'[s] = Kept(new[s])
  <2>1. CASE s \in seen
    <3>1. Successor(orders[s], new[s])
      BY <1>1, <2>1, ReadMoves DEF Shape
    <3> QED BY <1>1, <3>1
  <2>2. CASE s \notin seen
    <3>1. new[s] = orders[s]
      BY <1>1, <2>2
    <3>2. Successor(orders[s], orders[s])
      BY DEF Successor, Shape, Listing, Follows
    <3> QED BY <1>1, <3>1, <3>2
  <2> QED BY <2>1, <2>2
<1>3. ASSUME NEW s \in Symbols
      PROVE  DOMAIN books'[s] = Owners /\ (orders[s] = <<>> => books'[s] = books[s])
  <2>1. PICK n \in Nat : orders[s] = [i \in 1..n |-> orders[s][i]]
    BY DEF Shape, Listing
  <2>2. DOMAIN orders[s] = 1..n /\ DOMAIN books[s] = Owners
    BY <2>1 DEF Shape
  <2>3. orders[s] = <<>> => n = 0
    BY <2>2
  <2>4. books'[s] = BookAll(books[s], orders[s], new[s])
    BY <1>1
  <2>5. /\ DOMAIN BookAll(books[s], orders[s], new[s]) = Owners
        /\ n = 0 => BookAll(books[s], orders[s], new[s]) = books[s]
    BY <2>2, BookAllShape
  <2> QED BY <2>3, <2>4, <2>5
<1> QED BY <1>1, <1>2, <1>3 DEF MoveAll, Moves

\* One order of a symbol moves.
LEMMA BecomesMoves ==
    ASSUME Shape, NEW s \in Symbols, NEW i, NEW n, Becomes(s, i, n),
           i \in DOMAIN orders[s] => Follows(orders[s][i], n)
    PROVE  MoveAll
<1>1. Moves(orders[s], Kept([orders[s] EXCEPT ![i] = n]))
  BY OneMoves DEF Shape
<1>2. Moves(orders[s], orders'[s])
  BY <1>1 DEF Becomes, Shape
<1>3. \A t \in Symbols : t # s => orders'[t] = orders[t]
  BY DEF Becomes, Shape
<1>4. DOMAIN orders' = Symbols
  BY DEF Becomes, Shape
<1> QED BY <1>2, <1>3, <1>4 DEF MoveAll, Moves

\* The answer to a close.
LEMMA AnsweredMoves ==
    ASSUME Shape, NEW s \in Symbols, NEW new, Answered(s, Last(orders[s]), new),
           DOMAIN Last(orders[s]) = Fields => Follows(Last(orders[s]), new)
    PROVE  /\ MoveAll
           /\ DOMAIN books' = Symbols
           /\ \A t \in Symbols : /\ DOMAIN books'[t] = Owners
                                 /\ t # s => books'[t] = books[t]
<1> DEFINE o == Last(orders[s])
<1>1. Len(orders[s]) \in DOMAIN orders[s] => Follows(orders[s][Len(orders[s])], new)
  BY DEF Last, Listing, Shape
<1>2. MoveAll
  BY <1>1, BecomesMoves DEF Answered
<1>3. books' = [books EXCEPT ![s] = IF new.cum = 0 THEN @ ELSE Booked(@, o, new.cum)]
  BY DEF Answered
<1>4. DOMAIN books'[s] = Owners
  BY <1>3 DEF Shape, Booked
<1>5. \A t \in Symbols : t # s => books'[t] = books[t]
  BY <1>3 DEF Shape
<1> QED BY <1>2, <1>3, <1>4, <1>5 DEF Shape

\* Whatever the answer to a close says, or that it is lost.
LEMMA AnswerMoves ==
    ASSUME Shape, NEW s \in Symbols, Answer(s) \/ AnswerFails(s)
    PROVE  /\ MoveAll
           /\ DOMAIN books' = Symbols
           /\ \A t \in Symbols : /\ DOMAIN books'[t] = Owners
                                 /\ t # s => books'[t] = books[t]
<1> DEFINE o == Last(orders[s])
<1>1. CASE Answer(s)
  <2>1. PICK listed : Answered(s, o, Placed(o, listed)) /\ o.venue = "gone"
    BY <1>1 DEF Answer
  <2>2. DOMAIN o = Fields => Follows(o, Placed(o, listed))
    BY <2>1, PlacedFollows
  <2> HIDE DEF o
  <2>3. o = Last(orders[s])
    BY DEF o
  <2> QED BY <2>1, <2>2, <2>3, AnsweredMoves
<1>2. CASE AnswerFails(s)
  <2>1. \E new \in {[o EXCEPT !.row = "live"], [o EXCEPT !.venue = "gone"], o} :
           Answered(s, o, new)
    BY <1>2 DEF AnswerFails
  <2>2. PICK new \in {[o EXCEPT !.row = "live"], [o EXCEPT !.venue = "gone"], o} :
           Answered(s, o, new)
    BY <2>1
  <2>3. DOMAIN o = Fields => Follows(o, new)
    BY <2>2 DEF Follows, Fields, OpenRow
  <2> HIDE DEF o
  <2>4. o = Last(orders[s])
    BY DEF o
  <2> QED BY <2>2, <2>3, <2>4, AnsweredMoves
<1> QED BY <1>1, <1>2

\* What the venue does to an order.
LEMMA ExecutesMoves ==
    ASSUME Shape, NEW s \in Symbols, NEW i \in DOMAIN orders[s], NEW lots, NEW fate, NEW where,
           Executes(s, i, lots, fate, where), where \in {orders[s][i].venue, "gone"}
    PROVE  MoveAll
<1>1. DOMAIN orders[s][i] = Fields
  BY DEF Shape, Listing
<1>2. Follows(orders[s][i], Traded(orders[s][i], lots, fate, where))
  BY <1>1 DEF Follows, Traded, OpenRow, Fields
<1> QED BY <1>2, BecomesMoves DEF Executes

\* A request that never lands.
LEMMA LostMoves ==
    ASSUME Shape, NEW s \in Symbols, NEW i \in DOMAIN orders[s], Lost(s, i)
    PROVE  MoveAll
<1>1. DOMAIN orders[s][i] = Fields
  BY DEF Shape, Listing
<1>2. Follows(orders[s][i], [orders[s][i] EXCEPT !.venue = "gone"])
  BY <1>1 DEF Follows, OpenRow, Fields
<1> QED BY <1>2, BecomesMoves DEF Lost

\* All the venue does moves orders, and nothing the run holds.
LEMMA VenueMoves ==
    ASSUME Shape, Venue
    PROVE  MoveAll /\ UNCHANGED <<books, main, loop>>
<1>1. PICK s \in Symbols :
         \/ \E i \in DOMAIN orders[s] : Lands(s, i) \/ Lost(s, i) \/ RestingFills(s, i)
         \/ HandTrade(s)
  BY DEF Venue
<1>2. CASE HandTrade(s)
  BY <1>2 DEF HandTrade, MoveAll, Moves, Shape, memory
<1>3. ASSUME NEW i \in DOMAIN orders[s], Lands(s, i) \/ Lost(s, i) \/ RestingFills(s, i)
      PROVE  MoveAll /\ UNCHANGED <<books, main, loop>>
  <2>1. CASE Lands(s, i)
    <3>1. PICK lots, fate : Executes(s, i, lots, fate, "gone")
      BY <2>1 DEF Lands
    <3> QED BY <2>1, <3>1, ExecutesMoves DEF Lands, memory
  <2>2. CASE Lost(s, i)
    BY <2>2, LostMoves DEF Lost, memory
  <2>3. CASE RestingFills(s, i)
    <3>1. orders[s][i].venue = "resting"
      BY <2>3 DEF RestingFills
    <3>2. PICK fate, where : Executes(s, i, 1, fate, where) /\ where \in {"resting", "gone"}
      BY <2>3 DEF RestingFills
    <3> QED BY <2>3, <3>1, <3>2, ExecutesMoves DEF RestingFills, memory
  <2> QED BY <1>3, <2>1, <2>2, <2>3
<1> QED BY <1>1, <1>2, <1>3

-----------------------------------------------------------------------------
\* What a step that moves orders keeps.

\* A run behind its cancel-all stays there, and a loop passes on from "verdict"
\* only where no order is left.
LEMMA OrdersHold ==
    ASSUME Shape, OrdersAre, MoveAll,
           main' # "boot" => main # "boot" \/ \A s \in Symbols : Live(orders'[s]),
           main' \in Cancelled => main \in Cancelled \/ \A s \in Symbols : NothingRests(orders'[s]),
           \A s \in Symbols : loop'[s].at \in Cleared => loop[s].at \in Cleared \/ orders[s] = <<>>
    PROVE  /\ DOMAIN orders' = Symbols
           /\ \A s \in Symbols : Listing(orders'[s])
           /\ OrdersAre'
<1>1. DOMAIN orders' = Symbols
  BY DEF MoveAll
<1>2. \A s \in Symbols : Listing(orders[s]) /\ Moves(orders[s], orders'[s])
  BY DEF Shape, MoveAll
<1>3. ASSUME NEW s \in Symbols
      PROVE  /\ Listing(orders'[s])
             /\ Live(orders[s]) => Live(orders'[s])
             /\ NothingRests(orders[s]) => NothingRests(orders'[s])
             /\ orders[s] = <<>> => orders'[s] = <<>>
  BY <1>2, MovesKeep
<1>4. main' # "boot" => \A s \in Symbols : Live(orders'[s])
  BY <1>3 DEF OrdersAre
<1>5. main' \in Cancelled => \A s \in Symbols : NothingRests(orders'[s])
  BY <1>3 DEF OrdersAre
<1>6. \A s \in Symbols : loop'[s].at \in Cleared => orders'[s] = <<>>
  BY <1>3 DEF OrdersAre
<1>7. OrdersAre'
  BY <1>4, <1>5, <1>6 DEF OrdersAre, Live, NothingRests
<1> QED BY <1>1, <1>3, <1>7

\* A step that leaves the orders alone moves them nowhere.
LEMMA StandingMoves ==
    ASSUME Shape, UNCHANGED orders
    PROVE  MoveAll
  BY DEF MoveAll, Moves, Shape

\* A step of one symbol's loop: the others stand where they stood.
LoopsOf(s) ==
    /\ main = "loops" /\ main' = main
    /\ DOMAIN loop' = Symbols
    /\ \A t \in Symbols : /\ DOMAIN loop'[t] = DOMAIN IdleLoop
                          /\ t # s => loop'[t].at = loop[t].at

BooksStand ==
    /\ DOMAIN books' = Symbols
    /\ \A t \in Symbols : DOMAIN books'[t] = Owners

\* What a step of one loop must show to keep the invariant.
LEMMA LoopHolds ==
    ASSUME ExitInv, NEW s \in Symbols, LoopsOf(s), MoveAll, BooksStand,
           loop'[s].at \in Cleared => loop[s].at \in Cleared \/ orders[s] = <<>>,
           loop'[s].at = "over" => \A o \in Strategies : books'[s][o] = 0,
           \A t \in Symbols : t # s /\ orders[t] = <<>> =>
              \A o \in Strategies : books'[t][o] = books[t][o]
    PROVE  ExitInv'
<1>1. Shape /\ OrdersAre /\ FlatIs
  BY DEF ExitInv
<1>2. /\ main = "loops" /\ main' = "loops" /\ DOMAIN loop' = Symbols
      /\ \A t \in Symbols : /\ DOMAIN loop'[t] = DOMAIN IdleLoop
                            /\ t # s => loop'[t].at = loop[t].at
  BY DEF LoopsOf
<1>3. \A t \in Symbols : loop'[t].at \in Cleared => loop[t].at \in Cleared \/ orders[t] = <<>>
  BY <1>2
<1>4. DOMAIN orders' = Symbols /\ (\A t \in Symbols : Listing(orders'[t])) /\ OrdersAre'
  BY <1>1, <1>2, <1>3, OrdersHold
<1>5. Shape'
  BY <1>2, <1>4 DEF Shape, BooksStand, Listing, IdleLoop
<1>6. ASSUME NEW t \in Symbols, loop'[t].at = "over", NEW o \in Strategies
      PROVE  books'[t][o] = 0
  <2>1. CASE t = s
    BY <1>6, <2>1
  <2>2. CASE t # s
    <3>1. loop[t].at = "over"
      BY <1>2, <1>6, <2>2
    <3>2. orders[t] = <<>>
      BY <1>1, <3>1 DEF OrdersAre, Cleared
    <3>3. books'[t][o] = books[t][o]
      BY <2>2, <3>2
    <3>4. books[t][o] = 0
      BY <1>1, <3>1 DEF FlatIs
    <3> QED BY <3>3, <3>4
  <2> QED BY <2>1, <2>2
<1>7. FlatIs'
  BY <1>2, <1>6 DEF FlatIs, Strategies
<1> QED BY <1>4, <1>5, <1>7 DEF ExitInv

\* A step outside the loops.
LEMMA RunHolds ==
    ASSUME ExitInv, MoveAll, UNCHANGED <<books, loop>>,
           main' # "boot" => main # "boot",
           main' \in Cancelled => main \in Cancelled \/ \A s \in Symbols : NothingRests(orders'[s]),
           main' \in {"final orders", "final positions"} =>
              \/ main \in {"final orders", "final positions"}
              \/ \A s \in Symbols : loop[s].at \in {"out", "over", "gave up"},
           main' = "done" => \/ main = "done"
                             \/ \A s \in Symbols : loop[s].at \in {"out", "over"}
    PROVE  ExitInv'
<1>1. Shape /\ OrdersAre /\ FlatIs
  BY DEF ExitInv
<1>2. \A s \in Symbols : loop'[s].at \in Cleared => loop[s].at \in Cleared \/ orders[s] = <<>>
  OBVIOUS
<1>3. DOMAIN orders' = Symbols /\ (\A s \in Symbols : Listing(orders'[s])) /\ OrdersAre'
  BY <1>1, <1>2, OrdersHold
<1>4. Shape'
  BY <1>1, <1>3 DEF Shape, Listing, IdleLoop
<1>5. FlatIs'
  BY <1>1 DEF FlatIs, Strategies
<1> QED BY <1>3, <1>4, <1>5 DEF ExitInv

-----------------------------------------------------------------------------
\* The actions of the run.

LEMMA BootHolds ==
    ASSUME ExitInv, BootReads
    PROVE  ExitInv'
<1>1. Shape /\ OrdersAre /\ FlatIs
  BY DEF ExitInv
<1>2. PICK short : Adopts(Symbols, short)
  BY DEF BootReads
<1>3. /\ main = "boot" /\ main' = "trip" /\ UNCHANGED loop
      /\ \A s \in Symbols : \A i \in DOMAIN orders[s] : orders[s][i].venue # "wire"
  BY DEF BootReads
<1>4. /\ MoveAll
      /\ \A s \in Symbols : \E new : Successor(orders[s], new) /\ orders'[s] = Kept(new)
      /\ DOMAIN books' = Symbols
      /\ \A s \in Symbols : /\ DOMAIN books'[s] = Owners
                            /\ orders[s] = <<>> => books'[s] = books[s]
  BY <1>1, <1>2, AdoptsMove
<1>5. ASSUME NEW s \in Symbols PROVE Live(orders'[s])
  <2>1. PICK new : Successor(orders[s], new) /\ orders'[s] = Kept(new)
    BY <1>4
  <2>2. PICK next : next = orders'[s]
    OBVIOUS
  <2>3. \A i \in DOMAIN next :
           Stays(next[i]) /\ \E j \in DOMAIN orders[s] : Follows(orders[s][j], next[i])
    BY <1>1, <2>1, <2>2, KeptFollows DEF Shape
  <2>4. \A i \in DOMAIN next : next[i].venue # "wire"
    BY <1>3, <2>3 DEF Follows
  <2> QED BY <2>2, <2>3, <2>4 DEF Live
<1>6. DOMAIN orders' = Symbols /\ (\A s \in Symbols : Listing(orders'[s])) /\ OrdersAre'
  BY <1>1, <1>3, <1>4, <1>5, OrdersHold DEF Cancelled
<1>7. Shape'
  BY <1>1, <1>3, <1>4, <1>6 DEF Shape, Listing, IdleLoop
<1>8. FlatIs'
  BY <1>1, <1>3, <1>4 DEF FlatIs, Strategies, OrdersAre, Cleared
<1> QED BY <1>6, <1>7, <1>8 DEF ExitInv

\* A round of the cancel-all, answered or not.
LEMMA CancelHolds ==
    ASSUME ExitInv, CancelRound
    PROVE  ExitInv'
<1>1. Shape
  BY DEF ExitInv
<1>2. PICK which, answered :
         orders' = [s \in Symbols |-> Kept(CancelledAt(orders[s], s, which, answered))]
  BY DEF CancelRound
<1>3. MoveAll
  BY <1>1, <1>2, CancelMoves DEF MoveAll, Shape
<1>4. main = "cancel" /\ main' = "read" /\ UNCHANGED <<books, loop>>
  BY DEF CancelRound
<1> QED BY <1>3, <1>4, RunHolds DEF Cancelled

\* Where the orders of every symbol are read, an empty list says that none rests.
LEMMA ShownIsAll ==
    ASSUME Shown = {}, NEW s \in Symbols
    PROVE  NothingRests(orders[s])
<1>1. ASSUME NEW i \in DOMAIN orders[s], orders[s][i].venue = "resting" PROVE FALSE
  <2>1. [symbol |-> s, id |-> orders[s][i].id] \in
           {[symbol |-> s, id |-> orders[s][j].id] :
               j \in {k \in DOMAIN orders[s] : orders[s][k].venue = "resting"}}
    BY <1>1
  <2>2. [symbol |-> s, id |-> orders[s][i].id] \in Shown
    BY <2>1 DEF Shown
  <2> QED BY <2>2
<1> QED BY <1>1 DEF NothingRests

\* The loops start where nothing rests.
LEMMA PositionsHold ==
    ASSUME ExitInv, ReadPositions
    PROVE  ExitInv'
<1>1. Shape /\ OrdersAre /\ FlatIs
  BY DEF ExitInv
<1>2. /\ main = "positions" /\ main' \in {"loops", "stopped"} /\ UNCHANGED <<orders, books>>
      /\ DOMAIN loop' = Symbols
      /\ \A s \in Symbols : /\ DOMAIN loop'[s] = DOMAIN IdleLoop
                            /\ loop'[s].at \in {"resume", "out", loop[s].at}
  <2>1. main = "positions" /\ main' \in {"loops", "stopped"} /\ UNCHANGED <<orders, books>>
    BY DEF ReadPositions, venueVars
  <2>2. CASE UNCHANGED loop
    BY <1>1, <2>1, <2>2 DEF Shape
  <2>3. CASE loop' = [s \in Symbols |->
                        IF s \in Concerned THEN [IdleLoop EXCEPT !.at = "resume", !.size = pos[s]]
                        ELSE IdleLoop]
    BY <2>1, <2>3 DEF IdleLoop
  <2> QED BY <2>2, <2>3 DEF ReadPositions
<1>3. MoveAll
  BY <1>1, <1>2, StandingMoves
<1>4. \A s \in Symbols : loop'[s].at \in Cleared \/ loop'[s].at = "over" =>
         loop'[s].at = loop[s].at
  BY <1>2 DEF Cleared
<1>5. main \in Cancelled
  BY <1>2 DEF Cancelled
<1>6. DOMAIN orders' = Symbols /\ (\A s \in Symbols : Listing(orders'[s])) /\ OrdersAre'
  BY <1>1, <1>2, <1>3, <1>4, <1>5, OrdersHold
<1>7. Shape'
  BY <1>1, <1>2, <1>6 DEF Shape, Listing, IdleLoop
<1>8. FlatIs'
  BY <1>1, <1>2, <1>4 DEF FlatIs, Strategies
<1> QED BY <1>6, <1>7, <1>8 DEF ExitInv

\* Every step outside the loops.
LEMMA RunSteps ==
    ASSUME ExitInv, Run
    PROVE  ExitInv'
<1>1. Shape /\ OrdersAre /\ FlatIs
  BY DEF ExitInv
<1>2. CASE BootReads
  BY <1>2, BootHolds
<1>3. CASE Trip
  <2>1. MoveAll
    BY <1>1, <1>3, StandingMoves DEF Trip, venueVars
  <2> QED BY <1>3, <2>1, RunHolds DEF Trip, Cancelled
<1>4. CASE ReadOrders
  <2>1. MoveAll
    BY <1>1, <1>4, StandingMoves DEF ReadOrders, venueVars
  <2>2. /\ main = "read" /\ main' \in {"positions", "stopped", "cancel"}
        /\ UNCHANGED <<orders, books, loop>>
        /\ main' = "positions" => Shown = {}
    BY <1>4 DEF ReadOrders, venueVars
  <2>3. ASSUME main' = "positions", NEW s \in Symbols PROVE NothingRests(orders'[s])
    <3>1. NothingRests(orders[s])
      BY <2>2, <2>3, ShownIsAll
    <3> QED BY <2>2, <3>1
  <2>4. main' \in Cancelled => main' = "positions"
    BY <2>2 DEF Cancelled
  <2> QED BY <2>1, <2>2, <2>3, <2>4, RunHolds
<1>5. CASE CancelRound
  BY <1>5, CancelHolds
<1>6. CASE ReadPositions
  BY <1>6, PositionsHold
<1>7. CASE LoopsEnd
  <2>1. MoveAll
    BY <1>1, <1>7, StandingMoves DEF LoopsEnd, venueVars
  <2> QED BY <1>7, <2>1, RunHolds DEF LoopsEnd, Cancelled
<1>8. CASE FinalOrders
  <2>1. MoveAll
    BY <1>1, <1>8, StandingMoves DEF FinalOrders, venueVars
  <2>2. main = "final orders" /\ main' \in {"final positions", "stopped"} /\ UNCHANGED <<books, loop>>
    BY <1>8 DEF FinalOrders
  <2> QED BY <2>1, <2>2, RunHolds DEF Cancelled
<1>9. CASE FinalPositions
  <2>1. MoveAll
    BY <1>1, <1>9, StandingMoves DEF FinalPositions, venueVars
  <2>2. /\ main = "final positions" /\ main' \in {"done", "stopped"} /\ UNCHANGED <<books, loop>>
        /\ main' = "done" => \A s \in Symbols : loop[s].at # "gave up"
    BY <1>9 DEF FinalPositions, Outcome
  <2>3. \A s \in Symbols : loop[s].at \in {"out", "over", "gave up"}
    BY <1>1, <2>2 DEF FlatIs
  <2> QED BY <2>1, <2>2, <2>3, RunHolds DEF Cancelled
<1> QED BY <1>2, <1>3, <1>4, <1>5, <1>6, <1>7, <1>8, <1>9 DEF Run

-----------------------------------------------------------------------------
\* The actions of a symbol's loop.

\* The loops after a step of s that ends at one of the places.
Passes(next, s, places) ==
    /\ DOMAIN next = Symbols
    /\ \A t \in Symbols : /\ DOMAIN next[t] = DOMAIN IdleLoop
                          /\ t # s => next[t].at = loop[t].at
    /\ next[s].at \in places

\* A loop that goes to a place.
LEMMA GoesPasses ==
    ASSUME Shape, NEW s \in Symbols, NEW place
    PROVE  Passes(Goes(s, place), s, {place})
  BY DEF Shape, Passes, Goes, IdleLoop

\* One more dry attempt.
LEMMA DryPasses ==
    ASSUME Shape, NEW s \in Symbols, NEW place
    PROVE  Passes(Dry(s, place), s, {place, "gave up"})
  BY DEF Shape, Passes, Dry, IdleLoop

\* A loop behind an account pass.
LEMMA AfterGapPasses ==
    ASSUME Shape, NEW s \in Symbols, NEW b
    PROVE  Passes(AfterGap(s, b), s, {"close", "gap 2", "left"})
<1>1. Passes(Goes(s, "close"), s, {"close"}) /\ Passes(Goes(s, "gap 2"), s, {"gap 2"})
  BY GoesPasses
<1>2. Passes([loop EXCEPT ![s].at = "left", ![s].why = "dry"], s, {"left"})
  BY DEF Shape, Passes, IdleLoop
<1> QED BY <1>1, <1>2 DEF AfterGap, Passes

\* The step is one of s, and its places are among those it may reach.
LEMMA PassesLoops ==
    ASSUME NEW s \in Symbols, main = "loops", main' = main, NEW next, loop' = next,
           NEW places, Passes(next, s, places)
    PROVE  LoopsOf(s) /\ loop'[s].at \in places
  BY DEF Passes, LoopsOf

\* Nothing but a loop moves, and it is not over.
LEMMA QuietHolds ==
    ASSUME ExitInv, NEW s \in Symbols, LoopsOf(s), UNCHANGED <<orders, books>>,
           loop'[s].at # "over",
           loop'[s].at \in Cleared => loop[s].at \in Cleared \/ orders[s] = <<>>
    PROVE  ExitInv'
<1>1. Shape
  BY DEF ExitInv
<1>2. MoveAll /\ BooksStand
  BY <1>1, StandingMoves DEF BooksStand, Shape
<1> QED BY <1>2, LoopHolds

\* What the venue still holds, on a symbol without orders.
LEMMA LeftHolds ==
    ASSUME ExitInv, NEW s \in Symbols, main = "loops", UNCHANGED <<orders, main>>,
           orders[s] = <<>>, NEW size, NEW next, LeftIs(s, size, next),
           Passes(next, s, {"attempt", "gave up"})
    PROVE  ExitInv'
<1>1. Shape
  BY DEF ExitInv
<1>2. CASE size = 0
  <2>1. books' = [books EXCEPT ![s] = Leftover(@, Unattributed)] /\ loop' = Goes(s, "over")
    BY <1>2 DEF LeftIs
  <2>2. LoopsOf(s)
    BY <1>1, <2>1, GoesPasses, PassesLoops
  <2>3. BooksStand
    BY <1>1, <2>1 DEF BooksStand, Shape, Leftover
  <2>4. \A o \in Strategies : books'[s][o] = 0
    BY <1>1, <2>1 DEF Shape, Leftover, Strategies
  <2>5. \A t \in Symbols : t # s => books'[t] = books[t]
    BY <1>1, <2>1 DEF Shape
  <2> QED BY <1>1, <2>2, <2>3, <2>4, <2>5, StandingMoves, LoopHolds
<1>3. CASE size # 0
  <2>1. UNCHANGED books /\ loop' = [next EXCEPT ![s].size = size]
    BY <1>3 DEF LeftIs
  <2>2. Passes([next EXCEPT ![s].size = size], s, {"attempt", "gave up"})
    BY DEF Passes, IdleLoop
  <2>3. LoopsOf(s) /\ loop'[s].at \in {"attempt", "gave up"}
    BY <2>1, <2>2, PassesLoops
  <2> QED BY <2>1, <2>3, QuietHolds
<1> QED BY <1>2, <1>3

\* A loop that waits for its rows, or goes on because it has none.
LEMMA ResumeHolds ==
    ASSUME ExitInv, NEW s \in Symbols, Resume(s) \/ ReadLeft(s) \/ Decided(s)
    PROVE  ExitInv'
<1>1. Shape /\ OrdersAre
  BY DEF ExitInv
<1>2. main = "loops" /\ UNCHANGED <<orders, main>>
  BY DEF Resume, ReadLeft, Decided, At, venueVars
<1>3. OpenRows(s) = {} => orders[s] = <<>>
  BY <1>1, <1>2, NoneOpen DEF Shape, OrdersAre, Cancelled
<1>4. CASE Resume(s) /\ Waits(s)
  <2>1. UNCHANGED books /\ loop' = [loop EXCEPT ![s].at = "verdict", ![s].why = "none", ![s].filled = FALSE]
    BY <1>4 DEF Resume
  <2>2. Passes(loop', s, {"verdict"})
    BY <1>1, <2>1 DEF Passes, Shape, IdleLoop
  <2>3. LoopsOf(s) /\ loop'[s].at = "verdict"
    BY <1>2, <2>2 DEF Passes, LoopsOf
  <2> QED BY <1>2, <2>1, <2>3, QuietHolds DEF Cleared
<1>5. CASE Resume(s) /\ ~Waits(s)
  <2>1. LeftIs(s, loop[s].size, Goes(s, "attempt"))
    BY <1>5 DEF Resume
  <2>2. Passes(Goes(s, "attempt"), s, {"attempt", "gave up"})
    <3>1. Passes(Goes(s, "attempt"), s, {"attempt"})
      BY <1>1, GoesPasses
    <3> QED BY <3>1 DEF Passes
  <2> QED BY <1>2, <1>3, <1>5, <2>1, <2>2, LeftHolds DEF Waits
<1>6. CASE ReadLeft(s)
  <2>1. LeftIs(s, pos[s], IF loop[s].why = "dry" THEN Dry(s, "attempt") ELSE Goes(s, "attempt"))
    BY <1>6 DEF ReadLeft
  <2>2. Passes(IF loop[s].why = "dry" THEN Dry(s, "attempt") ELSE Goes(s, "attempt"), s,
               {"attempt", "gave up"})
    <3>1. Passes(Dry(s, "attempt"), s, {"attempt", "gave up"})
      BY <1>1, DryPasses
    <3>2. Passes(Goes(s, "attempt"), s, {"attempt"})
      BY <1>1, GoesPasses
    <3> QED BY <3>1, <3>2 DEF Passes
  <2>3. orders[s] = <<>>
    BY <1>1, <1>6 DEF ReadLeft, At, OrdersAre, Cleared
  <2> QED BY <1>2, <2>1, <2>2, <2>3, LeftHolds
<1>7. CASE Decided(s)
  <2>1. UNCHANGED books /\ ~Waits(s)
        /\ loop' = [loop EXCEPT ![s].at = "left", ![s].dry = DryAfter(loop[s]),
                                ![s].why = IF loop[s].filled THEN "none" ELSE @]
    BY <1>7 DEF Decided
  <2>2. Passes(loop', s, {"left"})
    BY <1>1, <2>1 DEF Passes, Shape, IdleLoop
  <2>3. LoopsOf(s) /\ loop'[s].at = "left"
    BY <1>2, <2>2 DEF Passes, LoopsOf
  <2> QED BY <1>2, <1>3, <2>1, <2>3, QuietHolds DEF Waits
<1> QED BY <1>4, <1>5, <1>6, <1>7

\* A pass over the orders, whole or cut short.
LEMMA PassHolds ==
    ASSUME ExitInv, NEW s \in Symbols, Pass(s) \/ PassFails(s)
    PROVE  ExitInv'
<1>1. Shape /\ OrdersAre
  BY DEF ExitInv
<1>2. PICK seen, short, next, new :
         /\ Adopts(seen, short)
         /\ loop' = LoopsSee(next, new)
         /\ next \in {Dry(s, "verdict"), loop}
  BY DEF Pass, PassFails
<1>3. main = "loops" /\ main' = main /\ loop[s].at = "verdict"
  BY DEF Pass, PassFails, At
<1>4. Passes(next, s, {"verdict", "gave up"})
  <2>1. Passes(Dry(s, "verdict"), s, {"verdict", "gave up"})
    BY <1>1, DryPasses
  <2>2. Passes(loop, s, {"verdict", "gave up"})
    BY <1>1, <1>3 DEF Passes, Shape
  <2> QED BY <1>2, <2>1, <2>2
<1>5. Passes(LoopsSee(next, new), s, {"verdict", "gave up"})
  BY <1>4 DEF Passes, LoopsSee, IdleLoop
<1>6. LoopsOf(s) /\ loop'[s].at \in {"verdict", "gave up"}
  BY <1>2, <1>3, <1>5, PassesLoops
<1>7. /\ MoveAll /\ BooksStand
      /\ \A t \in Symbols : orders[t] = <<>> => books'[t] = books[t]
  BY <1>1, <1>2, AdoptsMove DEF BooksStand
<1> QED BY <1>6, <1>7, LoopHolds DEF Cleared

\* The attempt and its account passes: books move in the unattributed partition.
LEMMA GapHolds ==
    ASSUME ExitInv, NEW s \in Symbols,
           Attempt(s) \/ AccountRead(s) \/ AccountFails(s) \/ ReadLeftFails(s)
    PROVE  ExitInv'
<1>1. Shape /\ OrdersAre
  BY DEF ExitInv
<1>2. main = "loops" /\ UNCHANGED <<orders, books, main>> /\ loop[s].at \in Cleared
  BY DEF Attempt, AccountRead, AccountFails, ReadLeftFails, AtGap, At, Cleared, venueVars
<1>3. Passes(loop', s, {"close", "gap 1", "gap 2", "left", "gave up"})
  <2>1. CASE Attempt(s)
    <3>1. CASE loop' = Goes(s, IF HeldIn(books[s]) = loop[s].size THEN "close" ELSE "gap 1")
      <4>1. PICK place : /\ place = IF HeldIn(books[s]) = loop[s].size THEN "close" ELSE "gap 1"
                         /\ place \in {"close", "gap 1"}
        OBVIOUS
      <4>2. Passes(Goes(s, place), s, {place}) /\ loop' = Goes(s, place)
        BY <1>1, <3>1, <4>1, GoesPasses
      <4> QED BY <4>1, <4>2 DEF Passes
    <3>2. CASE loop' = [loop EXCEPT ![s].at = "left", ![s].why = "dry"]
      BY <1>1, <3>2 DEF Passes, Shape, IdleLoop
    <3> QED BY <2>1, <3>1, <3>2 DEF Attempt
  <2>2. CASE AccountRead(s)
    BY <1>1, <2>2 DEF AccountRead, AtGap, At, Passes, Shape
  <2>3. CASE AccountFails(s)
    <3>1. loop' = AfterGap(s, books)
      BY <2>3 DEF AccountFails
    <3>2. Passes(AfterGap(s, books), s, {"close", "gap 2", "left"})
      BY <1>1, AfterGapPasses
    <3> QED BY <3>1, <3>2 DEF Passes
  <2>4. CASE ReadLeftFails(s)
    <3>1. loop' \in {Dry(s, "left"), Goes(s, "left")}
      BY <2>4 DEF ReadLeftFails, ReadFailed
    <3>2. Passes(Dry(s, "left"), s, {"left", "gave up"}) /\ Passes(Goes(s, "left"), s, {"left"})
      BY <1>1, DryPasses, GoesPasses
    <3> QED BY <3>1, <3>2 DEF Passes
  <2> QED BY <2>1, <2>2, <2>3, <2>4
<1>4. LoopsOf(s) /\ loop'[s].at # "over"
  BY <1>2, <1>3 DEF Passes, LoopsOf
<1> QED BY <1>2, <1>4, QuietHolds

\* A gap is healed in the unattributed partition.
LEMMA JudgedHolds ==
    ASSUME ExitInv, NEW s \in Symbols, AccountJudged(s)
    PROVE  ExitInv'
<1>1. Shape /\ OrdersAre
  BY DEF ExitInv
<1>2. PICK healed, b :
         /\ books' = b /\ b = Heal(books, healed)
         /\ loop' = AfterGap(s, b)
  BY DEF AccountJudged
<1>3. main = "loops" /\ UNCHANGED <<orders, main>> /\ loop[s].at \in Cleared
  BY DEF AccountJudged, AtGap, At, Cleared, venueVars
<1>4. Passes(AfterGap(s, b), s, {"close", "gap 2", "left"})
  BY <1>1, AfterGapPasses
<1>5. LoopsOf(s) /\ loop'[s].at # "over"
  BY <1>2, <1>3, <1>4 DEF Passes, LoopsOf
<1>6. BooksStand /\ \A t \in Symbols, o \in Strategies : books'[t][o] = books[t][o]
  BY <1>1, <1>2 DEF Heal, BooksStand, Shape, Strategies
<1>7. MoveAll
  BY <1>1, <1>3, StandingMoves
<1> QED BY <1>3, <1>5, <1>6, <1>7, LoopHolds

\* The close is the only order of its symbol.
LEMMA CloseHolds ==
    ASSUME ExitInv, NEW s \in Symbols, Close(s)
    PROVE  ExitInv'
<1>1. Shape /\ OrdersAre /\ FlatIs
  BY DEF ExitInv
<1>2. main = "loops" /\ main' = main /\ UNCHANGED books /\ loop[s].at = "close"
  BY DEF Close, At
<1>3. CASE UNCHANGED orders /\ loop' = [loop EXCEPT ![s].at = "verdict", ![s].why = "dry",
                                                    ![s].filled = FALSE]
  <2>1. Passes(loop', s, {"verdict"})
    BY <1>1, <1>3 DEF Passes, Shape, IdleLoop
  <2>2. LoopsOf(s) /\ loop'[s].at = "verdict"
    BY <1>2, <2>1 DEF Passes, LoopsOf
  <2> QED BY <1>2, <1>3, <2>2, QuietHolds DEF Cleared
<1>4. CASE \E split : /\ orders' = [orders EXCEPT ![s] = Append(@, NewClose(loop[s].size, split))]
                      /\ loop' = [loop EXCEPT ![s].at = "sent", ![s].why = "dry",
                                              ![s].filled = FALSE]
  <2>1. PICK o, split : /\ o = NewClose(loop[s].size, split)
                        /\ orders' = [orders EXCEPT ![s] = Append(@, o)]
    BY <1>4
  <2>2. Passes(loop', s, {"sent"})
    BY <1>1, <1>4 DEF Passes, Shape, IdleLoop
  <2>3. orders[s] = <<>>
    BY <1>1, <1>2 DEF OrdersAre, Cleared
  <2>4. orders'[s] = <<o>>
    BY <1>1, <2>1, <2>3 DEF Shape
  <2>5. DOMAIN o = Fields /\ OpenRow(o) /\ Stays(o) /\ o.venue # "resting"
    BY <2>1 DEF NewClose, Fields, OpenRow, Stays
  <2>6. PICK one : one = <<o>>
    OBVIOUS
  <2>7. DOMAIN one = 1..1 /\ one = [i \in 1..1 |-> one[i]] /\ one[1] = o
    BY <2>6
  <2>8. Listing(one) /\ Live(one) /\ NothingRests(one)
    <3>1. \A i \in DOMAIN one : i = 1
      BY <2>7
    <3>2. \E n \in Nat : one = [i \in 1..n |-> one[i]]
      BY <2>7
    <3> QED BY <2>5, <2>7, <3>1, <3>2 DEF Listing, Live, NothingRests
  <2>9. DOMAIN orders' = Symbols
        /\ \A t \in Symbols : t # s => orders'[t] = orders[t] /\ loop'[t].at = loop[t].at
    BY <1>1, <2>1, <2>2 DEF Shape, Passes
  <2>10. \A t \in Symbols : Listing(orders'[t])
    BY <1>1, <2>4, <2>6, <2>8, <2>9 DEF Shape
  <2>11. Shape'
    BY <1>1, <1>2, <2>2, <2>9, <2>10 DEF Shape, Passes, Listing, IdleLoop
  <2>12. \A t \in Symbols : Live(orders'[t]) /\ NothingRests(orders'[t])
    BY <1>1, <1>2, <2>4, <2>6, <2>8, <2>9 DEF OrdersAre, Cancelled
  <2>13. loop'[s].at = "sent"
    BY <2>2 DEF Passes
  <2>14. \A t \in Symbols : loop'[t].at \in Cleared => orders'[t] = <<>>
    BY <1>1, <2>9, <2>13 DEF OrdersAre, Cleared
  <2>15. OrdersAre'
    BY <2>12, <2>14 DEF OrdersAre, Live, NothingRests
  <2>16. FlatIs'
    BY <1>1, <1>2, <2>9, <2>13 DEF FlatIs, Strategies
  <2> QED BY <2>11, <2>15, <2>16 DEF ExitInv
<1>5. \/ UNCHANGED orders /\ loop' = [loop EXCEPT ![s].at = "verdict", ![s].why = "dry",
                                                   ![s].filled = FALSE]
      \/ \E split : /\ orders' = [orders EXCEPT ![s] = Append(@, NewClose(loop[s].size, split))]
                    /\ loop' = [loop EXCEPT ![s].at = "sent", ![s].why = "dry",
                                            ![s].filled = FALSE]
  BY DEF Close
<1> QED BY <1>3, <1>4, <1>5

\* The answer to a close.
LEMMA AnswerHolds ==
    ASSUME ExitInv, NEW s \in Symbols, Answer(s) \/ AnswerFails(s)
    PROVE  ExitInv'
<1>1. Shape
  BY DEF ExitInv
<1>2. main = "loops" /\ main' = main
  BY DEF Answer, AnswerFails, At
<1>3. /\ MoveAll /\ BooksStand
      /\ \A t \in Symbols : t # s => books'[t] = books[t]
  BY <1>1, AnswerMoves DEF BooksStand
<1>4. \/ \E filled : loop' = [loop EXCEPT ![s].at = "verdict", ![s].filled = filled]
      \/ loop' = Goes(s, "verdict")
      \/ NoAnswer(s)
  BY DEF Answer, AnswerFails
<1>5. Passes(loop', s, {"verdict"})
  BY <1>1, <1>4 DEF Passes, Shape, IdleLoop, Goes, NoAnswer
<1>6. LoopsOf(s) /\ loop'[s].at = "verdict"
  BY <1>2, <1>5 DEF Passes, LoopsOf
<1> QED BY <1>3, <1>6, LoopHolds DEF Cleared

\* A crash keeps the orders and forgets the loops.
LEMMA CrashHolds ==
    ASSUME ExitInv, Crash
    PROVE  ExitInv'
<1>1. Shape
  BY DEF ExitInv
<1>2. /\ main' = "boot" /\ UNCHANGED books /\ loop' = [s \in Symbols |-> IdleLoop]
      /\ orders' = [s \in Symbols |->
                        [i \in DOMAIN orders[s] |-> [orders[s][i] EXCEPT !.seen = -1]]]
  BY DEF Crash
<1>3. ASSUME NEW s \in Symbols PROVE Listing(orders'[s])
  <2>1. PICK new : new = [i \in DOMAIN orders[s] |-> [orders[s][i] EXCEPT !.seen = -1]]
    OBVIOUS
  <2>2. DOMAIN new = DOMAIN orders[s] /\ \E n \in Nat : DOMAIN new = 1..n
    BY <1>1, <2>1 DEF Shape, Listing
  <2>3. \A i \in DOMAIN new : DOMAIN orders[s][i] = Fields
    BY <1>1, <2>2 DEF Shape, Listing
  <2>4. \A i \in DOMAIN new : DOMAIN new[i] = Fields /\ new[i].kind = orders[s][i].kind
    BY <2>1, <2>2, <2>3 DEF Fields
  <2>5. \A i, j \in DOMAIN orders[s] :
           orders[s][i].kind = "close" /\ orders[s][j].kind = "close" => i = j
    BY <1>1 DEF Shape, Listing
  <2>6. \E n \in Nat : new = [i \in 1..n |-> new[i]]
    BY <2>1, <2>2
  <2>7. Listing(new)
    BY <2>2, <2>4, <2>5, <2>6 DEF Listing
  <2> QED BY <1>2, <2>1, <2>7
<1>4. Shape'
  BY <1>1, <1>2, <1>3 DEF Shape, Listing, IdleLoop
<1>5. OrdersAre' /\ FlatIs'
  BY <1>2 DEF OrdersAre, FlatIs, IdleLoop, Cancelled, Cleared
<1> QED BY <1>4, <1>5 DEF ExitInv

-----------------------------------------------------------------------------
\* The theorems.

LEMMA ExitInit ==
    ASSUME Init
    PROVE  ExitInv
<1>1. PICK scene \in Scenarios : books = scene.books /\ orders = scene.orders
  BY DEF Init
<1>2. main = "boot" /\ loop = [s \in Symbols |-> IdleLoop]
  BY DEF Init
<1>3. books \in [Symbols -> [Owners -> Int]] /\ orders \in [Symbols -> Seq(Found)]
  BY <1>1, FlattenAssumption
<1>4. ASSUME NEW s \in Symbols PROVE Listing(orders[s])
  <2>1. orders[s] \in Seq(Found)
    BY <1>3
  <2>2. Len(orders[s]) \in Nat /\ orders[s] = [i \in 1..Len(orders[s]) |-> orders[s][i]]
    BY <2>1
  <2>3. \A i \in DOMAIN orders[s] : orders[s][i] \in Found
    BY <2>1
  <2>4. \A o \in Found : DOMAIN o = Fields /\ o.kind # "close"
    BY DEF Found, Fields
  <2>5. \A i \in DOMAIN orders[s] : DOMAIN orders[s][i] = Fields /\ orders[s][i].kind # "close"
    BY <2>3, <2>4
  <2> QED BY <2>2, <2>5 DEF Listing
<1>5. Shape
  BY <1>2, <1>3, <1>4 DEF Shape
<1>6. OrdersAre /\ FlatIs
  BY <1>2 DEF OrdersAre, FlatIs, IdleLoop, Cancelled, Cleared
<1> QED BY <1>5, <1>6 DEF ExitInv

\* Every step keeps the invariant.
LEMMA ExitStep ==
    ASSUME ExitInv, [Next]_vars
    PROVE  ExitInv'
<1>1. Shape
  BY DEF ExitInv
<1>2. CASE UNCHANGED vars
  <2>1. UNCHANGED <<orders, books, main, loop>>
    BY <1>2 DEF vars, venueVars
  <2>2. MoveAll
    BY <1>1, <2>1, StandingMoves
  <2> QED BY <2>1, <2>2, RunHolds
<1>3. CASE Run
  BY <1>3, RunSteps
<1>4. ASSUME NEW s \in Symbols, LoopStep(s) PROVE ExitInv'
  BY <1>4, ResumeHolds, PassHolds, GapHolds, JudgedHolds, CloseHolds, AnswerHolds DEF LoopStep
<1>5. CASE Venue
  <2>1. MoveAll /\ UNCHANGED <<books, main, loop>>
    BY <1>1, <1>5, VenueMoves
  <2> QED BY <2>1, RunHolds
<1>6. CASE Crash
  BY <1>6, CrashHolds
<1> QED BY <1>2, <1>3, <1>4, <1>5, <1>6 DEF Next

\* Every reachable state of a flatten run is as ExitInv says.
THEOREM ExitInvariant == Spec => []ExitInv
<1>1. Init => ExitInv
  BY ExitInit
<1>2. ExitInv /\ [Next]_vars => ExitInv'
  BY ExitStep
<1> QED BY <1>1, <1>2, PTL DEF Spec

\* A symbol never has two closes that could both trade or still be booked, however
\* many answers are lost, passes fail and runs die (exit_run.py, _attempt).
THEOREM CloseIsAlone == Spec => []OneCloseASymbol
<1>1. ASSUME ExitInv PROVE OneCloseASymbol
  <2> SUFFICES ASSUME NEW s \in Symbols
               PROVE  Cardinality({i \in DOMAIN orders[s] : orders[s][i].kind = "close"}) <= 1
    BY DEF OneCloseASymbol
  <2> DEFINE closes == {i \in DOMAIN orders[s] : orders[s][i].kind = "close"}
  <2>1. \A i, j \in closes : i = j
    BY <1>1 DEF ExitInv, Shape, Listing
  <2>2. closes = {} \/ \E i : closes = {i}
    BY <2>1
  <2>3. Cardinality(closes) \in {0, 1}
    BY <2>2, FS_EmptySet, FS_Singleton
  <2> QED BY <2>3
<1> QED BY <1>1, ExitInvariant, PTL

\* A run that says done left every strategy flat on the symbols it had a loop for,
\* and no fill there that a later life would book on one.
THEOREM DoneLeavesFlat == Spec => []DoneIsFlat
<1>1. ASSUME ExitInv PROVE DoneIsFlat
  <2> SUFFICES ASSUME main = "done", NEW s \in Symbols, loop[s].at # "out"
               PROVE  /\ \A o \in Strategies : books[s][o] = 0
                      /\ \A i \in DOMAIN orders[s] : orders[s][i].exec = orders[s][i].cum
    BY DEF DoneIsFlat
  <2>1. loop[s].at = "over"
    BY <1>1 DEF ExitInv, FlatIs
  <2>2. orders[s] = <<>>
    BY <1>1, <2>1 DEF ExitInv, OrdersAre, Cleared
  <2>3. \A o \in Strategies : books[s][o] = 0
    BY <1>1, <2>1 DEF ExitInv, FlatIs
  <2> QED BY <2>2, <2>3
<1> QED BY <1>1, ExitInvariant, PTL

\* The step that ends a symbol's loop leaves the orders alone.
LEMMA OverStands ==
    ASSUME Shape, Next, NEW s \in Symbols, loop'[s].at = "over", loop[s].at # "over"
    PROVE  UNCHANGED orders
<1>1. CASE Run
  <2>1. UNCHANGED loop \/ UNCHANGED orders
    BY <1>1 DEF Run, BootReads, Trip, ReadOrders, CancelRound, ReadPositions, LoopsEnd,
       FinalOrders, FinalPositions, venueVars
  <2> QED BY <2>1
<1>2. ASSUME NEW t \in Symbols, LoopStep(t) PROVE UNCHANGED orders
  <2>1. CASE Pass(t) \/ PassFails(t)
    <3>1. PICK next, new : loop' = LoopsSee(next, new) /\ next \in {Dry(t, "verdict"), loop}
      BY <2>1 DEF Pass, PassFails
    <3>2. next[s].at \in {loop[s].at, "verdict", "gave up"} /\ DOMAIN next[s] = DOMAIN IdleLoop
      <4>1. DOMAIN loop = Symbols /\ DOMAIN loop[s] = {"at", "size", "dry", "filled", "why"}
        BY DEF Shape, IdleLoop
      <4>2. CASE next = loop
        BY <4>1, <4>2 DEF IdleLoop
      <4>3. CASE next = Dry(t, "verdict")
        <5>1. PICK place, d : next = [loop EXCEPT ![t].dry = d, ![t].at = place]
                              /\ place \in {"verdict", "gave up"}
          BY <4>3 DEF Dry
        <5>2. DOMAIN next[s] = DOMAIN loop[s] /\ next[s].at \in {loop[s].at, place}
          BY <4>1, <5>1
        <5> QED BY <4>1, <5>1, <5>2 DEF IdleLoop
      <4> QED BY <3>1, <4>2, <4>3
    <3>3. loop'[s].at = next[s].at
      BY <3>1, <3>2 DEF LoopsSee, IdleLoop
    <3> QED BY <3>2, <3>3
  <2>2. CASE Close(t)
    <3>1. \E place \in {"verdict", "sent"} :
             loop' = [loop EXCEPT ![t].at = place, ![t].why = "dry", ![t].filled = FALSE]
      BY <2>2 DEF Close
    <3>2. loop'[s].at \in {loop[s].at, "verdict", "sent"}
      BY <3>1 DEF Shape, IdleLoop
    <3> QED BY <3>2
  <2>3. CASE Answer(t) \/ AnswerFails(t)
    <3>1. \/ \E filled : loop' = [loop EXCEPT ![t].at = "verdict", ![t].filled = filled]
          \/ loop' = Goes(t, "verdict")
          \/ NoAnswer(t)
      BY <2>3 DEF Answer, AnswerFails
    <3>2. loop'[s].at \in {loop[s].at, "verdict"}
      BY <3>1 DEF Shape, IdleLoop, Goes, NoAnswer
    <3> QED BY <3>2
  <2> QED BY <1>2, <2>1, <2>2, <2>3
       DEF LoopStep, Resume, Decided, Attempt, AccountRead, AccountJudged, AccountFails,
           ReadLeft, ReadLeftFails, venueVars
<1>3. CASE Venue
  <2>1. UNCHANGED loop
    BY <1>3, VenueMoves
  <2> QED BY <2>1
<1>4. CASE Crash
  BY <1>4 DEF Crash, IdleLoop
<1> QED BY <1>1, <1>2, <1>3, <1>4 DEF Next

\* What the strategies hold moves away only once no row of the symbol is open
\* (exit_run.py, _left).
THEOREM LeftoverIsLast == Spec => LeftoverMovesLast
<1>1. ASSUME ExitInv, ExitInv', [Next]_vars, ~UNCHANGED vars,
             NEW s \in Symbols, loop'[s].at = "over", loop[s].at # "over"
      PROVE  OpenRows(s) = {}
  <2>1. orders'[s] = <<>>
    BY <1>1 DEF ExitInv, OrdersAre, Cleared
  <2>2. UNCHANGED orders
    <3>1. Next
      BY <1>1 DEF vars
    <3> QED BY <1>1, <3>1, OverStands DEF ExitInv
  <2> QED BY <2>1, <2>2 DEF OpenRows
<1>2. ExitInv /\ ExitInv' /\ [Next]_vars =>
         [\A s \in Symbols :
             (loop'[s].at = "over" /\ loop[s].at # "over") => OpenRows(s) = {}]_vars
  BY <1>1
<1>3. LeftoverMovesLast <=>
         [][\A s \in Symbols :
               (loop'[s].at = "over" /\ loop[s].at # "over") => OpenRows(s) = {}]_vars
  BY DEF LeftoverMovesLast
<1> QED BY <1>2, <1>3, ExitInvariant, PTL DEF Spec
=============================================================================
