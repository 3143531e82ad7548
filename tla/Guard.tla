-------------------------------- MODULE Guard --------------------------------
(***************************************************************************)
(* The pre-trade guard of engine/guard.py as pure operators: what it denies*)
(* and what an approval leaves in the rate cap's window.  Sizes and prices *)
(* are small integers; a signal's raw size is counted in LotUnits-ths of a *)
(* lot, and prices are on the venue's grid already.                        *)
(*                                                                         *)
(* An operator that stands before the one it is named after is a plausible *)
(* bug in it, for the sensitivity runs of PROJECT.json; no specification   *)
(* uses it.                                                                *)
(***************************************************************************)
EXTENDS Integers, Sequences, FiniteSetsExt

CONSTANTS
    LotUnits,       \* raw units per lot: quantize_size rounds down to lots
    MinNotional,    \* of the instrument's spec
    MaxOrderSize,   \* SymbolLimits
    MaxOrderValue,
    MaxPosition,
    MarkMaxAge,     \* PreTradeLimits.mark_max_age_seconds
    MaxOrders,      \* RateCap
    Window

ASSUME GuardAssumption ==
    /\ LotUnits \in Nat \ {0} /\ MinNotional \in Nat /\ MarkMaxAge \in Nat
    /\ MaxOrderSize \in Nat \ {0} /\ MaxOrderValue \in Nat \ {0}
    /\ MaxPosition \in Nat \ {0}
    /\ MaxOrders \in Nat \ {0} /\ Window \in Nat \ {0}

Abs(n) == IF n < 0 THEN -n ELSE n

Direction(side) == IF side = "buy" THEN 1 ELSE -1

\* FLATTEN is a reduce-only order of the operator's.
OrderKind(signal) ==
    IF ~signal.reduceOnly THEN "plain"
    ELSE IF signal.operator THEN "flatten" ELSE "reduce_only"

QuantizeSize(raw) == raw \div LotUnits

\* Ending at zero is a full close, not a cross.
Shrinks(before, after) ==
    /\ Abs(after) < Abs(before)
    /\ after = 0 \/ (after > 0) = (before > 0)

\* Only a reduce-only order that covers the whole net may be under the minimum.
MinNotionalRefuses(price, size, side, reduceOnly, net) ==
    /\ price * size < MinNotional
    /\ ~( /\ reduceOnly
          /\ Direction(side) * net < 0
          /\ size >= Abs(net) )

WorstCaseOfNetOnly(signal, reading) == reading.accountNet

\* The position once every open order on the signal's side has filled.
Before(signal, reading) ==
    reading.accountNet + Direction(signal.side) * reading.openRemainder

WorstCase(signal, reading) ==
    Before(signal, reading) + Direction(signal.side) * QuantizeSize(signal.raw)

Reduces(signal, reading) ==
    Shrinks(Before(signal, reading), WorstCase(signal, reading))

\* A strategy's reduce-only order must shrink its own worst case too.
GrowsItsOwn(signal, reading) ==
    LET own == reading.strategyNet + Direction(signal.side) * reading.openRemainder
    IN  /\ OrderKind(signal) = "reduce_only"
        /\ ~Shrinks(own, own + Direction(signal.side) * QuantizeSize(signal.raw))

SkipsCaps(signal, reading) ==
    Reduces(signal, reading) \/ OrderKind(signal) # "plain"

\* A buy limit is worth its own price; a market order the mark; a sell limit
\* whichever is higher.  Without a fresh mark nothing proves that it fits.
AboveMaxValue(signal, reading, now) ==
    LET needsMark == signal.type = "market" \/ signal.side = "sell"
        noMark == reading.mark.price = 0 \/ now - reading.mark.at > MarkMaxAge
        value == IF ~needsMark THEN signal.price
                 ELSE IF signal.type = "market" THEN reading.mark.price
                 ELSE Max({signal.price, reading.mark.price})
    IN  (needsMark /\ noMark) \/ QuantizeSize(signal.raw) * value > MaxOrderValue

\* Slots leave the window from its oldest end, and stop at the first still in it.
InWindow(approved, now) ==
    LET live == {i \in DOMAIN approved : now - approved[i] < Window}
    IN  IF live = {} THEN <<>> ELSE SubSeq(approved, Min(live), Len(approved))

RateLimited(signal, approved, now) ==
    /\ OrderKind(signal) # "flatten"
    /\ Len(InWindow(approved, now)) >= MaxOrders

\* Why check answers Denied, the rate cap apart: it is the last check, so an
\* order denied for another reason takes no slot.
Refused(signal, reading, tripped, now) ==
    \/ tripped /\ OrderKind(signal) # "flatten"
    \/ QuantizeSize(signal.raw) = 0
    \/ /\ signal.type = "limit"
       /\ MinNotionalRefuses(signal.price, QuantizeSize(signal.raw), signal.side,
                             signal.reduceOnly, reading.accountNet)
    \/ GrowsItsOwn(signal, reading)
    \/ /\ ~SkipsCaps(signal, reading)
       /\ \/ QuantizeSize(signal.raw) > MaxOrderSize
          \/ AboveMaxValue(signal, reading, now)
          \/ Abs(WorstCase(signal, reading)) > MaxPosition

Approves(signal, reading, tripped, approved, now) ==
    /\ ~Refused(signal, reading, tripped, now)
    /\ ~RateLimited(signal, approved, now)

\* Flatten paces itself and takes no slot.
AfterApproval(signal, approved, now) ==
    IF OrderKind(signal) = "flatten" THEN approved
    ELSE Append(InWindow(approved, now), now)
==============================================================================
