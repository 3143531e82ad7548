------------------------------ MODULE OrderSaga ------------------------------
(***************************************************************************)
(* The order saga of domain/order.py as pure operators: the legal state    *)
(* transitions, how a saga absorbs a status event or a fill exactly once,  *)
(* and how a cancel request marks it.  A trade moves one lot, so a fill is *)
(* its trade id; quantities are numbers of lots.                           *)
(*                                                                         *)
(* An operator that stands before the one it is named after (SeenFillNever *)
(* before SeenFill) is a plausible bug in it, for the sensitivity runs of  *)
(* PROJECT.json; no specification uses it.                                 *)
(***************************************************************************)
EXTENDS Integers

OrderStates ==
    { "PENDING", "SUBMITTED", "LIVE", "PARTIALLY_FILLED", "FILLED",
      "CANCELLED", "DENIED", "REJECTED", "FAILED" }

LegalTransitions ==
    ({"PENDING"} \X {"SUBMITTED", "DENIED", "FAILED"})
    \cup ({"SUBMITTED"} \X {"LIVE", "PARTIALLY_FILLED", "FILLED",
                            "CANCELLED", "REJECTED", "FAILED"})
    \cup ({"LIVE"} \X {"PARTIALLY_FILLED", "FILLED", "CANCELLED", "REJECTED"})
    \cup ({"PARTIALLY_FILLED"} \X {"PARTIALLY_FILLED", "FILLED", "CANCELLED"})

TerminalStates == {"FILLED", "CANCELLED", "DENIED", "REJECTED", "FAILED"}

WorkingStates == {"LIVE", "PARTIALLY_FILLED"}

\* A saga row: its state, the applied event ids (the states entered by a
\* status event, and the trade ids booked), the cumulative quantity, the
\* cancel marker and whether the venue's oid is known.
Saga(lots) ==
    [ st      : OrderStates \cup {"none"},
      entered : SUBSET OrderStates,
      fills   : SUBSET (1..lots),
      cum     : Nat,
      cancel  : BOOLEAN,
      oid     : BOOLEAN ]

NoSaga == [ st |-> "none", entered |-> {}, fills |-> {}, cum |-> 0,
            cancel |-> FALSE, oid |-> FALSE ]

NewOrder == [NoSaga EXCEPT !.st = "PENDING"]

IsTerminal(order) == order.st \in TerminalStates

IsOpen(order) == order.st # "none" /\ ~IsTerminal(order)

\* An applied event id makes a redelivery a no-op, whatever the state is.
SeenStatus(order, target) == target \in order.entered

SeenFillNever(order, trade) == FALSE

SeenFill(order, trade) == trade \in order.fills

MayEnter(order, target) == <<order.st, target>> \in LegalTransitions

ApplyStatus(order, target, oid) ==
    [order EXCEPT !.st = target,
                  !.entered = @ \cup {target},
                  !.oid = @ \/ oid]

FillTargetOneShort(order, lots) ==
    IF order.cum >= lots THEN "FILLED" ELSE "PARTIALLY_FILLED"

\* FILLED or PARTIALLY_FILLED is chosen by the quantity the fill would reach.
FillTarget(order, lots) ==
    IF order.cum + 1 >= lots THEN "FILLED" ELSE "PARTIALLY_FILLED"

ApplyFillUnrecorded(order, trade, lots) ==
    [order EXCEPT !.st = FillTarget(order, lots), !.cum = @ + 1]

ApplyFill(order, trade, lots) ==
    [order EXCEPT !.st = FillTarget(order, lots),
                  !.fills = @ \cup {trade},
                  !.cum = @ + 1]

\* request_cancel answers FALSE, and marks nothing, on a terminal saga and on
\* one already marked.
MayRequestCancel(order) == ~IsTerminal(order) /\ ~order.cancel
RequestCancel(order) == [order EXCEPT !.cancel = TRUE]
==============================================================================
