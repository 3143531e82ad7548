---------------------------- MODULE OrderContract ----------------------------
(***************************************************************************)
(* What the durable order rows promise, told without the bus, the memory,  *)
(* the requests, the reads or the crashes: each row is a record of what    *)
(* became of one order in the market.  It is written before the order sets *)
(* out, once, it moves along the legal transitions only, it books each     *)
(* trade once and none that did not happen, and it ends only as the market *)
(* says the order ended, or, once the market has forgotten an order, that  *)
(* it ended.  One verdict may be wrong: an order whose fate was asked for  *)
(* while it was still coming is overdue, and an overdue order may be       *)
(* failed and land all the same.                                           *)
(***************************************************************************)
EXTENDS OrderSaga

CONSTANTS Cloids, Lots

VARIABLES
    saga,   \* the rows: the state, and how many lots are booked
    market, \* the orders: their state, how many lots have traded, whether the market
            \* keeps a record, whether the placement is still coming
    overdue \* the orders whose fate was asked for while they were still coming

vars == <<saga, market, overdue>>

Init ==
    /\ saga = [c \in Cloids |-> [st |-> "none", booked |-> 0]]
    /\ market = [c \in Cloids |->
                    [st |-> "absent", fills |-> 0, kept |-> FALSE, coming |-> FALSE]]
    /\ overdue = {}

Enter(c, st) == saga' = [saga EXCEPT ![c].st = st]

\* The row of an order that does not set out, and of one that does.
Withhold(c) ==
    /\ saga[c].st = "none"
    /\ \E st \in {"SUBMITTED", "DENIED"} : Enter(c, st)
    /\ UNCHANGED <<market, overdue>>

SetOut(c) ==
    /\ saga[c].st = "none"
    /\ Enter(c, "PENDING")
    /\ market' = [market EXCEPT ![c].coming = TRUE]
    /\ UNCHANGED overdue

\* An order lands once, and only while its row says it may be on its way, or that
\* it failed when it was overdue.
Land(c) ==
    /\ market[c].coming
    /\ market[c].st = "absent"
    /\ saga[c].st \in {"PENDING", "SUBMITTED"} \/ (saga[c].st = "FAILED" /\ c \in overdue)
    /\ \E st \in {"open", "filled", "rejected"}, n \in 0..Lots :
          /\ st = "open" => n < Lots
          /\ st = "filled" => n = Lots
          /\ st = "rejected" => n = 0
          /\ market' = [market EXCEPT ![c] =
                           [st |-> st, fills |-> n, kept |-> TRUE, coming |-> FALSE]]
    /\ UNCHANGED <<saga, overdue>>

GoAstray(c) ==
    /\ market[c].coming
    /\ market' = [market EXCEPT ![c].coming = FALSE]
    /\ UNCHANGED <<saga, overdue>>

Trade(c) ==
    /\ market[c].st = "open"
    /\ market' = [market EXCEPT ![c].fills = @ + 1,
                                ![c].st = IF market[c].fills + 1 = Lots THEN "filled" ELSE "open"]
    /\ UNCHANGED <<saga, overdue>>

End(c) ==
    /\ market[c].st = "open"
    /\ market' = [market EXCEPT ![c].st = "cancelled"]
    /\ UNCHANGED <<saga, overdue>>

\* An order that has ended may drop out of the market's records.
Forget(c) ==
    /\ market[c].st \in {"filled", "cancelled", "rejected"}
    /\ market' = [market EXCEPT ![c].kept = FALSE]
    /\ UNCHANGED <<saga, overdue>>

\* Its fate is asked for too early, and the question is dropped again.
FallDue(c) ==
    /\ market[c].coming
    /\ overdue' = overdue \cup {c}
    /\ UNCHANGED <<saga, market>>

Relent ==
    /\ overdue' \subseteq overdue
    /\ UNCHANGED <<saga, market>>

\* An order the market does not remember, so that nothing tells how it ended.
Forgotten(c) == market[c].st # "absent" /\ ~market[c].kept

\* The market facts that let a row enter a state without a trade.
Proof(c, st) ==
    CASE st = "SUBMITTED" -> TRUE
      [] st = "LIVE"      -> market[c].st \notin {"absent", "rejected"}
      [] st = "CANCELLED" -> market[c].st = "cancelled" \/ Forgotten(c)
      [] st = "REJECTED"  -> market[c].st = "rejected" \/ Forgotten(c)
      [] st = "FAILED"    -> market[c].st = "absent" \/ Forgotten(c) \/ c \in overdue
      [] OTHER            -> FALSE

Move(c) == \E st \in OrderStates :
    MayEnter(saga[c], st) /\ Proof(c, st) /\ Enter(c, st) /\ UNCHANGED <<market, overdue>>

Book(c) ==
    LET booked == saga[c].booked + 1
        st == IF booked = Lots THEN "FILLED" ELSE "PARTIALLY_FILLED"
    IN  /\ MayEnter(saga[c], st)
        /\ booked <= market[c].fills
        /\ saga' = [saga EXCEPT ![c] = [st |-> st, booked |-> booked]]
        /\ UNCHANGED <<market, overdue>>

Next ==
    \/ \E c \in Cloids :
          \/ Withhold(c) \/ SetOut(c) \/ Land(c) \/ GoAstray(c)
          \/ Trade(c) \/ End(c) \/ Forget(c)
          \/ FallDue(c) \/ Move(c) \/ Book(c)
    \/ Relent

Spec == Init /\ [][Next]_vars
==============================================================================
