------------------------------- MODULE Preflight -------------------------------
(***************************************************************************)
(* What the Hyperliquid exchange does at its start, before any order: the  *)
(* gate on the account's mode, the push of the configured leverages, and   *)
(* the funding socket, all retried on one deadline.                        *)
(*                                                                         *)
(* Time is the one thing it tells apart: whether the window's budget is    *)
(* spent.  The bodies the venue answers with are what they say, or         *)
(* unreadable, which is a failure like a lost one.                         *)
(***************************************************************************)
EXTENDS Integers

CONSTANT Symbols

SupportedModes == {"default", "disabled"}

VARIABLES
    account,   \* the venue's account: its mode, and the leverage of each symbol
    guard,     \* mode, held, push, socket; aligned; refused, failed
    unpushed,  \* the symbols of the book whose leverage is still to write
    spent      \* the budget of the window that is open is gone

preVars == <<account, guard, unpushed, spent>>

\* A transient failure: another try while there is budget, and no try is ever
\* refused before it was made.
Retry == guard' = (IF spent THEN "failed" ELSE guard) /\ UNCHANGED <<unpushed, spent>>

TimePasses == ~spent /\ spent' = TRUE /\ UNCHANGED <<account, guard, unpushed>>

ReadFails ==
    /\ guard \in {"mode", "held", "push", "socket"}
    /\ guard = "push" => unpushed # {}
    /\ Retry /\ UNCHANGED account

\* An allowlist: a mode it does not know is refused at once.  A run that trades
\* nothing has no leverage to push.
ReadMode(book) ==
    /\ guard = "mode"
    /\ guard' = IF account.mode \notin SupportedModes THEN "refused"
                ELSE IF DOMAIN book = {} THEN "socket" ELSE "held"
    /\ UNCHANGED <<account, unpushed, spent>>

\* The account's body says the leverage of the symbols it holds, and of no other.
HeldLeverage(held) == [s \in held |-> account.leverage[s]]

\* The symbols held at another leverage than the book's.
DisagreeingNot(book, held) == {}
Disagreeing(book, held) ==
    {s \in DOMAIN HeldLeverage(held) \cap DOMAIN book : HeldLeverage(held)[s] # book[s]}

\* Every disagreement is found before the first write; a held symbol is then
\* aligned and is not written.
ReadHeld(book, held) ==
    /\ guard = "held"
    /\ IF Disagreeing(book, held) # {}
       THEN guard' = "failed" /\ UNCHANGED unpushed
       ELSE guard' = "push" /\ unpushed' = DOMAIN book \ held
    /\ UNCHANGED <<account, spent>>

Write(s, book) == account' = [account EXCEPT !.leverage[s] = book[s]]

Push(book) ==
    /\ guard = "push"
    /\ \E s \in unpushed : Write(s, book) /\ unpushed' = unpushed \ {s}
    /\ UNCHANGED <<guard, spent>>

\* The write landed and its answer is lost: it is sent again.
PushUnanswered(book) ==
    /\ guard = "push"
    /\ \E s \in unpushed : Write(s, book) /\ Retry

\* The venue's own refusal is a value and ends the boot at once.
PushRefused ==
    /\ guard = "push" /\ unpushed # {}
    /\ guard' = "failed" /\ UNCHANGED <<account, unpushed, spent>>

Pushed ==
    /\ guard = "push" /\ unpushed = {}
    /\ guard' = "socket" /\ UNCHANGED <<account, unpushed, spent>>

OpenSocket ==
    /\ guard = "socket"
    /\ guard' = "aligned" /\ UNCHANGED <<account, unpushed, spent>>
===============================================================================
