------------------------------- MODULE MCLedger -------------------------------
(***************************************************************************)
(* Model-checking instances of Ledger: one instrument, a strategy and the  *)
(* unattributed partition.  No two sets of amounts have the same sum, so   *)
(* that two different gaps never look the same.                            *)
(***************************************************************************)
EXTENDS LedgerProperties

CONSTANTS btc, sma, nobody, buy, alien, deposit, pay, repay

OneSymbol == {btc}
TwoOwners == {sma, nobody}
OneFill == {buy}
OneTrade == {alien}
OneDeposit == {deposit}
TwoPayments == {pay, repay}
NoPayments == {}

Symbol == [f \in Facts |-> btc]
Owner == [f \in Fills |-> sma]
\* The foreign trade closes what the fill opens; a deposit is no trade.
Quantity == [f \in Fills \cup Foreign |->
                CASE f = buy -> 1 [] f = alien -> -1 [] f = deposit -> 0]
PriceOf == [f \in Fills \cup Foreign |-> IF f = buy THEN 100 ELSE 300]
Amount == [f \in Facts |->
             CASE f = buy -> -1 [] f = alien -> -3 [] f = deposit -> 9
               [] f = pay -> -27 [] f = repay -> 81]
===============================================================================
