---------------------------- MODULE MCStrategyHost ----------------------------
(***************************************************************************)
(* Model-checking instance of StrategyHost: a strategy that places an      *)
(* order and cancels it on its first tick, and clears its symbol and       *)
(* places anew on its second.                                              *)
(***************************************************************************)
EXTENDS StrategyHostProperties

CONSTANT btc

OneSymbol == {btc}

Requote == <<<<"place", "cancel">>, <<"cancel_all", "place">>>>

RequoteOnce == [s \in OneSymbol |-> Requote]
===============================================================================
