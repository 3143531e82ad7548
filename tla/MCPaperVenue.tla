---------------------------- MODULE MCPaperVenue ----------------------------
\* Small instances of PaperVenue for TLC.
EXTENDS PaperProperties

Order(side, raw, reduceOnly, type, price, tif, postOnly) ==
    [side |-> side, raw |-> raw, reduceOnly |-> reduceOnly, operator |-> FALSE,
     type |-> type, price |-> price, tif |-> tif, postOnly |-> postOnly]

MCMenu ==
    { Order("sell", 4, FALSE, "market", 0, "ioc", FALSE),
      Order("sell", 4, TRUE, "limit", 2, "gtc", FALSE),
      Order("sell", 2, TRUE, "market", 0, "ioc", FALSE),
      Order("buy", 7, FALSE, "limit", 1, "gtc", FALSE),
      Order("buy", 4, FALSE, "limit", 2, "ioc", FALSE),
      Order("buy", 2, FALSE, "limit", 1, "gtc", TRUE) }

MCPrices == {1, 2}
MCMarks == {[price |-> 0, at |-> 0], [price |-> 2, at |-> 0]}
MCHoldings == {[own |-> 0, other |-> 0], [own |-> 2, other |-> -1]}

Budget(s, c, t, w, k, d) ==
    [signals |-> s, cancels |-> c, ticks |-> t, switches |-> w, crashes |-> k, time |-> d]

\* Two orders racing ticks, a cancel racing fills, a killed process with orders
\* and with a cancel, the halt, the rate cap, and funding.
MCBudgets ==
    { Budget(2, 0, 1, 0, 0, 1), Budget(1, 1, 2, 0, 0, 0), Budget(2, 0, 1, 0, 1, 0),
      Budget(1, 1, 1, 0, 1, 0), Budget(1, 0, 2, 0, 1, 0),
      Budget(2, 0, 0, 2, 1, 0), Budget(3, 0, 0, 0, 0, 1), Budget(0, 0, 1, 0, 1, 3) }
==============================================================================
