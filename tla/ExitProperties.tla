--------------------------- MODULE ExitProperties ---------------------------
(***************************************************************************)
(* What a flatten run guarantees.                                          *)
(***************************************************************************)
EXTENDS ExitRun

\* A symbol never has two closes that could both trade or still be booked
\* (ADR-0056), through lost answers, failed passes, crashes and later runs.
OneCloseASymbol ==
    \A s \in Symbols :
        Cardinality({i \in DOMAIN orders[s] : orders[s][i].kind = "close"}) <= 1

\* A run that reports done has left every strategy flat on the symbols it had a
\* loop for, and no fill there that a later life would book (ADR-0054, ADR-0060).
DoneIsFlat ==
    main = "done" =>
        \A s \in Symbols : loop[s].at # "out" =>
            /\ \A o \in Strategies : books[s][o] = 0
            /\ \A i \in DOMAIN orders[s] : orders[s][i].exec = orders[s][i].cum

\* The run is not done while a fill is not booked (run's comment on gave_up).
DoneIsBooked ==
    main = "done" =>
        \A s \in Symbols : \A i \in DOMAIN orders[s] :
            orders[s][i].exec = orders[s][i].cum

\* A close moves a strategy toward zero and never past it, whatever the account
\* passes did to the books since its basis was read.
ClosesOnlyShrink ==
    [][\A s \in Symbols, o \in Strategies :
          books'[s][o] # books[s][o]
          /\ (\A i \in DOMAIN orders[s] : orders[s][i].kind = "close") =>
              Size(books'[s][o]) + Size(books'[s][o] - books[s][o]) = Size(books[s][o])
      ]_vars

\* What the strategies hold moves away only once no row of the symbol is open:
\* a fill never books on top of the move (exit_run.py, _left).
LeftoverMovesLast ==
    [][\A s \in Symbols :
          (loop'[s].at = "over" /\ loop[s].at # "over") => OpenRows(s) = {}]_vars

\* Every run ends.
RunEnds == <>[](main \in {"done", "stopped"})
=============================================================================
