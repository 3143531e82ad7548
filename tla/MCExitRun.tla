------------------------------ MODULE MCExitRun -----------------------------
\* Small instances of ExitRun for TLC.
EXTENDS ExitProperties

CONSTANTS a, b, s1, s2, un

MCSymbols == {a, b}
MCOwners == {s1, s2, un}
MCRank == (s1 :> 1) @@ (s2 :> 2) @@ (un :> 3)

Parts(x, y, u) == (s1 :> x) @@ (s2 :> y) @@ (un :> u)
Left(t, f, n, l, c) == [trades |-> t, failures |-> f, thin |-> n, late |-> l, crashes |-> c]

Scene(inA, inB, ordA, ordB, unkA, wrong) ==
    [books |-> (a :> inA) @@ (b :> inB), orders |-> (a :> ordA) @@ (b :> ordB),
     unknown |-> (a :> unkA) @@ (b :> 0), left |-> wrong]

Flat == Parts(0, 0, 0)
Rest(size) == <<Resting(1, "strategy", s1, size)>>
Hand(size) == <<Resting(2, "hand", un, size)>>

\* Partitions of both signs; resting orders of a strategy and of the
\* operator's hand; a position the books do not know; reads that fail; and two
\* symbols, one with a gap to heal while the other's close is in doubt.
MCScenarios ==
    { Scene(Parts(3, -1, 0), Flat, <<>>, <<>>, 0, Left(1, 0, 1, 1, 0)),
      Scene(Parts(3, -2, 1), Flat, <<>>, <<>>, 0, Left(0, 1, 2, 1, 1)),
      Scene(Parts(2, 0, 0), Flat, Rest(-1), <<>>, 0, Left(1, 1, 0, 1, 0)),
      Scene(Parts(2, 0, 0), Flat, Hand(-1), <<>>, 0, Left(0, 2, 0, 0, 0)),
      Scene(Parts(1, 1, 0), Flat, Rest(1), <<>>, 1, Left(0, 1, 1, 0, 1)),
      Scene(Parts(1, 0, 0), Flat, <<>>, <<>>, 0, Left(0, 4, 1, 0, 1)),
      Scene(Parts(2, 0, 0), Parts(1, 0, 0), <<>>, <<>>, 1, Left(0, 1, 0, 0, 0)),
      Scene(Parts(1, 0, 0), Parts(0, 2, -1), Rest(1), <<>>, 0, Left(0, 1, 0, 0, 0)) }

\* Two strategies' orders fill against each other's size before the cancel.
MCCrossing ==
    { Scene(Flat, Flat, <<Resting(1, "strategy", s1, 1), Resting(2, "strategy", s2, -1)>>,
            <<>>, 0, Left(0, 0, 0, 0, 0)) }
=============================================================================
