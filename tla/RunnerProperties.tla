--------------------------- MODULE RunnerProperties ---------------------------
(***************************************************************************)
(* What a run of the engine guarantees, from its lock to its exit code.    *)
(***************************************************************************)
EXTENDS Runner

\* The tasks that can still put something on the bus.
Publishers == IF drain = "returned" THEN tasks \ {"feed"} ELSE tasks

\* Behind the venue's slot of the teardown nothing of this process publishes, so
\* the drain's mark stands still; and the store closes under no handler unless
\* closing the bus itself failed (runner.py, _teardown_steps).
PublishersEndFirst ==
    /\ (at \in TornDown /\ (step > Len(Steps) \/ Steps[step] \in {"drain", "host", "close", "store"}))
          => Publishers = {} /\ waiting = {}
    /\ (at \in TornDown /\ store = "closed" /\ "close" \in done) => handling = None

\* The exit code is true (ADR-0024, ADR-0060).  A 0 says that nothing faulted, every
\* teardown step succeeded, an exit job confirmed itself done, and nothing the
\* process published is left on the bus (a cascade the stop cut short in memory is
\* dropped with its queue).  A 2 says that this process placed nothing.
ExitCodeIsTrue ==
    at = "over" =>
        /\ code = 0 =>
              /\ fault = "none" /\ done = {Steps[i] : i \in DOMAIN Steps}
              /\ scene.job => outcome = "done"
              /\ ~InFlight
        /\ code = 2 => ~acted

\* What the venue's start found: symbols held at another leverage than the book's.
Clashes == {s \in scene.held \cap DOMAIN scene.book :
               scene.account.leverage[s] # scene.book[s]}

\* A venue is aligned only in a mode the engine supports, with the whole book at
\* its leverage; a symbol the account holds is never written, and one disagreement
\* means that nothing is (ADR-0035), through lost answers and a window that closes.
BootAligns ==
    /\ guard = "aligned" =>
          /\ account.mode \in SupportedModes
          /\ \A s \in DOMAIN scene.book : account.leverage[s] = scene.book[s]
    /\ \A s \in scene.held : account.leverage[s] = scene.account.leverage[s]
    /\ Clashes # {} => account.leverage = scene.account.leverage

\* Every boot comes up or gives up, and every run that is told to stop or that
\* faults ends: no step waits on a handler that waits on that step.
RunEnds ==
    /\ at \in {"lock", "recover", "bus", "exchange", "barrier"}
          ~> at \in {"feeding", "running"} \cup TornDown \cup {"over"}
    /\ (stopReq \/ fault # "none") ~> at = "over"

\* While a normal run goes on, every stream's newest row reaches its subscribers
\* and the session is reading for more, through hang-ups and refused connections:
\* no wake-up is lost between the reader and the publisher.
FeedKeepsUp == []<>(at # "running" \/ scene.job \/ KeptUp)
===============================================================================
