----------------------------- MODULE RunnerProofs -----------------------------
(***************************************************************************)
(* What a run of the engine guarantees holds in every behaviour of Runner, *)
(* for every set of scenes: whatever the store, the venue, the bus and the *)
(* backlog are, and wherever and however often something goes wrong.       *)
(***************************************************************************)
EXTENDS RunnerProperties, SequenceTheorems, TLAPS

-------------------------------------------------------------------------------
(* The venue's start                                                       *)

\* Where the alignment is says what it has found and written: nothing before
\* every disagreement is looked for, then only symbols that are not held.
BootInv ==
    /\ scene \in Scenes
    /\ account \in [mode : STRING, leverage : [Symbols -> Nat]]
    /\ guard \in {"mode", "held", "push", "socket", "aligned", "refused", "failed"}
    /\ account.mode = scene.account.mode
    /\ guard \in {"held", "push", "socket", "aligned"} => account.mode \in SupportedModes
    /\ guard \in {"mode", "held"} \/ Clashes # {} => account = scene.account
    /\ guard = "push" => /\ Clashes = {}
                         /\ unpushed \subseteq DOMAIN scene.book \ scene.held
    /\ \A s \in scene.held : account.leverage[s] = scene.account.leverage[s]
    /\ guard \in {"push", "socket", "aligned"} =>
          \A s \in DOMAIN scene.book :
             account.leverage[s] = scene.book[s] \/ (guard = "push" /\ s \in unpushed)

\* The alignment keeps to it.
LEMMA AlignKeepsBoot == ASSUME BootInv, Align PROVE BootInv'
  <1> USE RunnerAssumption
  <1>1. scene' = scene /\ scene \in Scenes /\ Clashes' = Clashes
    BY DEF Align, BootInv, Clashes
  <1>2. CASE ReadMode(scene.book)
    <2>1. UNCHANGED <<account, unpushed>> /\ guard = "mode"
      BY <1>2 DEF ReadMode
    <2>2. \/ account.mode \notin SupportedModes /\ guard' = "refused"
          \/ account.mode \in SupportedModes /\ DOMAIN scene.book = {} /\ guard' = "socket"
          \/ account.mode \in SupportedModes /\ guard' = "held"
      BY <1>2 DEF ReadMode
    <2>3. QED BY <1>1, <2>1, <2>2 DEF BootInv
  <1>3. CASE ReadHeld(scene.book, scene.held)
    <2>1. CASE Disagreeing(scene.book, scene.held) # {}
      BY <1>1, <1>3, <2>1 DEF BootInv, ReadHeld
    <2>2. CASE Disagreeing(scene.book, scene.held) = {}
      <3>1. account = scene.account /\ guard = "held"
        BY <1>3 DEF BootInv, ReadHeld
      <3>2. \A s \in scene.held \cap DOMAIN scene.book : account.leverage[s] = scene.book[s]
        BY <2>2 DEF Disagreeing, HeldLeverage
      <3>3. Clashes = {}
        BY <3>1, <3>2 DEF Clashes
      <3>4. guard' = "push" /\ unpushed' = DOMAIN scene.book \ scene.held /\ account' = account
        BY <1>3, <2>2 DEF ReadHeld
      <3>5. QED BY <1>1, <3>1, <3>2, <3>3, <3>4 DEF BootInv
    <2>3. QED BY <2>1, <2>2
  <1>4. CASE Push(scene.book) \/ PushUnanswered(scene.book)
    <2>1. PICK s \in unpushed : Write(s, scene.book)
      BY <1>4 DEF Push, PushUnanswered
    <2>2. guard = "push" /\ s \in DOMAIN scene.book \ scene.held /\ s \in Symbols
          /\ scene.book[s] \in Nat
      BY <1>1, <1>4, <2>1 DEF BootInv, Push, PushUnanswered
    <2>3. /\ account' \in [mode : STRING, leverage : [Symbols -> Nat]]
          /\ account'.mode = account.mode
          /\ account'.leverage[s] = scene.book[s]
          /\ \A t \in Symbols \ {s} : account'.leverage[t] = account.leverage[t]
      BY <2>1, <2>2 DEF BootInv, Write
    <2>4. CASE Push(scene.book)
      <3>1. PICK t \in unpushed : Write(t, scene.book) /\ unpushed' = unpushed \ {t}
        BY <2>4 DEF Push
      <3>2. t \in DOMAIN scene.book \ scene.held /\ t \in Symbols /\ scene.book[t] \in Nat
        BY <1>1, <2>2 DEF BootInv
      <3>3. /\ account' \in [mode : STRING, leverage : [Symbols -> Nat]]
            /\ account'.mode = account.mode
            /\ account'.leverage[t] = scene.book[t]
            /\ \A u \in Symbols \ {t} : account'.leverage[u] = account.leverage[u]
        BY <3>1, <3>2 DEF BootInv, Write
      <3>4. guard' = "push"
        BY <2>2, <2>4 DEF Push
      <3>5. QED BY <1>1, <2>2, <3>1, <3>2, <3>3, <3>4 DEF BootInv
    <2>5. CASE PushUnanswered(scene.book)
      <3>1. unpushed' = unpushed /\ guard' \in {"push", "failed"}
        BY <2>2, <2>5 DEF PushUnanswered, Retry
      <3>2. QED BY <1>1, <2>2, <2>3, <3>1 DEF BootInv
    <2>6. QED BY <1>4, <2>4, <2>5
  <1>5. CASE Pushed \/ OpenSocket \/ PushRefused
    BY <1>1, <1>5 DEF BootInv, Pushed, OpenSocket, PushRefused
  <1>6. CASE ReadFails
    BY <1>1, <1>6 DEF BootInv, ReadFails, Retry
  <1>7. QED BY <1>2, <1>3, <1>4, <1>5, <1>6 DEF Align

\* No other step touches the venue's account, or where the alignment is.
LEMMA BootInvHolds == Spec => []BootInv
  <1>1. Init => BootInv
    <2> SUFFICES ASSUME Init PROVE BootInv
      OBVIOUS
    <2>1. scene \in Scenes /\ account = scene.account /\ guard = "mode" /\ unpushed = {}
      BY DEF Init
    <2>2. QED BY <2>1, RunnerAssumption DEF BootInv
  <1>2. BootInv /\ [Next]_vars => BootInv'
    <2> SUFFICES ASSUME BootInv, [Next]_vars PROVE BootInv'
      OBVIOUS
    <2>1. CASE Align
      BY <2>1, AlignKeepsBoot
    <2>2. CASE ~Align
      <3>1. UNCHANGED <<scene, account, guard, unpushed>>
        BY <2>2 DEF Next, vars, feedVars, preVars, Starts, Lock, Recover, StartBus, VenueStarted,
          VenueRefuses, Materialise, Heals, Rebuild, BarrierClears, StartFeed, Delivers,
          Dispatch, Handled, PublishReturns, PublishRaises, Works, JobStarts, JobReturns,
          FeedTakes, FeedMoves, FeedReturns, Stops, BeginStop, ReleaseSeam, EndTask, Drain,
          DrainFails, Snapshot, CloseBus, CloseStore, Over, BudgetGoes, TimePasses, StepFreezes,
          StartRaises, HandlerRaises, FeedWillNotConnect, TaskRaises, TaskPublishes,
          JobStartsFeed, VenueSends, RequestStop, StepFails
      <3>2. QED BY <3>1 DEF BootInv, Clashes
    <2>3. QED BY <2>1, <2>2
  <1>3. QED BY <1>1, <1>2, PTL DEF Spec

\* The venue is traded only in a mode the engine supports, with the whole book at
\* its leverage; a held symbol is never written, and one disagreement means that
\* nothing is, whatever answers are lost and whenever the window closes.
THEOREM AlignsOnlyWhatItMay == Spec => []BootAligns
  <1>1. BootInv => BootAligns
    BY DEF BootInv, BootAligns
  <1>2. QED BY <1>1, BootInvHolds, PTL

-------------------------------------------------------------------------------
(* The tasks, the bus and the teardown                                     *)

\* Who published the records of a queue.
By(l) == {l[i].by : i \in DOMAIN l}

Starting == {"lock", "recover", "bus", "exchange", "barrier"}
Grouped == {"feeding", "running", "stopping"}

Shape ==
    /\ scene \in Scenes
    /\ at \in Starting \cup Grouped \cup {"faulting", "over"}
    /\ step \in Nat \ {0}
    /\ tasks \subseteq Tasks
    /\ waiting \subseteq tasks \cup {"boot"}
    /\ fault \in {"none", "fault", "refusal"}
    /\ cleared \in BOOLEAN /\ acted \in BOOLEAN

Queue == log \in Seq({log[i] : i \in DOMAIN log})

\* Until the barrier has cleared no task runs and no order goes out; a refusal
\* comes before that.
Uncleared ==
    /\ at \in Starting => ~cleared
    /\ at \in Grouped => cleared
    /\ ~cleared => tasks = {} /\ ~acted /\ handling.by # "job" /\ "job" \notin By(log)
    /\ fault = "refusal" => ~cleared
    /\ "boot" \in waiting => at = "barrier" /\ step = 2
    /\ "job" \in waiting => outcome = "working"

\* A fault has ended every task, and every publish with it.
Faulted ==
    /\ at \in Starting \cup Grouped => fault = "none"
    /\ at = "faulting" => fault # "none"
    /\ at \in {"faulting", "over"} => tasks = {}
    /\ at \in Starting \cup {"feeding", "running"} => done = {}

\* In memory nothing is on the bus without the publish that delivers it.
InMemory ==
    ~scene.kafka =>
        /\ By(log) \subseteq Own /\ (handling.by \in Own \/ handling = None)
        /\ waiting = {} => By(log) = {} /\ handling = None

\* The feed publishes only inside its session, and its session only inside its task.
FeedInv ==
    /\ drain # "returned" => session = "reading"
    /\ "feed" \in waiting => drain = "publishing"
    /\ "feed" \notin tasks => session \in {"idle", "ended"}
    /\ "feed" \in tasks => session # "idle"
    /\ at \in Starting \cup {"feeding"} => session = "idle" /\ "job" \notin tasks

\* How far the graceful teardown has come says what has ended.
Walk ==
    /\ released => AtStep("feed") \/ AtStep("exchange")
    /\ at \in TornDown /\ "close" \in done => bus = "closed" /\ handling = None
    /\ at = "stopping" =>
          /\ step <= Len(Steps) + 1
          /\ done = {Steps[i] : i \in 1..(step - 1)}
          /\ step > 1 \/ released => stopping
          /\ step > 1 => session \in {"idle", "opened", "ended"}
          /\ step > 2 => "cadence" \notin tasks
          /\ step > 3 => "job" \notin tasks
          /\ step > 4 => "exchange" \notin tasks
          /\ step > 5 /\ scene.kafka => ~InFlight

Ending ==
    at = "over" =>
        /\ code = 0 =>
              /\ fault = "none" /\ done = {Steps[i] : i \in DOMAIN Steps}
              /\ scene.job => outcome = "done"
              /\ ~InFlight
        /\ code = 2 => ~cleared

RunInv == Shape /\ Queue /\ Uncleared /\ Faulted /\ InMemory /\ FeedInv /\ Walk /\ Ending

\* What the records on the bus say of it.
LEMMA InFlightBy ==
    /\ InFlight <=> handling.by \in Own \/ By(log) \cap Own # {}
    /\ InFlight' <=> handling'.by \in Own \/ By(log') \cap Own # {}
  BY DEF InFlight, By

LEMMA AppendBy ==
    ASSUME NEW l, l \in Seq({l[i] : i \in DOMAIN l}), NEW r
    PROVE  /\ Append(l, r) \in Seq({Append(l, r)[i] : i \in DOMAIN Append(l, r)})
           /\ By(Append(l, r)) = By(l) \cup {r.by}
  <1> DEFINE S == {l[i] : i \in DOMAIN l}
             m == Append(l, r)
  <1>1. /\ m \in Seq(S \cup {r}) /\ Len(m) = Len(l) + 1
        /\ \A i \in 1..Len(l) : m[i] = l[i]
        /\ m[Len(m)] = r
    BY AppendProperties
  <1>2. DOMAIN m = 1..(Len(l) + 1) /\ DOMAIN l = 1..Len(l) /\ Len(l) \in Nat
    BY <1>1
  <1>3. {m[i] : i \in DOMAIN m} = S \cup {r}
    BY <1>1, <1>2
  <1>4. By(m) = By(l) \cup {r.by}
    BY <1>1, <1>2 DEF By
  <1>5. QED BY <1>1, <1>3, <1>4

LEMMA TailBy ==
    ASSUME NEW l, l \in Seq({l[i] : i \in DOMAIN l}), l # <<>>
    PROVE  LET m == Tail(l) IN
           m \in Seq({m[i] : i \in DOMAIN m}) /\ By(l) = By(m) \cup {Head(l).by}
  <1> DEFINE S == {l[i] : i \in DOMAIN l}
             m == Tail(l)
  <1>1. /\ m \in Seq(S) /\ Len(m) = Len(l) - 1 /\ Head(l) = l[1]
        /\ \A i \in 1..Len(m) : m[i] = l[i + 1]
    BY HeadTailProperties
  <1>2. DOMAIN m = 1..(Len(l) - 1) /\ DOMAIN l = 1..Len(l) /\ Len(l) \in Nat \ {0}
    BY <1>1, EmptySeq
  <1>3. m \in Seq({m[i] : i \in DOMAIN m})
    <2>1. m \in Seq(Range(m))
      BY <1>1, SeqOfRange
    <2>2. QED BY <2>1 DEF Range
  <1>4. ASSUME NEW i \in DOMAIN l PROVE l[i].by \in By(m) \cup {Head(l).by}
    <2>1. CASE i = 1
      BY <1>1, <2>1
    <2>2. CASE i # 1
      <3>1. i - 1 \in DOMAIN m /\ m[i - 1] = l[i]
        BY <1>1, <1>2, <2>2
      <3>2. QED BY <3>1 DEF By
    <2>3. QED BY <2>1, <2>2
  <1>5. By(m) \subseteq By(l) /\ Head(l).by \in By(l)
    <2>1. \A i \in DOMAIN m : i + 1 \in DOMAIN l /\ m[i] = l[i + 1]
      BY <1>1, <1>2
    <2>2. 1 \in DOMAIN l
      BY <1>2
    <2>3. QED BY <1>1, <2>1, <2>2 DEF By
  <1>6. By(l) = By(m) \cup {Head(l).by}
    BY <1>4, <1>5 DEF By
  <1>7. QED BY <1>3, <1>6

LEMMA EmptyBy == By(<<>>) = {} /\ <<>> \in Seq({<<>>[i] : i \in DOMAIN <<>>})
  BY DEF By

\* The queue only grows by what is published and shrinks by what is dispatched.
LEMMA Published ==
    ASSUME Queue, NEW p, NEW w, Publish(p, w)
    PROVE  Queue' /\ By(log') = By(log) \cup {p}
  <1> DEFINE r == [by |-> p, row |-> w]
             m == Append(log, r)
  <1>1. m \in Seq({m[i] : i \in DOMAIN m}) /\ By(m) = By(log) \cup {r.by}
    BY AppendBy DEF Queue
  <1>2. log' = m /\ r.by = p
    BY DEF Publish
  <1>3. QED BY <1>1, <1>2 DEF Queue

LEMMA Dispatched ==
    ASSUME Queue, Dispatch
    PROVE  /\ Queue' /\ By(log) = By(log') \cup {Head(log).by}
           /\ handling' \in {None, Head(log)}
  BY TailBy DEF Queue, Dispatch

\* What an earlier life left is of an earlier life.
LEMMA BacklogIsOld ==
    ASSUME RunInv, StartBus
    PROVE  /\ Queue' /\ By(log') \subseteq {"old_fill", "old_place", "old_cancel"}
           /\ ~scene.kafka => By(log') = {}
  <1>1. CASE scene.kafka
    <2>1. log' \in Seq(OldRecords)
      BY <1>1, RunnerAssumption DEF RunInv, Shape, StartBus
    <2>2. log' \in Seq(Range(log'))
      BY <2>1, SeqOfRange
    <2>3. \A i \in DOMAIN log' : log'[i] \in OldRecords
      BY <2>1
    <2>4. QED BY <1>1, <2>2, <2>3 DEF Queue, By, Range, OldRecords
  <1>2. CASE ~scene.kafka
    BY <1>2, EmptyBy DEF StartBus, Queue
  <1>3. QED BY <1>1, <1>2

\* The one list both teardowns walk.
LEMMA StepsAre ==
    ASSUME scene \in Scenes
    PROVE  /\ Len(Steps) \in {7, 8} /\ DOMAIN Steps = 1..Len(Steps)
           /\ Steps[1] = "feed" /\ Steps[2] = "reconcile" /\ Steps[3] = "job"
           /\ Steps[4] = "exchange" /\ Steps[5] = "drain"
           /\ \A i \in 6..Len(Steps) : Steps[i] \in {"host", "close", "store"}
           /\ scene' = scene => Steps' = Steps
  <1>1. CASE scene.job
    BY <1>1 DEF Steps
  <1>2. CASE ~scene.job
    BY <1>2 DEF Steps
  <1>3. QED BY <1>1, <1>2

\* A cancel that ends a delivering task leaves nothing on the bus.
LEMMA CutEmpties ==
    ASSUME Queue, NEW ps, CutCascade(ps)
    PROVE  /\ Queue'
           /\ \/ ~scene.kafka /\ ps \cap waiting # {} /\ By(log') = {} /\ handling' = None
              \/ (scene.kafka \/ ps \cap waiting = {}) /\ UNCHANGED <<log, handling>>
  BY EmptyBy DEF Queue, CutCascade

-------------------------------------------------------------------------------
(* Each step of the run keeps the invariant                                *)

USE RunnerAssumption
    DEF RunInv, Starting, Grouped, TornDown, Own, Tasks, None, vars, busVars, runVars,
        feedVars, preVars, link, buffer

LEMMA InitRuns == Init => RunInv
  <1> SUFFICES ASSUME Init PROVE RunInv
    OBVIOUS
  <1>1. By(log) = {} /\ Queue
    BY EmptyBy DEF Init, Queue
  <1>2. /\ at = "lock" /\ step = 1 /\ released = FALSE /\ cleared = FALSE /\ acted = FALSE
        /\ tasks = {} /\ waiting = {} /\ fault = "none" /\ done = {} /\ scene \in Scenes
        /\ handling = None /\ handling.by = "none" /\ session = "idle" /\ drain = "returned"
    BY DEF Init, FeedInit
  <1>3. Shape
    <2>1. cleared \in BOOLEAN /\ acted \in BOOLEAN /\ scene \in Scenes
      BY <1>2, Zenon
    <2>2. QED BY <1>2, <2>1 DEF Shape
  <1>4. Uncleared /\ Faulted
    BY <1>1, <1>2 DEF Uncleared, Faulted
  <1>5. InMemory /\ FeedInv /\ Walk /\ Ending
    BY <1>1, <1>2 DEF InMemory, FeedInv, Walk, Ending
  <1>6. QED BY <1>1, <1>3, <1>4, <1>5

\* Before the tasks run.
LEMMA StartKeeps ==
    ASSUME RunInv,
           \/ Lock \/ Align \/ BudgetGoes \/ VenueStarted \/ Materialise \/ Rebuild
           \/ BarrierClears \/ StartFeed
    PROVE  RunInv'
  <1> USE InFlightBy
      DEF Shape, Queue, Uncleared, Faulted, InMemory, FeedInv, Walk, Ending, AtStep
  <1>1. CASE Lock
    BY <1>1 DEF Lock, Refused
  <1>2. CASE Align
    BY <1>2, StepsAre DEF Align, Spend
  <1>3. CASE BudgetGoes
    BY <1>3, StepsAre DEF BudgetGoes, TimePasses
  <1>4. CASE VenueStarted
    BY <1>4 DEF VenueStarted
  <1>5. CASE Materialise
    BY <1>5 DEF Materialise, InStep, BarrierSteps
  <1>6. CASE Rebuild
    BY <1>6 DEF Rebuild, InStep, BarrierSteps
  <1>7. CASE BarrierClears
    BY <1>7 DEF BarrierClears, BarrierSteps
  <1>8. CASE StartFeed
    BY <1>8 DEF StartFeed, Open
  <1>9. QED BY <1>1, <1>2, <1>3, <1>4, <1>5, <1>6, <1>7, <1>8

\* The bus begins with what an earlier life left.
LEMMA BusStartKeeps == ASSUME RunInv, StartBus PROVE RunInv'
  <1>1. Queue'
    BY BacklogIsOld
  <1>2. QED
    BY <1>1, BacklogIsOld DEF StartBus, Shape, Uncleared, Faulted, InMemory, FeedInv, Walk, Ending, AtStep

LEMMA HealsKeeps == ASSUME RunInv, Heals PROVE RunInv'
  <1>1. at = "barrier" /\ step = 2
    BY DEF Heals, InStep, BarrierSteps, Shape
  <1>2. Queue' /\ By(log') = By(log) \cup {"boot"}
    BY Published DEF Heals
  <1>3. /\ UNCHANGED <<scene, at, step, released, cleared, handling, tasks, runVars, feedVars>>
        /\ waiting' = waiting \cup {"boot"} \/ (waiting' = waiting /\ waiting # {})
    BY DEF Heals, Publish
  <1>4. QED
    BY <1>1, <1>2, <1>3 DEF Shape, Uncleared, Faulted, InMemory, FeedInv, Walk, Ending, AtStep

\* A fault before the group opens, with nothing published.
LEMMA AbortKeeps ==
    ASSUME RunInv, at \in Starting, waiting = {}, NEW kind \in {"fault", "refusal"}, Aborts(kind),
           UNCHANGED <<scene, cleared, log, handling, acted, feedVars>>
    PROVE  RunInv'
  <1>1. /\ at' = "faulting" /\ step' = 1 /\ released' = FALSE /\ done' = {} /\ fault' = kind
        /\ waiting' = {} /\ tasks' = tasks
    BY DEF Aborts, Faults
  <1>2. Shape' /\ Queue'
    BY <1>1 DEF Shape, Queue
  <1>3. Uncleared' /\ Faulted' /\ InMemory' /\ FeedInv' /\ Walk' /\ Ending'
    BY <1>1 DEF Shape, Uncleared, Faulted, InMemory, FeedInv, Walk, Ending
  <1>4. QED BY <1>2, <1>3

LEMMA StartFailureKeeps ==
    ASSUME RunInv, Recover \/ VenueRefuses \/ StepFreezes \/ StartRaises
    PROVE  RunInv'
  <1>1. at \in Starting => waiting = {} \/ (at = "barrier" /\ "boot" \in waiting)
    BY DEF Shape, Uncleared
  <1>2. CASE Recover
    <2>1. CASE scene.store = "foreign"
      BY <1>1, <1>2, <2>1, AbortKeeps DEF Recover
    <2>2. CASE scene.store # "foreign"
      <3>1. /\ at = "recover" /\ at' = "bus" /\ UNCHANGED <<step, released, done, fault, tasks, waiting>>
            /\ UNCHANGED <<scene, cleared, log, handling, acted, code, feedVars, outcome>>
        BY <1>2, <2>2 DEF Recover
      <3>2. Shape' /\ Queue'
        BY <3>1 DEF Shape, Queue
      <3>3. Uncleared' /\ Faulted' /\ InMemory' /\ FeedInv' /\ Walk' /\ Ending'
        BY <3>1 DEF Shape, Uncleared, Faulted, InMemory, FeedInv, Walk, Ending, AtStep
      <3>4. QED BY <3>2, <3>3
    <2>3. QED BY <2>1, <2>2
  <1>3. CASE VenueRefuses
    BY <1>1, <1>3, AbortKeeps DEF VenueRefuses
  <1>4. CASE StepFreezes
    <2>1. CASE spent
      BY <1>1, <1>4, <2>1, AbortKeeps DEF StepFreezes
    <2>2. CASE ~spent
      <3>1. /\ at = "barrier" /\ step' = 1 /\ "boot" \notin waiting
            /\ UNCHANGED <<at, released, done, fault, tasks, waiting>>
            /\ UNCHANGED <<scene, cleared, log, handling, acted, code, feedVars, outcome>>
        BY <1>4, <2>2 DEF StepFreezes
      <3>2. Shape' /\ Queue'
        BY <3>1 DEF Shape, Queue
      <3>3. Uncleared' /\ Faulted' /\ InMemory' /\ FeedInv' /\ Walk' /\ Ending'
        BY <3>1 DEF Shape, Uncleared, Faulted, InMemory, FeedInv, Walk, Ending, AtStep
      <3>4. QED BY <3>2, <3>3
    <2>3. QED BY <2>1, <2>2
  <1>5. CASE StartRaises
    BY <1>1, <1>5, AbortKeeps DEF StartRaises
  <1>6. QED BY <1>2, <1>3, <1>4, <1>5

\* The bus: what is dispatched leaves the queue, and no record is added.
LEMMA DispatchKeeps == ASSUME RunInv, Dispatch PROVE RunInv'
  <1>1. /\ Queue' /\ By(log) = By(log') \cup {Head(log).by}
        /\ handling' \in {None, Head(log)}
    BY Dispatched
  <1>2. /\ bus = "up" /\ bus' = bus
        /\ UNCHANGED <<scene, at, step, released, cleared, waiting, tasks, runVars, feedVars>>
        /\ scene.kafka \/ waiting # {}
    BY DEF Dispatch
  <1>3. handling'.by \in {"none", Head(log).by} /\ (handling' = None \/ handling'.by \in By(log))
    BY <1>1
  <1>4. ~InFlight => ~InFlight'
    BY <1>1, <1>3, InFlightBy
  <1>5. Shape' /\ Uncleared' /\ Faulted' /\ InMemory' /\ FeedInv'
    <2>1. Shape' /\ Faulted' /\ FeedInv'
      BY <1>2 DEF Shape, Faulted, FeedInv
    <2>2. Uncleared'
      BY <1>1, <1>2, <1>3 DEF Uncleared
    <2>3. InMemory'
      BY <1>1, <1>2, <1>3 DEF InMemory
    <2> QED BY <2>1, <2>2, <2>3
  <1>6. Steps' = Steps
    BY <1>2, StepsAre DEF Shape
  <1>7. Walk'
    BY <1>2, <1>4, <1>6 DEF Walk, AtStep
  <1>8. Ending'
    BY <1>2, <1>4, <1>6 DEF Ending
  <1>9. QED BY <1>1, <1>5, <1>7, <1>8

LEMMA HandledKeeps == ASSUME RunInv, Handled PROVE RunInv'
  <1>1. /\ UNCHANGED <<scene, at, step, released, cleared, log, bus, waiting, tasks, stopReq, outcome>>
        /\ UNCHANGED <<fault, done, code, link, buffer>> /\ handling' = None /\ handling'.by = "none"
        /\ acted' = (acted \/ Places)
    BY DEF Handled
  <1>2. acted' => cleared \/ acted
    BY <1>1 DEF Places, Uncleared
  <1>3. Shape' /\ Queue' /\ Uncleared' /\ Faulted'
    BY <1>1, <1>2 DEF Shape, Queue, Uncleared, Faulted
  <1>4. Steps' = Steps /\ (~InFlight => ~InFlight')
    BY <1>1, StepsAre, InFlightBy DEF Shape
  <1>5. InMemory' /\ FeedInv' /\ Walk' /\ Ending'
    BY <1>1, <1>4 DEF InMemory, FeedInv, Walk, Ending, AtStep
  <1>6. QED BY <1>3, <1>5

LEMMA PublishReturnsKeeps ==
    ASSUME RunInv, NEW p \in Own, PublishReturns(p)
    PROVE  RunInv'
  <1>1. /\ waiting' = waiting \ {p} /\ ~InFlight
        /\ UNCHANGED <<scene, at, step, released, cleared, log, bus, handling, tasks, runVars, feedVars>>
    BY DEF PublishReturns
  <1>2. Shape' /\ Queue' /\ Uncleared' /\ Faulted'
    BY <1>1 DEF Shape, Queue, Uncleared, Faulted
  <1>3. By(log) \cap Own = {} /\ handling.by \notin Own
    BY <1>1, InFlightBy
  <1>4. Steps' = Steps /\ (~InFlight => ~InFlight')
    BY <1>1, StepsAre, InFlightBy DEF Shape
  <1>5. InMemory' /\ FeedInv'
    BY <1>1, <1>3 DEF InMemory, FeedInv
  <1>6. Walk' /\ Ending'
    BY <1>1, <1>4 DEF Walk, Ending, AtStep
  <1>7. QED BY <1>2, <1>5, <1>6

\* The group's fault: every task has ended, and what is left on the bus is only
\* what Kafka keeps.
LEMMA GroupKeeps ==
    ASSUME RunInv, GroupAborts, Queue', UNCHANGED <<scene, cleared, acted>>,
           By(log') \subseteq By(log), handling' \in {None, handling},
           ~scene.kafka => By(log') = {} /\ handling' = None
    PROVE  RunInv'
  <1>1. /\ at' = "faulting" /\ step' = 1 /\ released' = FALSE /\ done' = {} /\ fault' = "fault"
        /\ waiting' = {} /\ tasks' = {}
    BY DEF GroupAborts, Faults
  <1>2. Shape'
    BY <1>1 DEF Shape
  <1>3. Uncleared'
    BY <1>1 DEF Shape, Uncleared
  <1>4. FeedInv'
    <2>1. CASE "feed" \in tasks
      BY <1>1, <2>1 DEF GroupAborts, Cut, FeedInv
    <2>2. CASE "feed" \notin tasks
      BY <1>1, <2>2 DEF GroupAborts, FeedInv
    <2>3. QED BY <2>1, <2>2
  <1>5. Faulted' /\ InMemory' /\ Walk' /\ Ending'
    BY <1>1 DEF Faulted, InMemory, Walk, Ending
  <1>6. QED BY <1>2, <1>3, <1>4, <1>5

\* In memory a queue without a publisher is empty, so a fault that cuts the tasks'
\* cascades leaves nothing.
LEMMA CutGroupKeeps ==
    ASSUME RunInv, GroupAborts, CutCascade(tasks), "boot" \notin waiting,
           UNCHANGED <<scene, cleared, acted>>
    PROVE  RunInv'
  <1>1. /\ Queue'
        /\ \/ ~scene.kafka /\ By(log') = {} /\ handling' = None
           \/ (scene.kafka \/ tasks \cap waiting = {}) /\ UNCHANGED <<log, handling>>
    BY CutEmpties
  <1>2. ~scene.kafka => By(log') = {} /\ handling' = None
    BY <1>1 DEF Shape, InMemory
  <1>3. By(log') \subseteq By(log) /\ handling' \in {None, handling}
    BY <1>1
  <1>4. QED BY <1>1, <1>2, <1>3, GroupKeeps

LEMMA TaskFailureKeeps ==
    ASSUME RunInv, FeedWillNotConnect \/ \E p \in Tasks : TaskRaises(p)
    PROVE  RunInv'
  <1>1. GroupAborts /\ CutCascade(tasks) /\ UNCHANGED <<scene, cleared, acted>>
    BY DEF FeedWillNotConnect, TaskRaises
  <1>2. at = "feeding" \/ tasks # {}
    BY DEF FeedWillNotConnect, TaskRaises
  <1>3. "boot" \notin waiting
    BY <1>2 DEF Uncleared
  <1>4. QED BY <1>1, <1>3, CutGroupKeeps

LEMMA PublishRaisesKeeps ==
    ASSUME RunInv, NEW p \in Own, PublishRaises(p)
    PROVE  RunInv'
  <1>1. GroupAborts /\ UNCHANGED <<scene, cleared, acted, log, handling>> /\ ~InFlight
    BY DEF PublishRaises
  <1>2. By(log) \cap Own = {} /\ handling.by \notin Own
    BY <1>1, InFlightBy
  <1>3. Queue' /\ (~scene.kafka => By(log') = {} /\ handling' = None)
    BY <1>1, <1>2 DEF Queue, InMemory
  <1>4. QED BY <1>1, <1>3, GroupKeeps

LEMMA HandlerRaisesKeeps == ASSUME RunInv, HandlerRaises PROVE RunInv'
  <1>1. UNCHANGED <<scene, cleared, acted, bus, stopReq, outcome, code>> /\ handling' = None
        /\ handling'.by = "none"
    BY DEF HandlerRaises
  <1>2. CASE scene.kafka
    <2>1. UNCHANGED <<at, step, released, done, fault, waiting, tasks, log, feedVars>>
      BY <1>2 DEF HandlerRaises
    <2>2. Steps' = Steps /\ (~InFlight => ~InFlight')
      BY <1>1, <2>1, StepsAre, InFlightBy DEF Shape
    <2>3. Shape' /\ Queue' /\ Uncleared' /\ Faulted'
      BY <1>1, <2>1 DEF Shape, Queue, Uncleared, Faulted
    <2>4. InMemory' /\ FeedInv' /\ Walk' /\ Ending'
      BY <1>1, <1>2, <2>1, <2>2 DEF InMemory, FeedInv, Walk, Ending, AtStep
    <2>5. QED BY <2>3, <2>4
  <1>3. CASE ~scene.kafka
    <2>1. GroupAborts /\ log' = <<>>
      BY <1>3 DEF HandlerRaises
    <2>2. Queue' /\ By(log') = {}
      BY <2>1, EmptyBy DEF Queue
    <2>3. QED BY <1>1, <2>1, <2>2, GroupKeeps
  <1>4. QED BY <1>2, <1>3

\* The tasks' own steps.
LEMMA PublishKeeps ==
    ASSUME RunInv, NEW p \in tasks, NEW w, Publish(p, w),
           UNCHANGED <<scene, at, step, released, cleared, bus, handling, tasks, runVars>>,
           UNCHANGED <<session, stopping>>,
           drain' = (IF p = "feed" THEN "publishing" ELSE drain), p = "job" => outcome = "working",
           p = "feed" => drain # "returned" /\ (drain = "publishing" => "feed" \in waiting)
    PROVE  RunInv'
  <1>1. Queue' /\ By(log') = By(log) \cup {p}
    BY Published
  <1>2. /\ p \notin waiting
        /\ waiting' = waiting \cup {p} \/ (waiting' = waiting /\ waiting # {})
    BY DEF Publish
  <1>3. cleared /\ p \in Tasks /\ at \notin {"faulting", "over"} /\ at \notin Starting
    BY DEF Shape, Uncleared, Faulted
  <1>4. Shape'
    BY <1>2 DEF Shape
  <1>5. Uncleared' /\ Faulted'
    BY <1>1, <1>2, <1>3 DEF Uncleared, Faulted
  <1>6. InMemory'
    BY <1>1, <1>2, <1>3 DEF InMemory
  <1>7. FeedInv'
    BY <1>2, <1>3 DEF FeedInv
  <1>8. Steps' = Steps
    BY StepsAre DEF Shape
  <1>9. Walk'
    <2>1. at = "stopping" /\ step > 5 => p = "feed"
      BY <1>3 DEF Walk, Shape
    <2>2. at = "stopping" /\ step > 5 => p # "feed"
      BY DEF Walk, FeedInv, Shape
    <2>3. at = "stopping" => step \in Nat /\ step <= 5
      BY <2>1, <2>2 DEF Shape
    <2>4. QED BY <1>8, <2>3 DEF Walk, AtStep
  <1>10. Ending'
    BY <1>3 DEF Ending
  <1>11. QED BY <1>1, <1>4, <1>5, <1>6, <1>7, <1>9, <1>10

LEMMA TaskPublishesKeeps ==
    ASSUME RunInv, NEW p \in Tasks, TaskPublishes(p)
    PROVE  RunInv'
  <1>1. /\ p \in tasks \ {"feed"} /\ (p = "job" => outcome = "working") /\ Publish(p, <<>>)
        /\ UNCHANGED <<scene, at, step, released, cleared, bus, handling, tasks, runVars, feedVars>>
    BY DEF TaskPublishes
  <1>2. QED BY <1>1, PublishKeeps

LEMMA FeedTakesKeeps == ASSUME RunInv, FeedTakes PROVE RunInv'
  <1>1. /\ "feed" \in tasks /\ drain = "ready" /\ drain' = "publishing" /\ Publish("feed", Taken)
        /\ UNCHANGED <<scene, at, step, released, cleared, bus, handling, tasks, runVars>>
        /\ UNCHANGED <<session, stopping>>
    BY DEF FeedTakes, Take
  <1>2. QED BY <1>1, PublishKeeps

LEMMA JobKeeps == ASSUME RunInv, JobStarts \/ JobStartsFeed \/ JobReturns PROVE RunInv'
  <1>1. "job" \in tasks /\ at \in {"running", "stopping"}
    BY DEF JobStarts, JobStartsFeed, JobReturns, Shape, Uncleared, Faulted, FeedInv
  <1>2. /\ UNCHANGED <<scene, at, step, released, cleared, bus, log, handling, poison, waiting>>
        /\ UNCHANGED <<fault, done, acted, code>>
    BY DEF JobStarts, JobStartsFeed, JobReturns
  <1>3. Steps' = Steps /\ (~InFlight => ~InFlight')
    BY <1>2, StepsAre, InFlightBy DEF Shape
  <1>4. CASE JobStarts
    <2>1. /\ UNCHANGED feedVars
          /\ \/ tasks' = tasks \ {"job"} /\ UNCHANGED outcome
             \/ outcome' = "working" /\ UNCHANGED tasks
      BY <1>4 DEF JobStarts
    <2>2. "job" \notin waiting
      BY <1>4 DEF JobStarts, Uncleared
    <2>3. tasks' \subseteq tasks /\ waiting \subseteq tasks' \cup {"boot"}
      BY <2>1, <2>2 DEF Shape
    <2>4. Shape' /\ Queue' /\ Faulted'
      BY <1>1, <1>2, <2>3 DEF Shape, Queue, Faulted
    <2>5. Uncleared'
      BY <1>1, <1>2, <2>1, <2>2 DEF Uncleared
    <2>6. InMemory' /\ FeedInv' /\ Walk' /\ Ending'
      BY <1>1, <1>2, <1>3, <2>1 DEF InMemory, FeedInv, Walk, Ending, AtStep
    <2>7. QED BY <2>4, <2>5, <2>6
  <1>5. CASE JobStartsFeed
    <2>1. /\ session = "idle" /\ session' = "opened" /\ tasks' = tasks \cup {"feed"}
          /\ UNCHANGED <<outcome, stopping, drain>>
      BY <1>5 DEF JobStartsFeed, Open
    <2>2. "feed" \notin tasks /\ "feed" \notin waiting
      BY <2>1 DEF FeedInv, Shape
    <2>3. Shape' /\ Queue' /\ Uncleared' /\ Faulted'
      BY <1>1, <1>2, <2>1 DEF Shape, Queue, Uncleared, Faulted
    <2>4. InMemory' /\ FeedInv' /\ Walk' /\ Ending'
      BY <1>1, <1>2, <1>3, <2>1, <2>2 DEF InMemory, FeedInv, Walk, Ending, AtStep
    <2>5. QED BY <2>3, <2>4
  <1>6. CASE JobReturns
    <2>1. /\ tasks' = tasks \ {"job"} /\ "job" \notin waiting /\ UNCHANGED feedVars
      BY <1>6 DEF JobReturns
    <2>2. Shape' /\ Queue' /\ Uncleared' /\ Faulted'
      BY <1>1, <1>2, <2>1 DEF Shape, Queue, Uncleared, Faulted
    <2>3. InMemory' /\ FeedInv' /\ Walk' /\ Ending'
      BY <1>1, <1>2, <1>3, <2>1 DEF InMemory, FeedInv, Walk, Ending, AtStep
    <2>4. QED BY <2>2, <2>3
  <1>7. QED BY <1>4, <1>5, <1>6

\* The session moves inside its task: it reads only while no stop has been released.
LEMMA FeedKeeps == ASSUME RunInv, FeedMoves \/ FeedReturns \/ VenueSends PROVE RunInv'
  <1>1. "feed" \in tasks /\ at \in {"running", "stopping"}
    BY DEF FeedMoves, FeedReturns, VenueSends, Shape, Uncleared, Faulted, FeedInv
  <1>2. /\ UNCHANGED <<scene, at, step, released, cleared, bus, log, handling, poison, waiting>>
        /\ UNCHANGED <<runVars, stopping>>
    BY DEF FeedMoves, FeedReturns, VenueSends, ConsumeOpened, Consume, Overtaken, ConsumeEnds,
      BackoffEnds, Reconnect, ReaderEnds, Rest, Wake, PublishEnds, Offer, HangUp,
      ReconnectRefused
  <1>3. Steps' = Steps /\ (~InFlight => ~InFlight')
    BY <1>2, StepsAre, InFlightBy DEF Shape
  <1>4. tasks' \in {tasks, tasks \ {"feed"}} /\ (tasks' = tasks \/ session = "ended")
    BY DEF FeedMoves, FeedReturns, VenueSends
  <1>5. /\ session' # "idle"
        /\ drain' # "returned" => session' = "reading"
        /\ "feed" \in waiting => drain' = "publishing" /\ drain = "publishing"
        /\ session \in {"opened", "ended"} /\ stopping => session' = "ended" \/ session' = session
    <2>1. CASE FeedMoves
      BY <2>1 DEF FeedMoves, ConsumeOpened, Consume, Overtaken, ConsumeEnds, Unless,
        BackoffEnds, Reconnect, ReaderEnds, Rest, Wake, PublishEnds, FeedInv
    <2>2. CASE FeedReturns
      BY <2>2 DEF FeedReturns, FeedInv
    <2>3. CASE VenueSends
      BY <2>3 DEF VenueSends, Offer, HangUp, ReconnectRefused, FeedInv
    <2>4. QED BY <2>1, <2>2, <2>3
  <1>6. "feed" \notin waiting \/ tasks' = tasks
    BY <1>4 DEF FeedInv
  <1>7. "feed" \notin tasks' => session' = "ended"
    BY <1>4, <1>1 DEF FeedReturns, FeedMoves, VenueSends
  <1>8. Shape' /\ Queue' /\ Uncleared' /\ Faulted'
    BY <1>1, <1>2, <1>4, <1>6 DEF Shape, Queue, Uncleared, Faulted
  <1>9. InMemory' /\ FeedInv'
    BY <1>1, <1>2, <1>4, <1>5, <1>7 DEF InMemory, FeedInv
  <1>10. Walk'
    BY <1>1, <1>2, <1>3, <1>4, <1>5 DEF Walk, AtStep, Shape, FeedInv
  <1>11. Ending'
    BY <1>1, <1>2 DEF Ending
  <1>12. QED BY <1>8, <1>9, <1>10, <1>11

\* The stop.
LEMMA StopBeginsKeeps == ASSUME RunInv, RequestStop \/ BeginStop PROVE RunInv'
  <1>1. /\ UNCHANGED <<scene, released, cleared, busVars, tasks, outcome, fault, done, acted>>
        /\ UNCHANGED <<code, link, buffer>>
    BY DEF RequestStop, BeginStop
  <1>2. Steps' = Steps /\ (~InFlight => ~InFlight')
    BY <1>1, StepsAre, InFlightBy DEF Shape
  <1>3. CASE RequestStop
    <2>1. UNCHANGED <<at, step>>
      BY <1>3 DEF RequestStop
    <2>2. Shape' /\ Queue' /\ Uncleared' /\ Faulted'
      BY <1>1, <2>1 DEF Shape, Queue, Uncleared, Faulted
    <2>3. InMemory' /\ FeedInv' /\ Walk' /\ Ending'
      BY <1>1, <1>2, <2>1 DEF InMemory, FeedInv, Walk, Ending, AtStep
    <2>4. QED BY <2>2, <2>3
  <1>4. CASE BeginStop
    <2>1. at = "running" /\ at' = "stopping" /\ step' = 1
      BY <1>4 DEF BeginStop
    <2>2. Shape' /\ Queue' /\ Uncleared' /\ Faulted'
      BY <1>1, <2>1 DEF Shape, Queue, Uncleared, Faulted
    <2>3. InMemory' /\ FeedInv' /\ Ending'
      BY <1>1, <2>1 DEF InMemory, FeedInv, Ending
    <2>4. ~released /\ done = {} /\ Len(Steps) \in {7, 8}
      BY <2>1, StepsAre DEF Walk, Faulted, AtStep, Shape
    <2>5. Walk'
      BY <1>1, <1>2, <2>1, <2>4 DEF Walk, AtStep
    <2>6. QED BY <2>2, <2>3, <2>5
  <1>5. QED BY <1>3, <1>4

LEMMA ReleaseKeeps == ASSUME RunInv, ReleaseSeam PROVE RunInv'
  <1>1. /\ UNCHANGED <<scene, at, step, cleared, busVars, tasks, runVars, session, drain>>
        /\ AtStep("feed") \/ AtStep("exchange")
        /\ stopping' = stopping \/ (AtStep("feed") /\ stopping' = TRUE)
        /\ AtStep("feed") => stopping' = TRUE
    BY DEF ReleaseSeam, Release
  <1>2. Steps' = Steps /\ (~InFlight => ~InFlight')
    BY <1>1, StepsAre, InFlightBy DEF Shape
  <1>3. Shape' /\ Queue' /\ Uncleared' /\ Faulted'
    BY <1>1 DEF Shape, Queue, Uncleared, Faulted
  <1>4. InMemory' /\ FeedInv' /\ Ending'
    BY <1>1, <1>2 DEF InMemory, FeedInv, Ending, AtStep
  <1>5. AtStep("exchange") => step > 1
    BY StepsAre DEF AtStep, Shape
  <1>6. Walk'
    BY <1>1, <1>2, <1>5 DEF Walk, AtStep
  <1>7. QED BY <1>3, <1>4, <1>6

\* Each step of the walk ends what its slot is named for.
LEMMA EndTaskKeeps == ASSUME RunInv, EndTask PROVE RunInv'
  <1>1. PICK name \in DOMAIN TaskOf :
          /\ AtStep(name) /\ (name \in {"feed", "exchange"} => released)
          /\ tasks' = tasks \ {TaskOf[name]}
          /\ waiting' = waiting \ (tasks \ tasks')
          /\ CutCascade(tasks \ tasks')
          /\ IF "feed" \in tasks \ tasks' THEN Cut ELSE UNCHANGED feedVars
          /\ Succeeds(name)
    BY DEF EndTask, Ended
  <1>2. /\ UNCHANGED <<scene, at, cleared, bus, outcome, fault, acted, code>>
        /\ step' = step + 1 /\ released' = FALSE /\ done' = done \cup {name}
    BY <1>1 DEF EndTask, Succeeds, StepEnds
  <1>3. DOMAIN TaskOf = {"feed", "reconcile", "job", "exchange"}
        /\ TaskOf["feed"] = "feed" /\ TaskOf["reconcile"] = "cadence"
        /\ TaskOf["job"] = "job" /\ TaskOf["exchange"] = "exchange"
    BY DEF TaskOf
  <1>4. /\ Steps' = Steps /\ step <= Len(Steps) /\ Steps[step] = name /\ step \in 1..4
        /\ Len(Steps) \in {7, 8} /\ at \in TornDown
        /\ name = "feed" <=> step = 1
        /\ name = "reconcile" <=> step = 2
        /\ name = "job" <=> step = 3
        /\ name = "exchange" <=> step = 4
    BY <1>1, <1>2, <1>3, StepsAre DEF AtStep, Shape
  <1>5. /\ Queue'
        /\ \/ ~scene.kafka /\ By(log') = {} /\ handling' = None
           \/ (scene.kafka \/ (tasks \ tasks') \cap waiting = {}) /\ UNCHANGED <<log, handling>>
    BY <1>1, CutEmpties
  <1>6. By(log') \subseteq By(log) /\ handling' \in {None, handling} /\ None.by = "none"
    BY <1>5
  <1>7. tasks' \subseteq tasks /\ waiting' \subseteq waiting /\ "boot" \notin waiting
    BY <1>1, <1>4 DEF Uncleared
  <1>8. Shape' /\ Uncleared'
    <2>1. waiting' \subseteq tasks' \cup {"boot"}
      BY <1>1 DEF Shape
    <2>2. Shape'
      BY <1>2, <1>7, <2>1 DEF Shape
    <2>3. Uncleared'
      BY <1>2, <1>4, <1>6, <1>7 DEF Uncleared
    <2>4. QED BY <2>2, <2>3
  <1>9. Faulted'
    BY <1>1, <1>2, <1>4 DEF Faulted
  <1>10. InMemory'
    BY <1>1, <1>2, <1>5, <1>6 DEF InMemory
  <1>11. FeedInv' /\ (stopping => stopping')
         /\ session' \in {session, "ended"} /\ (name = "feed" => session' \in {"idle", "ended"})
    <2>1. CASE "feed" \in tasks \ tasks'
      BY <1>1, <1>2, <2>1 DEF FeedInv, Cut
    <2>2. CASE "feed" \notin tasks \ tasks'
      BY <1>1, <1>2, <1>3, <2>2 DEF FeedInv
    <2>3. QED BY <2>1, <2>2
  <1>12. Walk'
    <2>1. ASSUME at = "stopping" PROVE done' = {Steps[i] : i \in 1..(step' - 1)}
      <3>1. done = {Steps[i] : i \in 1..(step - 1)}
        BY <2>1 DEF Walk
      <3>2. 1..(step' - 1) = 1..(step - 1) \cup {step}
        BY <1>2, <1>4
      <3>3. QED BY <1>2, <1>4, <3>1, <3>2
    <2>2. at = "stopping" => stopping
      BY <1>1, <1>4 DEF Walk
    <2>3. at = "stopping" => /\ step' > 2 => "cadence" \notin tasks'
                             /\ step' > 3 => "job" \notin tasks'
                             /\ step' > 4 => "exchange" \notin tasks'
      BY <1>1, <1>2, <1>3, <1>4 DEF Walk
    <2>4. at = "stopping" => session' \in {"idle", "opened", "ended"}
      BY <1>4, <1>11 DEF Walk
    <2>5. "close" \notin done' \/ "close" \in done
      BY <1>2, <1>4
    <2>6. QED BY <1>2, <1>4, <1>6, <1>11, <2>1, <2>2, <2>3, <2>4, <2>5 DEF Walk
  <1>13. Ending'
    BY <1>2, <1>4 DEF Ending
  <1>14. QED BY <1>5, <1>8, <1>9, <1>10, <1>11, <1>12, <1>13

\* The slots behind the tasks': one more step of the walk has succeeded.
LEMMA SlotKeeps ==
    ASSUME RunInv, NEW name \in {"drain", "host", "close", "store"}, AtStep(name), Succeeds(name),
           UNCHANGED <<scene, at, cleared, log, poison, waiting, tasks, outcome, fault, acted>>,
           UNCHANGED <<code, link, buffer>>,
           handling' \in {handling, None}, bus' = bus \/ name = "close",
           name = "close" => bus' = "closed" /\ handling' = None,
           at = "stopping" /\ name = "drain" /\ scene.kafka => ~InFlight
    PROVE  RunInv'
  <1>1. step' = step + 1 /\ released' = FALSE /\ done' = done \cup {name}
    BY DEF Succeeds, StepEnds
  <1>2. /\ Steps' = Steps /\ step <= Len(Steps) /\ Steps[step] = name /\ step \in Nat
        /\ step > 4 /\ Len(Steps) \in {7, 8} /\ at \in TornDown
        /\ step = 5 => name = "drain"
    BY StepsAre DEF AtStep, Shape
  <1>3. None.by = "none" /\ (~InFlight => ~InFlight')
    BY InFlightBy
  <1>4. Shape' /\ Queue' /\ Uncleared' /\ Faulted'
    BY <1>1, <1>2, <1>3 DEF Shape, Queue, Uncleared, Faulted
  <1>5. InMemory' /\ FeedInv' /\ Ending'
    BY <1>1, <1>2 DEF InMemory, FeedInv, Ending
  <1>6. Walk'
    <2>1. ASSUME at = "stopping" PROVE done' = {Steps[i] : i \in 1..(step' - 1)}
      <3>1. done = {Steps[i] : i \in 1..(step - 1)}
        BY <2>1 DEF Walk
      <3>2. 1..(step' - 1) = 1..(step - 1) \cup {step}
        BY <1>1, <1>2
      <3>3. QED BY <1>1, <1>2, <3>1, <3>2
    <2>2. at = "stopping" => stopping /\ session \in {"idle", "opened", "ended"} /\ "cadence" \notin tasks
                             /\ "job" \notin tasks /\ "exchange" \notin tasks
      BY <1>2 DEF Walk
    <2>3. at = "stopping" /\ scene.kafka => ~InFlight'
      BY <1>2, <1>3 DEF Walk
    <2>4. at' \in TornDown /\ "close" \in done' => bus' = "closed" /\ handling' = None
      BY <1>1, <1>2 DEF Walk
    <2>5. QED BY <1>1, <1>2, <2>1, <2>2, <2>3, <2>4 DEF Walk
  <1>7. QED BY <1>4, <1>5, <1>6

LEMMA SlotsKeep == ASSUME RunInv, Drain \/ Snapshot \/ CloseBus \/ CloseStore PROVE RunInv'
  <1>1. CASE Drain
    BY <1>1, SlotKeeps DEF Drain
  <1>2. CASE Snapshot
    BY <1>2, SlotKeeps DEF Snapshot
  <1>3. CASE CloseBus
    BY <1>3, SlotKeeps DEF CloseBus
  <1>4. CASE CloseStore
    BY <1>4, SlotKeeps DEF CloseStore
  <1>5. QED BY <1>1, <1>2, <1>3, <1>4

LEMMA StepFailureKeeps == ASSUME RunInv, StepFails \/ DrainFails PROVE RunInv'
  <1>1. FailedStep /\ at \in TornDown /\ UNCHANGED <<scene, cleared, bus, outcome, acted, code>>
    BY DEF StepFails, DrainFails, AtStep
  <1>2. "boot" \notin waiting
    BY <1>1 DEF Uncleared
  <1>3. CASE at = "stopping"
    BY <1>1, <1>2, <1>3, CutGroupKeeps DEF FailedStep
  <1>4. CASE at # "stopping"
    <2>1. at = "faulting" /\ step' = step + 1 /\ released' = FALSE
          /\ UNCHANGED <<at, done, fault, waiting, tasks, log, handling, feedVars>>
      BY <1>1, <1>4 DEF FailedStep, StepEnds
    <2>2. Shape' /\ Queue' /\ Uncleared' /\ Faulted'
      BY <1>1, <2>1 DEF Shape, Queue, Uncleared, Faulted
    <2>3. InMemory' /\ FeedInv' /\ Walk' /\ Ending'
      BY <1>1, <2>1 DEF InMemory, FeedInv, Walk, Ending
    <2>4. QED BY <2>2, <2>3
  <1>5. QED BY <1>3, <1>4

\* A run is over with the code its walk has earned.
LEMMA OverKeeps == ASSUME RunInv, Over PROVE RunInv'
  <1>1. /\ at \in TornDown /\ step > Len(Steps) /\ tasks = {} /\ at' = "over" /\ code' = Code
        /\ UNCHANGED <<scene, step, released, cleared, busVars, tasks, outcome, fault, done, acted>>
        /\ UNCHANGED feedVars
    BY DEF Over
  <1>2. /\ Steps' = Steps /\ (~InFlight => ~InFlight') /\ Len(Steps) \in {7, 8}
        /\ DOMAIN Steps = 1..Len(Steps) /\ step \in Nat
    BY <1>1, StepsAre, InFlightBy DEF Shape
  <1>3. Shape' /\ Queue' /\ Uncleared' /\ Faulted'
    BY <1>1 DEF Shape, Queue, Uncleared, Faulted
  <1>4. InMemory' /\ FeedInv'
    BY <1>1 DEF InMemory, FeedInv
  <1>5. Walk'
    BY <1>1, <1>2 DEF Walk, AtStep
  <1>6. waiting = {}
    BY <1>1 DEF Shape, Uncleared
  <1>7. fault = "none" => at = "stopping"
    BY <1>1 DEF Faulted
  <1>8. ASSUME fault # "none" PROVE Ending'
    <2>1. code' = IF fault = "refusal" THEN 2 ELSE 1
      BY <1>1, <1>8 DEF Code, Shape
    <2>2. QED BY <1>1, <2>1 DEF Ending, Uncleared
  <1>9. ASSUME fault = "none" PROVE Ending'
    <2>1. step - 1 = Len(Steps) /\ done = {Steps[i] : i \in 1..(step - 1)}
      BY <1>1, <1>2, <1>7, <1>9 DEF Walk
    <2>2. ~InFlight
      <3>1. CASE scene.kafka
        BY <1>1, <1>2, <1>7, <1>9, <3>1 DEF Walk
      <3>2. CASE ~scene.kafka
        BY <1>6, <3>2, InFlightBy DEF InMemory
      <3>3. QED BY <3>1, <3>2
    <2>3. code' = IF scene.job /\ outcome # "done" THEN 1 ELSE 0
      BY <1>1, <1>9 DEF Code
    <2>4. QED BY <1>1, <1>2, <1>9, <2>1, <2>2, <2>3 DEF Ending
  <1>10. QED BY <1>3, <1>4, <1>5, <1>8, <1>9

LEMMA StutterKeeps == ASSUME RunInv, UNCHANGED vars PROVE RunInv'
  <1>1. Steps' = Steps /\ (~InFlight => ~InFlight')
    BY StepsAre, InFlightBy DEF Shape
  <1>2. Shape' /\ Queue' /\ Uncleared' /\ Faulted'
    BY DEF Shape, Queue, Uncleared, Faulted
  <1>3. InMemory' /\ FeedInv' /\ Walk' /\ Ending'
    BY <1>1 DEF InMemory, FeedInv, Walk, Ending, AtStep
  <1>4. QED BY <1>2, <1>3

LEMMA RunInvHolds == Spec => []RunInv
  <1>1. ASSUME RunInv, [Next]_vars PROVE RunInv'
    <2>1. CASE Starts
      BY <1>1, <2>1, StartKeeps, BusStartKeeps, HealsKeeps, StartFailureKeeps DEF Starts
    <2>2. CASE Align \/ BudgetGoes
      BY <1>1, <2>2, StartKeeps
    <2>3. CASE Delivers
      BY <1>1, <2>3, DispatchKeeps, HandledKeeps, PublishReturnsKeeps, PublishRaisesKeeps
         DEF Delivers
    <2>4. CASE Works
      BY <1>1, <2>4, JobKeeps, FeedTakesKeeps, FeedKeeps DEF Works
    <2>5. CASE Stops
      BY <1>1, <2>5, StopBeginsKeeps, ReleaseKeeps, EndTaskKeeps, SlotsKeep, StepFailureKeeps,
         OverKeeps DEF Stops
    <2>6. CASE StepFreezes \/ StartRaises \/ HandlerRaises \/ FeedWillNotConnect
      BY <1>1, <2>6, StartFailureKeeps, HandlerRaisesKeeps, TaskFailureKeeps
    <2>7. CASE \E p \in Tasks : TaskRaises(p) \/ TaskPublishes(p)
      BY <1>1, <2>7, TaskFailureKeeps, TaskPublishesKeeps
    <2>8. CASE JobStartsFeed \/ VenueSends \/ RequestStop \/ StepFails
      BY <1>1, <2>8, JobKeeps, FeedKeeps, StopBeginsKeeps, StepFailureKeeps
    <2>9. CASE UNCHANGED vars
      BY <1>1, <2>9, StutterKeeps
    <2>10. QED BY <1>1, <2>1, <2>2, <2>3, <2>4, <2>5, <2>6, <2>7, <2>8, <2>9 DEF Next
  <1>2. QED BY <1>1, InitRuns, PTL DEF Spec

\* Whatever is cancelled, raises or runs out of its time, nothing of this process
\* publishes behind the venue's slot of a teardown, and the store closes under no
\* handler once the bus has closed.
THEOREM PublishersHaveEnded == Spec => []PublishersEndFirst
  <1>1. ASSUME RunInv PROVE PublishersEndFirst
    <2>1. Len(Steps) \in {7, 8} /\ step \in Nat /\ step # 0
      BY <1>1, StepsAre DEF Shape
    <2>2. ASSUME at \in TornDown,
                 step > Len(Steps) \/ Steps[step] \in {"drain", "host", "close", "store"}
          PROVE  Publishers = {} /\ waiting = {}
      <3>1. step > 4
        <4>1. step \notin {1, 2, 3, 4}
          BY <1>1, <2>1, <2>2, StepsAre DEF Shape
        <4>2. QED BY <2>1, <4>1
      <3>2. "boot" \notin waiting
        BY <1>1, <2>2 DEF Uncleared
      <3>3. CASE at = "faulting"
        BY <1>1, <3>2, <3>3 DEF Faulted, Shape, Publishers
      <3>4. CASE at = "stopping"
        <4>1. tasks \subseteq {"feed"} /\ drain = "returned"
          BY <1>1, <2>1, <3>1, <3>4 DEF Walk, Shape, FeedInv
        <4>2. QED BY <1>1, <3>2, <4>1 DEF Shape, FeedInv, Publishers
      <3>5. QED BY <2>2, <3>3, <3>4
    <2>3. at \in TornDown /\ "close" \in done => handling = None
      BY <1>1 DEF Walk
    <2>4. QED BY <2>2, <2>3 DEF PublishersEndFirst
  <1>2. QED BY <1>1, RunInvHolds, PTL

\* An exit code of 0 is earned: no fault, every step of the teardown, an exit job
\* that confirmed itself done, and a drained bus.  A 2 has placed nothing.
THEOREM CodesAreTrue == Spec => []ExitCodeIsTrue
  <1>1. ASSUME RunInv PROVE ExitCodeIsTrue
    BY <1>1 DEF Ending, Uncleared, ExitCodeIsTrue
  <1>2. QED BY <1>1, RunInvHolds, PTL
===============================================================================
