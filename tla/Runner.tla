-------------------------------- MODULE Runner --------------------------------
(***************************************************************************)
(* The Engine host: the store's lock, the ordered start, the barrier, the  *)
(* supervised tasks, the stop that reverses the start, and the best-effort *)
(* teardown of a fault, with the live feed and the venue's start.          *)
(*                                                                         *)
(* The bus is the queue of what was published and not handled; over Kafka  *)
(* it begins with the records an earlier life left.  A record is who       *)
(* published it and what it carries.  What handlers publish in turn is     *)
(* part of their handling (KafkaBus has the transport in detail), and the  *)
(* partitions' queues are one.                                             *)
(*                                                                         *)
(* An operator that stands before the one it is named after is a plausible *)
(* bug in it, for the sensitivity runs of PROJECT.json; no specification   *)
(* uses it.                                                                *)
(***************************************************************************)
EXTENDS LiveFeed, Preflight, FiniteSets

\* The runs to check: what each one finds, and its bounds.
CONSTANT Scenes

OldRecords == [by : {"old_fill", "old_place", "old_cancel"}, row : {<<>>}]

ASSUME RunnerAssumption ==
    \A sc \in Scenes :
        /\ sc.job \in BOOLEAN /\ sc.kafka \in BOOLEAN /\ sc.live \in BOOLEAN
        /\ sc.backlog \in Seq(OldRecords)
        /\ sc.account \in [mode : STRING, leverage : [Symbols -> Nat]]
        /\ DOMAIN sc.book \subseteq Symbols /\ sc.book \in [DOMAIN sc.book -> Nat]
        /\ sc.held \subseteq Symbols

VARIABLES
    scene,   \* the run: its job, bus, venue, store, book, held, backlog
    left,    \* bound counters: mishaps, rows, hangups, publishes
    at,      \* where run() is
    step,    \* the teardown step it is at
    released,\* the seam of that step was released, its task not yet ended
    gate,    \* the account row is open
    cleared, \* the barrier has cleared
    bus,     \* down, up, closed
    log,     \* the records published and not yet handled
    handling,\* the record a handler is at
    poison,  \* a handler's error no drain has raised yet
    waiting, \* the publishers whose publish has not returned
    tasks,   \* the supervised tasks that are alive
    stopReq, \* a stop was requested
    outcome, \* what the exit job reported
    fault,   \* none, fault, refusal
    done,    \* history: the teardown steps that succeeded in this walk
    store,   \* open, closed
    acted,   \* history: this process placed an order at the venue
    code     \* the exit code

busVars == <<bus, log, handling, poison, waiting>>
runVars == <<stopReq, outcome, fault, done, store, acted, code>>
vars == <<scene, left, at, step, released, gate, cleared, busVars, tasks, runVars,
          feedVars, preVars>>

\* The tasks a run supervises, all of which may publish; the boot publishes too.
Tasks == {"feed", "cadence", "exchange", "job"}
Own == Tasks \cup {"boot"}
None == [by |-> "none", row |-> <<>>]

Init ==
    /\ scene \in Scenes
    /\ left = scene.left
    /\ at = "lock" /\ step = 1 /\ released = FALSE
    /\ gate = FALSE /\ cleared = FALSE
    /\ bus = "down" /\ log = <<>> /\ handling = None /\ poison = FALSE /\ waiting = {}
    /\ tasks = {} /\ stopReq = FALSE /\ outcome = "none" /\ fault = "none"
    /\ done = {} /\ store = "open" /\ acted = FALSE /\ code = 9
    /\ FeedInit
    /\ account = scene.account
    /\ guard = "mode" /\ unpushed = {} /\ spent = FALSE

Spend(what) == left[what] > 0 /\ left' = [left EXCEPT ![what] = @ - 1]

\* The run goes wrong: the group has cancelled its tasks and waited for them, and
\* the faulted teardown begins at the top.  In memory a publish delivers its own
\* cascade, so its cancel drops what is left of it.
CutCascade(ps) ==
    IF ~scene.kafka /\ ps \cap waiting # {}
    THEN log' = <<>> /\ handling' = None
    ELSE UNCHANGED <<log, handling>>

Faults(kind) ==
    /\ at' = "faulting" /\ step' = 1 /\ released' = FALSE /\ done' = {}
    /\ fault' = kind /\ waiting' = {}

\* Before the group opens there is nothing to cancel.
Aborts(kind) == Faults(kind) /\ UNCHANGED tasks

-------------------------------------------------------------------------------
(* The start                                                               *)

\* A store it must not touch, or cannot: nothing is started or torn down.
Refused(exitCode) ==
    /\ at' = "over" /\ code' = exitCode /\ store' = "closed"

Lock ==
    /\ at = "lock"
    /\ CASE scene.store = "held"   -> Refused(IF scene.job THEN 2 ELSE 1)
         [] scene.store = "broken" -> Refused(IF scene.job THEN 2 ELSE 1)
         [] scene.store = "new" /\ scene.job -> Refused(2)
         [] OTHER -> at' = "recover" /\ UNCHANGED <<code, store>>
    /\ UNCHANGED <<scene, left, step, released, gate, cleared, busVars, tasks, stopReq,
                   outcome, fault, done, acted, feedVars, preVars>>

\* recover() and the subscriptions: a store bound to another account refuses.
Recover ==
    /\ at = "recover"
    /\ IF scene.store = "foreign" THEN Aborts("refusal")
       ELSE at' = "bus" /\ UNCHANGED <<step, released, done, fault, tasks, waiting>>
    /\ UNCHANGED <<scene, left, gate, cleared, bus, log, handling, poison, stopReq, outcome,
                   store, acted, code, feedVars, preVars>>

StartBus ==
    /\ at = "bus"
    /\ bus' = "up" /\ at' = "exchange"
    /\ log' = IF scene.kafka THEN scene.backlog ELSE <<>>
    /\ UNCHANGED <<scene, left, step, released, gate, cleared, handling, poison, waiting,
                   tasks, runVars, feedVars, preVars>>

\* The venue's start.  Paper has nothing to align.
Align ==
    /\ at = "exchange" /\ scene.live
    /\ \/ ReadMode(scene.book) /\ UNCHANGED left
       \/ ReadHeld(scene.book, scene.held) /\ UNCHANGED left
       \/ Push(scene.book) /\ UNCHANGED left
       \/ Pushed /\ UNCHANGED left
       \/ OpenSocket /\ UNCHANGED left
       \/ (ReadFails \/ PushUnanswered(scene.book) \/ PushRefused) /\ Spend("mishaps")
    /\ UNCHANGED <<scene, at, step, released, gate, cleared, busVars, tasks, runVars, feedVars>>

\* The deadline of the venue's start, then one of the barrier's own.
BudgetGoes ==
    /\ at \in {"exchange", "barrier"} /\ TimePasses
    /\ UNCHANGED <<scene, left, at, step, released, gate, cleared, busVars, tasks, runVars,
                   feedVars>>

\* The proofs of the barrier, in order: the account row, then the orders.
BarrierStepsSwapped == <<"rebuild", "account">>
BarrierSteps == <<"account", "rebuild">>

VenueStarted ==
    /\ at = "exchange"
    /\ ~scene.live \/ guard = "aligned"
    /\ at' = "barrier" /\ step' = 1 /\ spent' = FALSE
    /\ UNCHANGED <<scene, left, released, gate, cleared, busVars, tasks, runVars, feedVars,
                   account, guard, unpushed>>

VenueRefuses ==
    /\ at = "exchange" /\ guard \in {"refused", "failed"}
    /\ Aborts(IF guard = "refused" THEN "refusal" ELSE "fault")
    /\ UNCHANGED <<scene, left, gate, cleared, bus, log, handling, poison, stopReq, outcome,
                   store, acted, code, feedVars, preVars>>

InStep(name) == at = "barrier" /\ step \in DOMAIN BarrierSteps /\ BarrierSteps[step] = name

Materialise ==
    /\ InStep("account")
    /\ gate' = TRUE /\ step' = step + 1
    /\ UNCHANGED <<scene, left, at, released, cleared, busVars, tasks, runVars, feedVars,
                   preVars>>

\* The rebuild publishes what it heals and returns when that has been delivered.
Publish(p, what) ==
    /\ bus = "up" /\ p \notin waiting
    /\ log' = Append(log, [by |-> p, row |-> what])
    /\ waiting' = IF scene.kafka \/ waiting = {} THEN waiting \cup {p} ELSE waiting

Heals ==
    /\ InStep("rebuild") /\ left.heals > 0
    /\ Publish("boot", <<>>)
    /\ left' = [left EXCEPT !.heals = @ - 1]
    /\ UNCHANGED <<scene, at, step, released, gate, cleared, bus, handling, poison, tasks,
                   runVars, feedVars, preVars>>

Rebuild ==
    /\ InStep("rebuild") /\ "boot" \notin waiting /\ left.heals = 0
    /\ step' = step + 1
    /\ UNCHANGED <<scene, left, at, released, gate, cleared, busVars, tasks, runVars, feedVars,
                   preVars>>

\* A step freezes: the sequence is driven again from its top while the budget
\* lasts, and refuses after it.
StepFreezes ==
    /\ at = "barrier" /\ "boot" \notin waiting /\ step <= Len(BarrierSteps)
    /\ Spend("mishaps")
    /\ IF spent
       THEN Aborts("fault")
       ELSE step' = 1 /\ UNCHANGED <<at, released, done, fault, tasks, waiting>>
    /\ UNCHANGED <<scene, gate, cleared, bus, log, handling, poison, stopReq, outcome, store,
                   acted, code, feedVars, preVars>>

\* The barrier clears, strategies start, and the task group opens.  The feed is
\* connected inline, with the other tasks already running.
BarrierClears ==
    /\ at = "barrier" /\ step > Len(BarrierSteps)
    /\ cleared' = TRUE /\ at' = (IF scene.job THEN "running" ELSE "feeding")
    /\ tasks' = IF scene.job THEN {"exchange", "job"} ELSE {"exchange", "cadence"}
    /\ UNCHANGED <<scene, left, step, released, gate, busVars, runVars, feedVars, preVars>>

StartFeed ==
    /\ at = "feeding"
    /\ Open
    /\ at' = "running" /\ tasks' = tasks \cup {"feed"}
    /\ UNCHANGED <<scene, left, step, released, gate, cleared, busVars, runVars, preVars>>

\* Whatever the run awaits inline may raise: the bus or the feed will not connect.
StartRaises ==
    /\ \/ at = "bus"
       \/ at = "exchange" /\ ~scene.live
    /\ Spend("mishaps")
    /\ Aborts("fault")
    /\ UNCHANGED <<scene, gate, cleared, bus, log, handling, poison, stopReq, outcome, store,
                   acted, code, feedVars, preVars>>
-------------------------------------------------------------------------------
(* The bus                                                                 *)

InFlight == handling.by \in Own \/ \E i \in DOMAIN log : log[i].by \in Own

\* In memory the publish that found the bus idle delivers; over Kafka the poll
\* loop does, and drops the tail of a cascade that faulted.
Dispatch ==
    /\ bus = "up" /\ handling = None /\ log # <<>>
    /\ scene.kafka \/ waiting # {}
    /\ log' = Tail(log)
    /\ handling' = IF poison THEN None ELSE Head(log)
    /\ UNCHANGED <<scene, left, at, step, released, gate, cleared, bus, poison, waiting, tasks,
                   runVars, feedVars, preVars>>

\* Reports and payments wait for the account row.
Gated == {"old_fill", "boot", "cadence", "exchange"}
Runs == handling # None /\ (handling.by \in Gated => gate)

\* An order goes out for a strategy that heard a row, for the operator, and for an
\* old signal once the barrier has cleared; an exit run denies the strategies'.
Places ==
    \/ handling.by = "job"
    \/ handling.by \in {"feed", "old_place"} /\ cleared /\ ~scene.job

Handled ==
    /\ Runs
    /\ handling' = None
    /\ acted' = (acted \/ Places)
    /\ delivered' = IF handling.by = "feed"
                    THEN [delivered EXCEPT ![handling.row[1]] = handling.row[2]]
                    ELSE delivered
    /\ UNCHANGED <<scene, left, at, step, released, gate, cleared, bus, log, poison, waiting,
                   tasks, stopReq, outcome, fault, done, store, code, link, buffer,
                   offered, preVars>>

\* A publish returns once nothing the process published is in flight.
PublishReturns(p) ==
    /\ p \in waiting /\ ~InFlight /\ ~poison
    /\ waiting' = waiting \ {p}
    /\ UNCHANGED <<scene, left, at, step, released, gate, cleared, bus, log, handling, poison,
                   tasks, runVars, feedVars, preVars>>

-------------------------------------------------------------------------------
(* The supervised tasks                                                    *)

\* A task raises: the group cancels the others and waits for them.
GroupAborts ==
    /\ Faults("fault")
    /\ tasks' = {}
    /\ IF "feed" \in tasks THEN Cut ELSE UNCHANGED feedVars

\* A handler raises.  In memory that is the error of the publish that delivers;
\* over Kafka it waits for the next drain.
HandlerRaises ==
    /\ Runs /\ Spend("mishaps")
    /\ handling' = None
    /\ IF scene.kafka
       THEN /\ poison' = TRUE
            /\ UNCHANGED <<at, step, released, done, fault, waiting, tasks, log, feedVars>>
       ELSE GroupAborts /\ log' = <<>> /\ UNCHANGED poison
    /\ UNCHANGED <<scene, gate, cleared, bus, stopReq, outcome, store, acted, code,
                   preVars>>

PublishRaises(p) ==
    /\ p \in waiting /\ ~InFlight /\ poison
    /\ poison' = FALSE
    /\ GroupAborts
    /\ UNCHANGED <<scene, left, gate, cleared, bus, log, handling, stopReq, outcome, store,
                   acted, code, preVars>>

TaskRaises(p) ==
    /\ p \in tasks \ waiting /\ Spend("mishaps")
    /\ GroupAborts /\ CutCascade(tasks)
    /\ UNCHANGED <<scene, gate, cleared, bus, poison, stopReq, outcome, store, acted, code,
                   preVars>>

FeedWillNotConnect ==
    /\ at = "feeding" /\ Spend("mishaps")
    /\ GroupAborts /\ CutCascade(tasks)
    /\ UNCHANGED <<scene, gate, cleared, bus, poison, stopReq, outcome, store, acted, code,
                   preVars>>

\* A cadence publishes what it heals, the venue's loop a payment, the job a close.
TaskPublishes(p) ==
    /\ p \in tasks \ {"feed"} /\ (p = "job" => outcome = "working")
    /\ Spend("publishes") /\ Publish(p, <<>>)
    /\ UNCHANGED <<scene, at, step, released, gate, cleared, bus, handling, poison, tasks,
                   runVars, feedVars, preVars>>

\* A stop that came during the boot: the job never starts.
JobStarts ==
    /\ "job" \in tasks /\ outcome = "none"
    /\ IF stopReq THEN tasks' = tasks \ {"job"} /\ UNCHANGED outcome
                  ELSE outcome' = "working" /\ UNCHANGED tasks
    /\ UNCHANGED <<scene, left, at, step, released, gate, cleared, busVars, stopReq, fault, done,
                   store, acted, code, feedVars, preVars>>

JobStartsFeed ==
    /\ "job" \in tasks \ waiting /\ outcome = "working"
    /\ Open /\ tasks' = tasks \cup {"feed"}
    /\ UNCHANGED <<scene, left, at, step, released, gate, cleared, busVars, runVars, preVars>>

JobReturns ==
    /\ "job" \in tasks \ waiting /\ outcome = "working"
    /\ outcome' \in {"done", "stopped"}
    /\ stopReq' = TRUE /\ tasks' = tasks \ {"job"}
    /\ UNCHANGED <<scene, left, at, step, released, gate, cleared, busVars, fault, done, store,
                   acted, code, feedVars, preVars>>

FeedTakes ==
    /\ "feed" \in tasks
    /\ Take /\ Publish("feed", Taken)
    /\ UNCHANGED <<scene, left, at, step, released, gate, cleared, bus, handling, poison, tasks,
                   runVars, preVars>>

FeedMoves ==
    /\ "feed" \in tasks
    /\ \/ ConsumeOpened \/ Overtaken \/ ConsumeEnds \/ BackoffEnds \/ Reconnect \/ ReaderEnds
       \/ Rest \/ Wake
       \/ drain = "publishing" /\ "feed" \notin waiting /\ PublishEnds /\ UNCHANGED delivered
    /\ UNCHANGED <<scene, left, at, step, released, gate, cleared, busVars, tasks, runVars,
                   preVars>>

FeedReturns ==
    /\ "feed" \in tasks /\ session = "ended"
    /\ tasks' = tasks \ {"feed"}
    /\ UNCHANGED <<scene, left, at, step, released, gate, cleared, busVars, runVars, feedVars,
                   preVars>>

\* The venue: it sends rows, hangs up, and refuses connections for a while.
VenueSends ==
    /\ "feed" \in tasks
    /\ \/ \E s \in Streams : Offer(s) /\ Spend("rows")
       \/ (HangUp \/ ReconnectRefused) /\ Spend("hangups")
    /\ UNCHANGED <<scene, at, step, released, gate, cleared, busVars, tasks, runVars, preVars>>

-------------------------------------------------------------------------------
(* The stop                                                                *)

RequestStop ==
    /\ at \notin {"lock", "over"} /\ ~stopReq
    /\ stopReq' = TRUE
    /\ UNCHANGED <<scene, left, at, step, released, gate, cleared, busVars, tasks, outcome,
                   fault, done, store, acted, code, feedVars, preVars>>

BeginStop ==
    /\ at = "running" /\ stopReq
    /\ at' = "stopping" /\ step' = 1
    /\ UNCHANGED <<scene, left, released, gate, cleared, busVars, tasks, runVars, feedVars,
                   preVars>>

\* The one list both teardowns walk; an exit run started no strategies.
Steps ==
    IF scene.job
    THEN <<"feed", "reconcile", "job", "exchange", "drain", "close", "store">>
    ELSE <<"feed", "reconcile", "job", "exchange", "drain", "host", "close", "store">>

TornDown == {"stopping", "faulting"}
AtStep(name) == at \in TornDown /\ step <= Len(Steps) /\ Steps[step] = name

StepEnds == step' = step + 1 /\ released' = FALSE
Succeeds(name) == StepEnds /\ done' = done \cup {name}

\* A seam is released before its task is ended: a request, and no more.
ReleaseSeam ==
    /\ AtStep("feed") \/ AtStep("exchange")
    /\ ~released /\ released' = TRUE
    /\ IF AtStep("feed") THEN Release ELSE UNCHANGED feedVars
    /\ UNCHANGED <<scene, left, at, step, gate, cleared, busVars, tasks, runVars, preVars>>

TaskOf == [feed |-> "feed", reconcile |-> "cadence", job |-> "job", exchange |-> "exchange"]

\* The task is cancelled and waited out.
EndedOnRequest(p) == IF p = "feed" THEN tasks ELSE tasks \ {p}
Ended(p) == tasks \ {p}

EndTask ==
    /\ \E name \in DOMAIN TaskOf :
          LET p == TaskOf[name]
          IN  /\ AtStep(name)
              /\ name \in {"feed", "exchange"} => released
              /\ tasks' = Ended(p)
              /\ waiting' = waiting \ (tasks \ tasks')
              /\ CutCascade(tasks \ tasks')
              /\ IF "feed" \in tasks \ tasks' THEN Cut ELSE UNCHANGED feedVars
              /\ Succeeds(name)
    /\ UNCHANGED <<scene, left, at, gate, cleared, bus, poison, stopReq, outcome, fault, store,
                   acted, code, preVars>>

Drain ==
    /\ AtStep("drain") /\ ~poison
    /\ scene.kafka => ~InFlight
    /\ Succeeds("drain")
    /\ UNCHANGED <<scene, left, at, gate, cleared, busVars, tasks, stopReq, outcome, fault,
                   store, acted, code, feedVars, preVars>>

Snapshot ==
    /\ AtStep("host") /\ Succeeds("host")
    /\ UNCHANGED <<scene, left, at, gate, cleared, busVars, tasks, stopReq, outcome, fault,
                   store, acted, code, feedVars, preVars>>

CloseBus ==
    /\ AtStep("close") /\ Succeeds("close")
    /\ bus' = "closed" /\ handling' = None
    /\ UNCHANGED <<scene, left, at, gate, cleared, log, poison, waiting, tasks, stopReq, outcome,
                   fault, store, acted, code, feedVars, preVars>>

CloseStore ==
    /\ AtStep("store") /\ Succeeds("store")
    /\ store' = "closed"
    /\ UNCHANGED <<scene, left, at, gate, cleared, busVars, tasks, stopReq, outcome, fault,
                   acted, code, feedVars, preVars>>

\* A step raises, or runs out of its time: the graceful teardown faults the run,
\* the faulted one records it and goes on.
FailedStep ==
    IF at = "stopping"
    THEN GroupAborts /\ CutCascade(tasks)
    ELSE /\ StepEnds
         /\ UNCHANGED <<at, done, fault, waiting, tasks, log, handling, feedVars>>

StepFails ==
    /\ at \in TornDown /\ step <= Len(Steps)
    /\ Spend("mishaps") /\ FailedStep
    /\ UNCHANGED <<scene, gate, cleared, bus, poison, stopReq, outcome, store, acted, code,
                   preVars>>

DrainFails ==
    /\ AtStep("drain") /\ scene.kafka
    /\ \/ InFlight /\ UNCHANGED poison
       \/ ~InFlight /\ poison /\ poison' = FALSE
    /\ FailedStep
    /\ UNCHANGED <<scene, left, gate, cleared, bus, stopReq, outcome, store, acted, code,
                   preVars>>

CodeOfOutcome ==
    IF scene.job THEN IF outcome = "done" THEN 0 ELSE 1
    ELSE IF fault = "refusal" THEN 2
    ELSE IF fault = "fault" THEN 1 ELSE 0
Code ==
    IF fault = "refusal" THEN 2
    ELSE IF fault = "fault" \/ (scene.job /\ outcome # "done") THEN 1 ELSE 0

\* The group is left once its tasks have ended.
Over ==
    /\ at \in TornDown /\ step > Len(Steps) /\ tasks = {}
    /\ at' = "over" /\ code' = Code
    /\ UNCHANGED <<scene, left, step, released, gate, cleared, busVars, tasks, stopReq, outcome,
                   fault, done, store, acted, feedVars, preVars>>

-------------------------------------------------------------------------------
Starts == Lock \/ Recover \/ StartBus \/ VenueStarted \/ VenueRefuses \/ Materialise \/ Heals
          \/ Rebuild \/ BarrierClears \/ StartFeed
Delivers == Dispatch \/ Handled \/ \E p \in Own : PublishReturns(p) \/ PublishRaises(p)
Works == JobStarts \/ JobReturns \/ FeedTakes \/ FeedMoves \/ FeedReturns
Stops == BeginStop \/ ReleaseSeam \/ EndTask \/ Drain \/ DrainFails \/ Snapshot \/ CloseBus
         \/ CloseStore \/ Over

Next ==
    \/ Starts \/ Align \/ Delivers \/ Works \/ Stops
    \/ BudgetGoes \/ StepFreezes \/ StartRaises \/ HandlerRaises \/ FeedWillNotConnect
    \/ \E p \in Tasks : TaskRaises(p) \/ TaskPublishes(p)
    \/ JobStartsFeed \/ VenueSends \/ RequestStop \/ StepFails

\* The loop runs what is ready: the boot and the teardown go on, the bus delivers,
\* and the job and the feed's halves take their turns.  The venue answers or the
\* request fails, and a failure is never owed.
AlignsFairly == Align /\ UNCHANGED left

Fairness == WF_vars(Starts) /\ WF_vars(AlignsFairly) /\ WF_vars(Delivers) /\ WF_vars(Works)
            /\ WF_vars(Stops)

Spec == Init /\ [][Next]_vars
FairSpec == Spec /\ Fairness
===============================================================================
