--------------------------- MODULE ControlManager ---------------------------
(***************************************************************************)
(* ControlManager of a unit server and the WorkUnitManagement of its units: *)
(* how the server registers itself with the metadata server (MDS), how     *)
(* units are loaded, registered, published, unloaded, and which of them    *)
(* have their RPC actions in the dispatcher.                               *)
(*                                                                         *)
(* The threads: the asio thread of the timer that registers the server,    *)
(* the thread of manageControlUnit() that drives the units, the owner that *)
(* calls submitControlUnit(), stop() and deinit(), and the RPC threads of  *)
(* loadControlUnit() and unloadControlUnit() (a synchronous call runs on   *)
(* the thread of the RPC server, beside the worker of the domain).  The    *)
(* acknowledgements of the MDS come on RPC threads too and may be lost,    *)
(* repeated or late.                                                       *)
(*                                                                         *)
(* The locks of the two maps are boost's shared_mutex: it lets no reader   *)
(* and no upgradeable lock in while a writer waits, and an upgrade waits   *)
(* for the readers without keeping new ones out.  A step that waits for a  *)
(* lock while its thread holds another one is an action of its own.        *)
(*                                                                         *)
(* Of a unit only its management is here: what _stop() and _deinit() do to *)
(* it is the matter of module ControlUnit.                                 *)
(***************************************************************************)
EXTENDS Naturals, Sequences, FiniteSets, WaitSemaphore

CONSTANTS
    Unit,       \* the ids of the units
    Resend,     \* a registration is repeated every Resend steps (10 in the code)
    MaxLoads    \* bound: units that are submitted

ASSUME ManagerAssumption == Resend \in Nat \ {0} /\ MaxLoads \in Nat

VARIABLES
    server,       \* unit_server_sm, its counter, and whether the MDS was asked
    timer,        \* the timer of the manager: "off", "armed", "fired"
    acking,       \* unitServerRegistrationACK holds unit_server_sm_mutex
    owner,        \* how far stop() and deinit() are: "up", "stopping", "joined", "gone"
    thread_run,
    manager,      \* where the thread of manageControlUnit is
    todo,         \* the units makeSMSteps has still to visit
    sem,          \* thread_waith_semaphore
    queue,        \* queue_submitted_cu
    registering,  \* keys of map_cuid_reg_unreg_instance
    registered,   \* keys of map_cuid_registered_instance
    wu,           \* the WorkUnitManagement of every id
    asked,        \* the units the MDS has been asked to register
    actions,      \* the units whose RPC actions are in the dispatcher
    load,         \* the call of loadControlUnit in progress
    unload,       \* the call of unloadControlUnit in progress
    loads

serverVars == <<server, timer, acking, owner>>
managerVars == <<manager, todo>>
mapVars == <<registering, registered>>
vars == <<serverVars, thread_run, managerVars, sem, queue, mapVars, wu, asked, actions, load, unload, loads>>

Idle == [pc |-> "idle", unit |-> "none"]

\* start() has run: the timer registers the server, or the units are managed at once.
Init ==
    /\ server = [sm |-> "Unpublished", delay |-> 0, asked |-> FALSE]
    /\ acking = FALSE
    /\ owner = "up"
    /\ \/ timer = "armed" /\ thread_run = FALSE /\ manager = "off"   \* use_unit_server
       \/ timer = "off" /\ thread_run = TRUE /\ manager = "top"
    /\ todo = {}
    /\ sem = NewSemaphore
    /\ queue = <<>>
    /\ registering = {} /\ registered = {}
    /\ wu = [u \in Unit |-> [sm |-> "Unpublished", active |-> TRUE, delay |-> 0]]
    /\ asked = {} /\ actions = {}
    /\ load = Idle /\ unload = Idle
    /\ loads = 0

-----------------------------------------------------------------------------
(* The registration of the unit server.                                     *)

units == <<managerVars, sem, queue, mapVars, wu, asked, actions, load, unload, loads>>

\* timerTimeout() takes wait_answer_mutex and keeps it while timeout() runs.
TimerFires ==
    /\ timer = "armed"
    /\ timer' = "fired"
    /\ UNCHANGED <<server, acking, owner, thread_run, units>>

\* timeout(), under unit_server_sm_mutex; stopMe() ends the timer.
Timeout ==
    /\ timer = "fired"
    /\ ~acking
    /\ \/ /\ server.sm = "Unpublished"
          /\ server' = [server EXCEPT !.sm = "Publishing", !.asked = TRUE]
          /\ timer' = "armed"
          /\ UNCHANGED <<thread_run, manager>>
       \/ /\ server.sm = "Publishing"
          /\ server' = [server EXCEPT !.delay = (@ + 1) % Resend, !.asked = @ \/ server.delay = 0]
          /\ timer' = "armed"
          /\ UNCHANGED <<thread_run, manager>>
       \/ /\ server.sm = "Published"
          /\ timer' = "off"
          /\ thread_run' = TRUE
          /\ manager' = "top"
          /\ UNCHANGED server
       \/ /\ server.sm = "PublishingFailure"
          /\ timer' = "off"
          /\ UNCHANGED <<server, thread_run, manager>>
    /\ UNCHANGED <<acking, owner, todo, sem, queue, mapVars, wu, asked, actions, load, unload, loads>>

\* unitServerRegistrationACK(): an event the state machine does not take is refused, so
\* the registrations sent no longer matter after the first answer.
ServerAck(ok) ==
    /\ server.asked
    /\ ~acking
    /\ server.sm = "Publishing"
    /\ server' = [sm |-> IF ok THEN "Published" ELSE "PublishingFailure", delay |-> 0, asked |-> FALSE]
    /\ acking' = ok
    /\ UNCHANGED <<timer, owner, thread_run, units>>

\* Mutant: the timer is removed and not added again.
Rearm_NoTimer ==
    /\ acking
    /\ timer # "fired"
    /\ timer' = "off"
    /\ acking' = FALSE
    /\ UNCHANGED <<server, owner, thread_run, units>>

\* removeTimer(), which takes wait_answer_mutex, and addTimer() with no delay.
Rearm ==
    /\ acking
    /\ timer # "fired"
    /\ timer' = "armed"
    /\ acking' = FALSE
    /\ UNCHANGED <<server, owner, thread_run, units>>

\* The registration, or its acknowledgement, is lost.
ServerLost ==
    /\ server.asked
    /\ server' = [server EXCEPT !.asked = FALSE]
    /\ UNCHANGED <<timer, acking, owner, thread_run, units>>

-----------------------------------------------------------------------------
(* loadControlUnit and unloadControlUnit.                                   *)

\* Who holds, or waits for, the locks of the two maps.
ReadsRegistering == load.pc \in {"locking", "reading"}
ReadsRegistered == load.pc = "reading"
WriterOfRegistered == unload.pc # "idle"
UpgradesRegistered == manager = "migrating"

UseUnitServer == server.sm # "Unpublished" \/ timer # "off"
Served == owner # "gone" /\ UseUnitServer

Known(u) == u \in registering \cup registered
MayLoad == (IF load.pc = "idle" THEN loads ELSE loads + 1) < MaxLoads

\* Of any id.  The lock of the registering map is free for a reader: only Migrate writes.
LoadControlUnit(u) ==
    /\ Served
    /\ load.pc = "idle"
    /\ MayLoad
    /\ load' = [pc |-> "locking", unit |-> u]
    /\ UNCHANGED <<serverVars, thread_run, managerVars, sem, queue, mapVars, wu, asked, actions, unload, loads>>

\* The second read lock is taken while the first is held.  The call fails when the id is
\* in one of the maps, or later when the instance is not made or is refused; otherwise
\* both locks are kept up to the end of the call.
ReadRegistered ==
    /\ load.pc = "locking"
    /\ ~WriterOfRegistered
    /\ \/ load' = Idle
       \/ ~Known(load.unit) /\ load' = [load EXCEPT !.pc = "reading"]
    /\ UNCHANGED <<serverVars, thread_run, managerVars, sem, queue, mapVars, wu, asked, actions, unload, loads>>

\* submitControlUnit(), under mutex_queue_submitted_cu.
SubmitControlUnit ==
    /\ load.pc = "reading"
    /\ manager # "drain"
    /\ queue' = Append(queue, load.unit)
    /\ sem' = Unlock(sem)
    /\ load' = Idle
    /\ loads' = loads + 1
    /\ UNCHANGED <<serverVars, thread_run, managerVars, mapVars, wu, asked, actions, unload>>

\* Mutant: the manager is not told of the unit.
Submit_NoUnlock(u) ==
    /\ owner = "up"
    /\ MayLoad
    /\ manager # "drain"
    /\ queue' = Append(queue, u)
    /\ loads' = loads + 1
    /\ UNCHANGED <<serverVars, thread_run, managerVars, sem, mapVars, wu, asked, actions, load, unload>>

\* The owner submits a unit of its own.
Submit(u) ==
    /\ owner = "up"
    /\ MayLoad
    /\ manager # "drain"
    /\ queue' = Append(queue, u)
    /\ sem' = Unlock(sem)
    /\ loads' = loads + 1
    /\ UNCHANGED <<serverVars, thread_run, managerVars, mapVars, wu, asked, actions, load, unload>>

\* The call, of any id, waits to write the registered map.
UnloadControlUnit(u) ==
    /\ Served
    /\ unload.pc = "idle"
    /\ unload' = [pc |-> "waiting", unit |-> u]
    /\ UNCHANGED <<serverVars, thread_run, managerVars, sem, queue, mapVars, wu, asked, actions, load, loads>>

WriteRegistered == unload.pc = "waiting" /\ ~ReadsRegistered /\ ~UpgradesRegistered

\* The id is not in the registered map.
RefuseUnload ==
    /\ WriteRegistered
    /\ unload.unit \notin registered
    /\ unload' = Idle
    /\ UNCHANGED <<serverVars, thread_run, managerVars, sem, queue, mapVars, wu, asked, actions, load, loads>>

\* The id enters the registering map, without the mutex of that map: makeSMSteps() may
\* be walking it and meet the new entry or not.  Then the unit is turned off and the id
\* leaves the registered map.
InsertUnregistering ==
    /\ WriteRegistered
    /\ unload.unit \in registered
    /\ registering' = registering \cup {unload.unit}
    /\ todo' \in IF manager = "steps" THEN {todo, todo \cup {unload.unit}} ELSE {todo}
    /\ unload' = [unload EXCEPT !.pc = "inserted"]
    /\ UNCHANGED <<serverVars, thread_run, manager, sem, queue, registered, wu, asked, actions, load, loads>>

TurnOff ==
    /\ unload.pc = "inserted"
    /\ wu[unload.unit].sm = "Published"
    /\ wu' = [wu EXCEPT ![unload.unit].sm = "StartUnpublishing"]
    /\ unload' = [unload EXCEPT !.pc = "off"]
    /\ UNCHANGED <<serverVars, thread_run, managerVars, sem, queue, mapVars, asked, actions, load, loads>>

\* Mutant: the manager is not told of the unit.
EraseRegistered_NoUnlock ==
    /\ unload.pc = "off"
    /\ registered' = registered \ {unload.unit}
    /\ unload' = Idle
    /\ UNCHANGED <<serverVars, thread_run, managerVars, sem, queue, registering, wu, asked, actions, load, loads>>

EraseRegistered ==
    /\ unload.pc = "off"
    /\ registered' = registered \ {unload.unit}
    /\ sem' = Unlock(sem)
    /\ unload' = Idle
    /\ UNCHANGED <<serverVars, thread_run, managerVars, queue, registering, wu, asked, actions, load, loads>>

\* workUnitRegistrationACK() for a unit that is registering, perhaps for an earlier one
\* of its id; an event the state machine does not take is refused.  The counter of the
\* registrations is not read again before it is reset.
Ack(u, ok) ==
    /\ owner # "gone"
    /\ u \in asked
    /\ u \in registering
    /\ wu[u].sm = "Publishing"
    /\ wu' = [wu EXCEPT ![u].sm = IF ok THEN "Published" ELSE "PublishingFailure", ![u].delay = 0]
    /\ UNCHANGED <<serverVars, thread_run, managerVars, sem, queue, mapVars, asked, actions, load, unload, loads>>

\* The registration of a unit, or its acknowledgement, is lost.
Lost(u) ==
    /\ u \in asked
    /\ asked' = asked \ {u}
    /\ UNCHANGED <<serverVars, thread_run, managerVars, sem, queue, mapVars, wu, actions, load, unload, loads>>

-----------------------------------------------------------------------------
(* manageControlUnit.                                                       *)

Top ==
    /\ manager = "top"
    /\ manager' = IF thread_run THEN "drain" ELSE "ended"
    /\ UNCHANGED <<serverVars, thread_run, todo, sem, queue, mapVars, wu, asked, actions, load, unload, loads>>

\* Mutant: the counter of the registrations starts at its period.
Fresh_Counted == [sm |-> "StartPublishing", active |-> FALSE, delay |-> Resend]

\* A unit that was just turned on.
Fresh == [sm |-> "StartPublishing", active |-> FALSE, delay |-> 0]

\* The next submitted unit, unless its id is known, under mutex_queue_submitted_cu.
Add ==
    /\ manager = "drain"
    /\ queue # <<>>
    /\ ~WriterOfRegistered
    /\ queue' = Tail(queue)
    /\ IF Known(Head(queue))
       THEN UNCHANGED <<registering, wu>>
       ELSE /\ registering' = registering \cup {Head(queue)}
            /\ wu' = [wu EXCEPT ![Head(queue)] = Fresh]
    /\ UNCHANGED <<serverVars, thread_run, managerVars, sem, registered, asked, actions, load, unload, loads>>

Drained ==
    /\ manager = "drain"
    /\ queue = <<>>
    /\ manager' = IF registering = {} THEN "test" ELSE "steps"
    /\ todo' = registering
    /\ UNCHANGED <<serverVars, thread_run, sem, queue, mapVars, wu, asked, actions, load, unload, loads>>

Stable == {"Published", "Unpublished", "PublishingFailure"}
UnitState == Stable \cup {"StartPublishing", "Publishing", "StartUnpublishing", "Unpublishing"}
\* Mutant: only the state counts.
SmNeedToSchedule_ByState(u) == wu[u].sm \notin Stable

SmNeedToSchedule(u) == wu[u].active \/ wu[u].sm \notin Stable

Becomes(u, sm, active) == wu' = [wu EXCEPT ![u].sm = sm, ![u].active = active]

\* scheduleSM(), state by state.  The unit settles:
ScheduleSettled(u) ==
    /\ wu[u].sm \in {"Unpublished", "PublishingFailure"}
    /\ Becomes(u, wu[u].sm, FALSE)
    /\ UNCHANGED <<asked, actions>>

\* Drivers and dataset are set up; a setup that throws leaves the unit active in failure.
ScheduleStartPublishing(u) ==
    /\ wu[u].sm = "StartPublishing"
    /\ \E sm \in {"Publishing", "PublishingFailure"} : Becomes(u, sm, TRUE)
    /\ UNCHANGED <<asked, actions>>

\* The registration is sent, at the first step and at every Resend-th.
SchedulePublishing(u) ==
    /\ wu[u].sm = "Publishing"
    /\ asked' = IF wu[u].delay = 0 THEN asked \cup {u} ELSE asked
    /\ wu' = [wu EXCEPT ![u].delay = (@ + 1) % Resend]
    /\ UNCHANGED actions

SchedulePublished(u) ==
    /\ wu[u].sm = "Published"
    /\ Becomes(u, "Published", FALSE)
    /\ actions' = actions \cup {u}
    /\ UNCHANGED asked

ScheduleStartUnpublishing(u) ==
    /\ wu[u].sm = "StartUnpublishing"
    /\ Becomes(u, "Unpublishing", TRUE)
    /\ actions' = actions \ {u}
    /\ UNCHANGED asked

ScheduleUnpublishing(u) ==
    /\ wu[u].sm = "Unpublishing"
    /\ Becomes(u, "Unpublished", TRUE)
    /\ UNCHANGED <<asked, actions>>

ScheduleSM(u) ==
    \/ ScheduleSettled(u) \/ ScheduleStartPublishing(u) \/ SchedulePublishing(u)
    \/ SchedulePublished(u) \/ ScheduleStartUnpublishing(u) \/ ScheduleUnpublishing(u)

MakeSMStep(u) ==
    /\ manager = "steps"
    /\ u \in todo
    /\ IF SmNeedToSchedule(u) THEN ScheduleSM(u) ELSE UNCHANGED <<wu, asked, actions>>
    /\ todo' = todo \ {u}
    /\ UNCHANGED <<serverVars, thread_run, manager, sem, queue, mapVars, load, unload, loads>>

\* migrateStableAndUnstableSMCUInstance(): the upgradeable locks of both maps are taken
\* (that of the registering map is always free), and upgraded for every unit that leaves
\* the registering map, which waits for the readers of it.
LockForUpgrade ==
    /\ manager = "steps"
    /\ todo = {}
    /\ ~WriterOfRegistered
    /\ manager' = "migrating"
    /\ UNCHANGED <<serverVars, thread_run, todo, sem, queue, mapVars, wu, asked, actions, load, unload, loads>>

Leaving == {u \in registering : ~SmNeedToSchedule(u)}

Migrate(u) ==
    /\ manager = "migrating"
    /\ u \in Leaving
    /\ ~ReadsRegistering
    /\ registering' = registering \ {u}
    /\ registered' = IF wu[u].sm = "Published" THEN registered \cup {u} ELSE registered
    /\ UNCHANGED <<serverVars, thread_run, managerVars, sem, queue, wu, asked, actions, load, unload, loads>>

Migrated ==
    /\ manager = "migrating"
    /\ Leaving = {}
    /\ manager' = "timed"
    /\ UNCHANGED <<serverVars, thread_run, todo, sem, queue, mapVars, wu, asked, actions, load, unload, loads>>

\* wait(2000) ends at the latest with its timeout.
TimedWait ==
    /\ manager = "timed"
    /\ sem' = Clear(sem)
    /\ manager' = "top"
    /\ UNCHANGED <<serverVars, thread_run, todo, queue, mapVars, wu, asked, actions, load, unload, loads>>

\* wait(), without a timeout: the test, the block, and the return.
Test ==
    /\ manager = "test"
    /\ IF Answered(sem) THEN sem' = Clear(sem) /\ manager' = "top"
       ELSE manager' = "block" /\ UNCHANGED sem
    /\ UNCHANGED <<serverVars, thread_run, todo, queue, mapVars, wu, asked, actions, load, unload, loads>>

BlockOnSemaphore ==
    /\ manager = "block"
    /\ sem' = Block(sem)
    /\ manager' = "asleep"
    /\ UNCHANGED <<serverVars, thread_run, todo, queue, mapVars, wu, asked, actions, load, unload, loads>>

Wake ==
    /\ manager = "asleep"
    /\ ~sem.blocked
    /\ manager' = "test"
    /\ UNCHANGED <<serverVars, thread_run, todo, sem, queue, mapVars, wu, asked, actions, load, unload, loads>>

\* stop() and the join of the thread; the timer is left alone.
Stop ==
    /\ owner = "up"
    /\ owner' = "stopping"
    /\ thread_run' = FALSE
    /\ sem' = Unlock(sem)
    /\ UNCHANGED <<server, timer, acking, managerVars, queue, mapVars, wu, asked, actions, load, unload, loads>>

Join ==
    /\ owner = "stopping"
    /\ manager \in {"off", "ended"}
    /\ owner' = "joined"
    /\ UNCHANGED <<server, timer, acking, thread_run, units>>

\* deinit() removes the timer, waits for the RPC calls in progress, and unloads the
\* registered units; what a thread that still runs does then is not modelled.
Deinit ==
    /\ owner = "joined"
    /\ timer # "fired"
    /\ load.pc = "idle" /\ unload.pc = "idle" /\ ~acking
    /\ owner' = "gone"
    /\ timer' = "off"
    /\ manager' = "ended"
    /\ actions' = actions \ registered
    /\ registered' = {} /\ registering' = {} /\ todo' = {}
    /\ UNCHANGED <<server, acking, thread_run, sem, queue, wu, asked, load, unload, loads>>

-----------------------------------------------------------------------------
Loading == ReadRegistered \/ SubmitControlUnit
Unloading == RefuseUnload \/ InsertUnregistering \/ TurnOff \/ EraseRegistered
Managing ==
    \/ Top \/ Add \/ Drained \/ LockForUpgrade \/ Migrated \/ TimedWait
    \/ Test \/ BlockOnSemaphore \/ Wake
    \/ \E u \in Unit : MakeSMStep(u) \/ Migrate(u)

Next ==
    \/ TimerFires \/ Timeout \/ Rearm \/ ServerLost
    \/ \E ok \in BOOLEAN : ServerAck(ok)
    \/ \E u \in Unit : LoadControlUnit(u)
    \/ ReadRegistered \/ SubmitControlUnit
    \/ \E u \in Unit : Submit(u)
    \/ \E u \in Unit : UnloadControlUnit(u)
    \/ RefuseUnload \/ InsertUnregistering \/ TurnOff \/ EraseRegistered
    \/ \E u \in Unit, ok \in BOOLEAN : Ack(u, ok)
    \/ \E u \in Unit : Lost(u)
    \/ Top \/ Add \/ Drained
    \/ \E u \in Unit : MakeSMStep(u)
    \/ LockForUpgrade \/ Migrated
    \/ \E u \in Unit : Migrate(u)
    \/ TimedWait \/ Test \/ BlockOnSemaphore \/ Wake
    \/ Stop \/ Join \/ Deinit

\* The timer expires, the threads are scheduled, and the MDS answers one of the
\* registrations that are repeated to it.  Calls that come again and again do not keep
\* a thread from a lock they leave free again and again.
Fairness ==
    /\ WF_vars(TimerFires) /\ WF_vars(Timeout) /\ WF_vars(Rearm)
    /\ WF_vars(Loading) /\ WF_vars(Unloading) /\ SF_vars(Managing)
    /\ \A u \in Unit : SF_vars(\E ok \in BOOLEAN : Ack(u, ok))

Spec == Init /\ [][Next]_vars
FairSpec == Spec /\ Fairness

-----------------------------------------------------------------------------
\* The manager's state is well formed; the queue grows no longer than the loads.
TypeOK ==
    /\ server \in [sm : {"Unpublished", "Publishing", "Published", "PublishingFailure"},
                  delay : 0 .. Resend - 1, asked : BOOLEAN]
    /\ wu \in [Unit -> [sm : UnitState, active : BOOLEAN, delay : 0 .. Resend - 1]]
    /\ owner \in {"up", "stopping", "joined", "gone"}
    /\ timer \in {"off", "armed", "fired"}
    /\ manager \in {"off", "top", "drain", "steps", "migrating", "timed", "test", "block", "asleep", "ended"}
    /\ sem \in Semaphore
    /\ queue \in Seq(Unit) /\ Len(queue) <= MaxLoads
    /\ todo \subseteq registering
    /\ registering \subseteq Unit /\ registered \subseteq Unit
    /\ asked \subseteq Unit /\ actions \subseteq Unit
    /\ load.pc \in {"idle", "locking", "reading"} /\ unload.pc \in {"idle", "waiting", "inserted", "off"}

\* Until deinit(), the dispatcher calls the actions of the units that are registered and
\* of nobody that left the two maps: a unit becomes registered only after its actions
\* are in the dispatcher and is forgotten only after they are out.
ActionsFollowMaps ==
    owner # "gone" =>
        /\ \A u \in registered : u \notin registering => u \in actions
        /\ \A u \in actions : \/ u \in registered
                              \/ u \in registering /\ wu[u].sm \in {"Published", "StartUnpublishing"}

\* Three threads wait for each other in two ways.  In both unloadControlUnit() waits to
\* write the registered map and keeps new readers out.  Either loadControlUnit() reads the
\* maps and waits for the queue, and the manager has the queue and waits to read; or
\* loadControlUnit() reads the first map and waits to read the second, and the manager
\* has both for upgrade and waits for the reader of the first.
QueueKnot == load.pc = "reading" /\ manager = "drain" /\ queue # <<>> /\ unload.pc = "waiting"
UpgradeKnot == load.pc = "locking" /\ manager = "migrating" /\ Leaving # {} /\ unload.pc = "waiting"
Entangled == QueueKnot \/ UpgradeKnot

\* The manager's thread no longer serves: it is stopped, entangled, or asleep on a
\* semaphore unlocked just before it blocked.
Stuck == owner # "up" \/ Entangled \/ LostWakeup(sem)

Queued(u) == \E i \in DOMAIN queue : queue[i] = u

\* A unit submitted to the running manager is registered, or discarded, in the end,
\* although registrations and acknowledgements get lost.
SubmittedSettles ==
    \A u \in Unit : (thread_run /\ Queued(u)) ~> (Stuck \/ (~Queued(u) /\ u \notin registering))

\* A unit that unloadControlUnit() turned off leaves both maps in the end.
UnloadEnds ==
    \A u \in Unit : wu[u].sm = "StartUnpublishing" ~> (Stuck \/ u \notin registering \cup registered)

\* Once the MDS has accepted the unit server, the manager's thread starts, unless the
\* acknowledgement waits for the timer that waits for it.
PublishedStarts ==
    server.sm = "Published" ~> (manager # "off" \/ owner = "gone" \/ (acking /\ timer = "fired"))

=============================================================================
