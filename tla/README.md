# Formal models of the !CHAOS control framework

!CHAOS (`src/`) is a C++ framework for distributed control systems. Processes
called *unit servers* host *control units*, each of which drives a device;
they register with a *metadata service* (MDS), push datasets to live and
history storage, and receive remote procedure calls from clients. A slow
control unit executes *batch commands*, submitted by clients, in *sandboxes*.

These modules model the parts of the framework where threads, failures and
orders of calls meet. TLC checks them on small instances; TLAPS proves the
main results about the sandbox and the dispatcher for every instance.
`PROJECT.json` lists all parts of the system, the source lines behind every
definition, the runs with their mutants, the findings, the hazards and the
theorems.

## 1. The parts and how they interact

| part | module | what is hard | correct when |
|---|---|---|---|
| batch command sandbox (`common/batch_command/BatchCommandSandbox.cpp`) | `BatchCommandSandbox`, `CommandLifecycle`, `CommandEvents` | two threads, two mutexes, reads outside them, plain pointers to commands | a command is in one place, its events follow its life, paused ones resume, everything queued starts |
| wait semaphore (`common/thread/WaitSemaphore.*`) | `WaitSemaphore` | the flag is tested and cleared outside the mutex | an unlock is never lost |
| command history of the executor (`BatchCommandExecutor.cpp`, `SCAbstractControlUnit.cpp`) | `CommandHistory` | capped by a timer and flushed while events arrive and clients wait | a command that has not ended stays known; queue and map agree; a wait ends with the truth |
| control unit (`cu_toolkit/control_manager/AbstractControlUnit.cpp`, `RT...`, `SC...`, `common/utility/SWEService.*`, `CheckList.*`) | `ControlUnit` | a phase fails half way; error threads race RPCs | layers are undone in order; init is complete; nothing runs outside of Start |
| registration (`ControlManager.cpp`, `WorkUnitManagement.cpp`, timer of `async_central/`) | `ControlManager` | acknowledges lost, late, repeated; three locks in different orders; a timer | a unit's actions are exposed exactly while it is managed; a submitted unit settles; unload ends |
| URL feeders (`common/network/URL*Feeder.cpp`) | `URLHAServiceFeeder` | servers fail; eviction during a check | no server of the list is forgotten; an offline one returns or is evicted |
| message requests (`common/message/*`, `thread/FutureHelper.h`) | `MultiAddressChannel` (over the feeder) | late answers, retry on another server | a wait ends, with the answer of the server it was last sent to |
| dispatcher and processing queue (`common/dispatcher/*`, `common/action/*`, `pqueue/CObjectProcessingQueue.h`) | `DefaultCommandDispatcher` | registration races calls; the map is read without its lock | handlers run only while enabled; nothing is queued without a thread |

An RPC reaches the dispatcher, which calls an action of the control manager,
of a control unit or of its executor. The executor calls the sandbox under its
locks, and the sandbox calls back `handleCommandEvent` from its own threads.
`CommandLifecycle` is the interface between the two: the sandbox is proved to
fire events as it says, and `CommandHistory` receives events in that order
(`Follows` of `CommandEvents` is used by both). A failing step of a real-time
unit, or a command with a fatal fault, starts a detached thread that moves the
unit to an error state. The control manager drives registration from one thread, a
timer and RPC actions; its wait is the semaphore of `WaitSemaphore`. Messages to the MDS go through
the channel, which takes servers from the feeder: `MultiAddressChannel` is the
composition of the two.

## 2. Modules

| module | models |
|---|---|
| `WaitSemaphore` | the semaphore as a record and the separate steps of `wait()`; used by the sandbox and the control manager |
| `BatchCommandSandbox`, `MCBatchCommandSandbox` | the sandbox; the command classes of its runs |
| `CommandEvents`, `CommandLifecycle` | the events and their order; what clients may rely on |
| `CommandHistory` | the history of command states and a client that waits on an id |
| `ControlUnit` | state machine, check lists, RPCs, run thread or executor, error threads |
| `URLHAServiceFeeder`, `MultiAddressChannel` | table of servers with its retry timer; the channel, its clients and the servers |
| `DefaultCommandDispatcher` | one domain: submitters, scheduler, worker, descriptors, registration |
| `ControlManager` | registration of the server and its units, load and unload, manager thread |
| `SandboxInvariant`, `SandboxSteps`, `BatchCommandSandboxProofs`, `SandboxRefinement` | proofs about the sandbox |
| `DispatcherInvariant`, `DispatcherSteps`, `DispatcherProofs` | proofs about the dispatcher |

Names are those of the code. Variables without a counterpart are positions of
threads, bounds, and what an observer keeps (`lastEvent`, `deleted`, `fired` of
the history, `asked`). Where a use of a null or destroyed object ends the
process, the model records it in `crashed` (or an `aborted` position) and stops.

**Sandbox.** A command is its id, from 1; 0 is the sticky command and -1 a null
pointer. A command class is chosen from the constant `Profiles`; its handlers
end in any running property of `HandlerOutcome`, by returning or by an exception.
`EnqueueCommand`, `KillCurrentCommand`, ... are calls of the executor under its
locks; `Scheduler...` are the steps of `runCommand()`, `Checker...` those of
`checkNextCommand()`, one per critical section and one per unlocked read that
is used later. `running_vs_submition` is indexed past its end for a fatal
fault: the result is any value.

**History.** `HandleCommandEvent`, `SubmitCommand`, the cap of the timer and
the flush are actions; `command_state_rwmutex` is held for upgrade during a
flush, where events still come in.

**Control unit.** A thread is the sequence of tasks that remain of its call, one
atomic step each, with marks for the ends of try blocks: an exception drops
tasks up to the mark. Any phase may throw, and so may every operation of the
executor. What properties need of the past is kept beside the state, from one
clean state of the unit to the next: `overlapped` (an RPC and an error thread were
under way at once, where the code takes no lock), `cutShort` (an exception ended
what `goInFatalError()` was undoing), `stillRuns` (the executor refused to stop)
and `failed` (the phases ticked by a body that threw). Section 4 says what the
code does after the first three.

**Feeder and channel.** The table of servers, the retry queue, the timer thread
(one step per iteration and one for the test in between), servers that go down
and up, requests that are lost, answered late or answered twice, and the two
owners of such a channel (`mds` evicts and asks a server for others, on the timer
thread and with a `wait()` of its own; `api` empties and refills its list).
`clear()` takes no lock and is two steps. A promise has the smallest id that no
request in flight has: the counter of the code goes round only after 2^32.

**Dispatcher.** Every message has a thread of its own, up to the queue for
`dispatchCommand` and to the end for `executeCommandSync`. Each access to
`das_map` by a submitter is a step, since it takes no lock; registration calls
hold `das_map_mutex`. The read lock of a descriptor is held from `fire` to the
answer; the write lock of `setEnabled(false)` waits for it and keeps new
readers out, as boost's shared mutex does.

**Control manager.** The asio thread of the timer, the manager thread, the owner
(`stop`, `deinit`) and RPC threads that load, unload and acknowledge. Messages
to the MDS and its answers may be lost, late or repeated. Load and unload may be
called with any id at any time, and are refused after they have taken their locks.
The locks of the two maps are taken one by one, as boost's shared mutex gives them:
a writer that waits keeps new readers and upgrades out, an upgrade to write waits
for the readers and keeps none out. The counter of repeated registrations is cut
from 10 to `Resend` and reset by the answer.

## 3. Runs

`HandlerOutcome` numbers are the running properties (0 exclusive, 1 normal,
2 end, 3 fault, 4 fatal fault).

| run | question | bounds and why they are enough |
|---|---|---|
| `sandbox_rules` | is a command lost, duplicated, stranded, or stepped after its release, whatever the submission rules? | 2 commands of 3 classes, outcomes 0, 2, 4: every pair of current and queued command of every rule |
| `sandbox_lifecycle` | do the events follow `CommandLifecycle`, and those of one command their order? | 3 commands of 2 classes: a stack of two, where the order of resumption shows |
| `sandbox_requests` | placement, with kill, clear, features and the sticky command | 1 command, 1 pending kill, outcomes 0, 2, 3 |
| `sandbox_live` | does everything that should happen happen, when no wake-up is lost? | 2 commands, outcomes 0, 2 |
| `sandbox_lost_wakeup` | does a queued command start on an idle sandbox? *Violated* | 1 command |
| `history` | is a live command known, does the history shrink, does a wait return and tell the truth? | 3 commands over a maximum size of 1: the cap meets ended and live states in every order |
| `control_unit` | are layers brought up and down in order, through failures of any phase and of the executor, errors at work and recovery? | both kinds of unit, 1 error at work, 1 error thread, 2 run threads so that a second one could show; the calls are not bounded |
| `channel` | is a server forgotten, or an answer given to another request? | 2 servers, 2 clients (symmetric) with a call each, 1 failure, 1 late or repeated answer, 2 calls of the owner (empty and refill), 2 requests in flight, a retry queue of 2, 3 services so that a slot is reused |
| `channel_live` | does a wait end, and an offline server return or leave? | 2 servers, 1 client and the timer thread, 1 failure, late answers and echoes without a limit while the retry queue is empty, an owner that leaves the list alone; 3 retries to eviction, and 1 wait more on the same server, not 3 |
| `dispatcher` | does a handler run after deregistration, is a message left in a queue without a thread, are messages served and do registration calls return? | 2 messages, 2 actions, queue limit 0 (one message fits, the second is refused), 4 registration calls: a domain can be built, dropped and built again |
| `dispatcher_race` | is a submission thread safe, as the comment says? *Violated* | the same |
| `control_manager` | do the exposed actions follow the maps, does a submitted unit settle and an unload end, does the manager start? | 2 units, 2 loads that get as far as the queue and any number that do not, any number of unloads: both deadlocks of section 4 occur; `Resend` 2 |

Deadlock is checked in the runs of the sandbox, of the history and of the unit.
In the others the processes may really stop: calls and failures are bounded, a
process may have crashed, and a manager that was deinitialized does nothing.

Properties, beside a type invariant for each module:

- Sandbox. `PlaceMatchesEvent`: queued, current and paused commands are exactly
  those whose last event says so. `NoneStranded`: paused commands have a
  submitted command above them. `NoDanglingFunctor`, `StepOnLiveCommand`: no
  pointer used under the mutex leads to a released command. `RetiresEnded`: the
  unlocked test that starts a retirement is still true under the mutex.
  `ImplementsLifecycle`, `EventsFollow`: refinement, and the order of the events
  of one command. `QueuedStartsUnlessLost`, `EndedLeavesUnlessLost`,
  `StopReturnsUnlessLost`: liveness where neither semaphore loses a wake-up and,
  for the last, `stop()` does not meet a read of a released command (section 4).
- History. `LiveIsKnown`, `QueueAndMapAgree`, `WaitIsTruthful`, and in the long
  run `HistoryShrinks` and `WaitReturns` (for the three ends that
  `waitOnCommandID` tests).
- Control unit. `LayersInOrder` and `RpcJoinEnds` always; `InitIsComplete` (every
  phase is ticked, none by a body that threw, storage and cache or executor are
  there), `QuietUnlessStarted` and `OneRunThread` until an RPC and an error thread
  have overlapped. `InitIsComplete` does not speak of a unit whose roll-back was
  cut short, `QuietUnlessStarted` not of one whose executor failed to stop.
- Channel. `NoServerForgotten`, `AnswerIsOwn`; `WaitEnds` and `OfflineEnds` once
  servers stop failing and answers and echoes stop being late (`TroubleEnds`),
  however often they were before. Without that hypothesis both are violated.
- Dispatcher. `CalledWhileEnabled`, `QueuedHasAWorker`; `AcceptedIsServed` and
  `OwnerReturns` except for the deadlock of `WaitForEachOther`.
- Control manager. `ActionsFollowMaps`; `SubmittedSettles`, `UnloadEnds` and
  `PublishedStarts` except for the two deadlocks of `Entangled`, a lost wake-up,
  and the deadlock of timer and acknowledge.

The exceptions named in properties are states the code really reaches; each is
described in the next section.

### Findings

1. `WaitSemaphore::wait()` can lose an `unlock()`; a command queued on an idle
   sandbox may wait for ever (`sandbox_lost_wakeup`).
2. A submission that races the deregistration of the last action of its domain
   uses a null or destroyed scheduler, though the comment says "Thread Safe"
   (`dispatcher_race`).

## 4. Observations

What else the models show about the code, at the lines where it happens. The
steps are in the modules; no run is kept for these.

Sandbox (`BatchCommandSandbox.cpp`):
- `consumeWaitCmdOps()` gives up when its lock is busy, and a clear request may
  then stay pending (279).
- `runCommand()` reads the command twice after it released the mutex, when it may be
  destroyed (662, 665). If the memory reads as exclusive and then as ended while
  `stop()` has cleared the flag, the thread waits for an unlock that has already
  been, and `stop()` does not return.
- `running_vs_submition` has no row for a fatal fault (344).
- A kill request names no command and can hit one submitted after it (594); it
  also ends a command that runs exclusively (599).

Executor and history:
- Each sandbox numbers its own commands, so with two channels ids collide in the
  map of states (`BatchCommandExecutor.cpp:342`): `LiveIsKnown` fails for a
  `Channel` of two elements.
- `submitCommand()` reads the id when the command may have been destroyed (571).
- `waitOnCommandID()` does not treat a fatal fault or a dequeue as an end
  (`SCAbstractControlUnit.cpp:357`).

Control unit:
- `_recover()` or `_stop()` while an error thread joins the stepping thread can
  leave a second stepping thread, or one that runs in Stop
  (`RTAbstractControlUnit.cpp:283`).
- A second `_start` after a recoverable error and a new init may find its phase
  still ticked and skip it (`AbstractControlUnit.cpp:1325`).
- A fatal error in Stop or Deinit undoes nothing, though
  `AbstractControlUnit.h:553` says it stops and deinitializes the unit.
- An exception while `goInFatalError()` undoes the phases is only logged
  (`SWEService.cpp:164`). The phases that were left stay ticked and the next
  `_init` skips them: a slow-command unit can answer Init with an executor that is
  deinitialized. A phase that fails before the cache or the executor is
  initialized is enough, since `deinit()` of it is then refused.
- An executor whose `stop()` throws goes on (`StartableService.cpp`); a command of
  it that fails later, in Init, makes the error recoverable and `_recover()` starts
  the timer of a unit nobody had started.
- `unitStart()` that fails before the thread exists, or a real-time init that
  fails and is retried, uses a null pointer.

Feeder, channel, requests:
- After an eviction `checkForAliveService()` goes on without the lock it assumes
  (`URLHAServiceFeeder.cpp:146`); the next `unlock` throws.
- An entry of the retry queue can outlive its service, which is then checked as
  a null service, or put another one online.
- A service is used after its lock was released, when the timer may have
  deleted it (`MultiAddressMessageChannel.cpp:194`).
- `clear()` takes no lock (`URLServiceFeeder.cpp:109`), and keeps the map from URL to index (124), so a URL set offline
  later can take another server offline. `addNode()` takes an address twice.
- `retry_on_same_server` is not reset for the next server
  (`MultiAddressMessageRequestFuture.cpp:67`). `retry_other_server` (68) is tested
  and never counted: between servers that answer the echo but are slow to answer
  the request, `wait()` goes on for ever, though `MultiAddressMessageRequestFuture.h:80`
  says that it waits for an answer or the timeout. It returns true when there was
  no server, against line 81.
- `setDataForPromiseID()` erases the promise under a read lock (`FutureHelper.h:212`).
- With more servers than it should have, `manageResource()` computes a huge number
  of servers to add (`MDSMessageChannel.cpp:90`) and adds all it is told of.

Dispatcher and queue:
- `stop()` or `deregisterAction()` of `checkDomain` while it runs never ends: it
  holds `das_map_mutex` and waits for a handler that waits for it.
- `setFired()` is called under a read lock: of two callers of an
  action one may see what the other wrote and drop its call silently
  (`ActionDescriptor.cpp:64`).
- An accepted message is dropped without an answer when its action is gone or
  the queue is cleared. A queue takes one element more than its limit.
- The worker may answer through a dispatcher that is not set yet
  (`DefaultCommandDispatcher.cpp:145`).

Control manager (`ControlManager.cpp`):
- `loadControlUnit()`, the manager thread and `unloadControlUnit()` (574) can wait
  for each other in two ways (`Entangled`). The first is over the queue: the load
  reads both maps and wants the queue, the manager has the queue and wants to read
  (439). The second is over the maps: the load reads the first (497) and wants to
  read the second (498), the manager has both for upgrade (342) and wants to write
  the first (351). In both the unload waits to write and keeps readers out; any id
  will do, a refused call included.
- The acknowledge removes the timer (746) under a lock its callback wants, while
  the callback holds the one it needs; all timers of the process stop then.
- The wait at 471 can lose a wake-up, as finding 1 describes.
- An acknowledge for an earlier unit of the same name is accepted.
- `deinit()` (238) tears down the units of the registered map only: the actions
  of a unit that is registering can outlive it. `stop()` (206) leaves the timer,
  which can start the manager thread again.

## 5. Fairness

- Sandbox: weak fairness of both threads and of an executor operation that has
  begun; none for beginning one, since clients may stay idle.
- History: weak fairness of the timer while the executor is started, of the loop
  of a flush and of the poll of a waiting client.
- Channel: weak fairness of the timer thread, of every caller that is in a call
  and of the answers to requests, each by itself. Strong fairness of the tick of the
  timer, which looks at the retry queue before it asks for servers, and, per slot, of
  testing a retry entry at the head of the queue when its time has come: the time
  only grows, so an entry that is met again and again is due in the end.
- Dispatcher: weak fairness of the thread of every message, of the worker and of
  a registration call that has begun.
- Control manager: weak fairness of the timer and of calls in progress; strong
  fairness of the manager thread, because calls that come again and again leave its
  locks free again and again and a mutex does not pass over a waiting thread for
  ever; strong fairness of the acknowledge of each unit: the registration is sent
  again and again, and not all of its messages get lost.

## 6. Proofs

Constants are restricted only by the named assumptions (`MaxCmdAssumption` and
its neighbours, `DispatcherAssumption`): natural numbers, and that messages are
not the three words used for a worker without one.

**Sandbox.** `IInv` of `SandboxInvariant` adds to the properties:
`PausedOnce` (without it a pop could leave a command both current and paused),
`ThreadsMatchState` (without it `Deinit` could run between two steps of a
thread) and `CheckerKnows` (what the checker has established at each position).
There is one lemma per action. From it: `TypeCorrect`, `Placement`,
`PausedIsResumable`, `FunctorsOnLiveCommands`, `StepsOnLiveCommands`,
`UnlockedReadIsStable`. `Refinement` shows `Spec => ImplementsLifecycle` and
`EventOrder` shows `Spec => EventsFollow`, from the same invariant.

**Dispatcher.** `DispatcherInvariant` states `IInv` and what each step does to a
message; `DispatcherSteps` and `DispatcherProofs` show that every step keeps
each conjunct. `CallsAreEnabled` rests on `FiredIsHeld` (an action is fired only
under its read lock and while enabled, so nobody is past `setFired` when
`setEnabled(false)` gets the write lock), `EraseDisabled` and
`TakenIsRegistered` (a descriptor leaves the domain only after it was disabled).
`QueuesAreServed` rests on `QueueMatches` (the queue holds the accepted messages,
each once) and `DeinitInOrder` (`in_deinit` is set over an empty queue, before
the thread is joined and the scheduler let go). `DispatcherTypes` needs `Counted`,
which relates schedulers to calls. TLC found no violation of `IInv` on the
instance of `Dispatcher.cfg` before it was proved.

Model-checked only: liveness (fairness is out of the prover's reach), and all
properties of the history, the control unit, the channel and the control
manager.

## 7. Not modelled

`PROJECT.json` gives the reason for every part. The largest:

- `SharedCommandDispatcher`, the priority queue and the parallel sandbox: second
  implementations of modelled parts.
- The metadata service, its client, storage and direct I/O: database and
  network code, mostly I/O.
- Data wrappers, caches, alarms, health, properties: values, which every module
  abstracts away. Vendored libraries, user interfaces and tools.

Inside the modelled parts: a second default command of a sandbox, torn reads of
shared pointers, maps and indexes, the fail-over mode of the feeder, several domains
of a dispatcher, and execution pools. A `timeoutHandler` of a command may end it or
ask for its fault, as all those of the repository do; one that makes an ended command
run again is not modelled, and `RetiresEnded` would not hold for it. `runCommand()`
reads the running property twice without the mutex (662, 665): of a released command
the two reads may differ, but a release between them is taken as one before them. Vendored code makes up most of the lines under
`src/`, so the share of lines that the modules cover is small.
