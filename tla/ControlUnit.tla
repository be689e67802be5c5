----------------------------- MODULE ControlUnit -----------------------------
(***************************************************************************)
(* The life of a control unit: the state machine of SWEService, the check  *)
(* lists of AbstractControlUnit that remember which layers are up, the     *)
(* five state RPCs, the two error states and what they undo.  A unit is a  *)
(* real-time one ("RT", RTAbstractControlUnit: a thread that calls         *)
(* unitRun()) or a slow-command one ("SC", SCAbstractControlUnit: a        *)
(* SlowCommandExecutor).                                                   *)
(*                                                                         *)
(* State RPCs of a unit are served one at a time by thread "rpc".  An      *)
(* error of unitRun(), or a command that ends in EVT_FATAL_FAULT, starts a *)
(* detached thread that runs _goInRecoverableError().  No lock is held by  *)
(* either.                                                                 *)
(*                                                                         *)
(* A thread is the sequence of the tasks that remain of its call, one      *)
(* atomic step each.  <<"catch", h>> marks the end of a try block: an      *)
(* exception drops the tasks up to it and h says what its handler does.    *)
(* Exceptions are CExceptions, and a thread can always be created.         *)
(***************************************************************************)
EXTENDS Naturals, Sequences, FiniteSets, SequencesExt

CONSTANTS
    Kinds,            \* subset of {"RT", "SC"}
    Err,              \* detached error threads alive at a time
    Runner,           \* scheduler threads alive at a time
    MaxErrors,        \* bound on the errors of the unit at work
    RestoreApply      \* property INIT_RESTORE_APPLY of the unit

Thread == {"rpc"} \cup Err

VARIABLES
    kind,
    machine,          \* current_state() of state_machine
    serviceState,
    last_state,
    list,             \* check_list_sub_service: [to_do, done] by name
    storage,          \* key_data_storage: "null", "raw" (init() failed) or "ready"
    sub,              \* state machine of the shared cache (RT), the executor (SC)
    timer,            \* the statistic timer is registered
    scheduler_run,
    scheduler_thread, \* the thread it owns, or "null"
    runner,           \* Runner -> "off" or "loop"
    todo,             \* Thread -> Seq(task)
    crashed,          \* "no", or the pointer whose use ended the process
    errors,           \* of the unit at work so far
                      \* Of the past, since the unit was last deinitialized or started:
    failed,           \* phases ticked by an initialization whose body threw
    cutShort,         \* what goInFatalError() undoes was cut short by an exception
    stillRuns,        \* the executor failed to stop
    overlapped        \* an RPC and an error thread have been under way at once

service == <<machine, serviceState, last_state>>
scheduler == <<scheduler_run, scheduler_thread, runner>>
history == <<failed, cutShort, stillRuns, overlapped>>
resources == <<storage, sub, timer>>
vars == <<kind, service, list, resources, scheduler, todo, crashed, errors, history>>

Normal == {"Deinit", "Init", "Start", "Stop"}
InError == {"RecoverableError", "FatalError"}
EventOf == [Deinit |-> "deinit", Init |-> "init", Start |-> "start", Stop |-> "stop"]

\* StartableService: <<state, event, state>>.
startable_rows ==
    { <<"Deinit", "init", "Init">>, <<"Init", "deinit", "Deinit">>,
      <<"Init", "start", "Start">>, <<"Start", "stop", "Stop">>,
      <<"Stop", "start", "Start">>, <<"Stop", "deinit", "Deinit">> }

\* SWEService.
swe_rows ==
    startable_rows
      \cup { <<s, "recoverable_error", "RecoverableError">> : s \in Normal }
      \cup { <<"RecoverableError", EventOf[s], s>> : s \in Normal }
      \cup { <<s, "fatal_error", "FatalError">> : s \in Normal }
      \cup { <<"FatalError", "init", "Init">> }

\* process_event() is HANDLED_TRUE.
Handled(rows, s, e) == \E r \in rows : r[1] = s /\ r[2] = e
NextState(rows, s, e) == (CHOOSE r \in rows : r[1] = s /\ r[2] = e)[3]

(***************************************************************************)
(* The check lists, in the order of the enumerations that std::set<int>    *)
(* sorts by: "_init", "init", "_start" and "start".  INIT_SHARED_CACHE      *)
(* stands for the phases up to INIT_SYSTEM_CACHE too, and                  *)
(* CALL_UNIT_DEFINE_ATTRIBUTE for the fast access vectors.                 *)
(***************************************************************************)
Phases ==
    [rpc_init  |-> <<"CALL_INIT_STATE", "INIT_SHARED_CACHE",
                     "CALL_UNIT_DEFINE_ATTRIBUTE", "CALL_UNIT_INIT",
                     "UPDATE_CONFIGURATION", "PUSH_DATASET">>,
     sm_init   |-> <<"INIT_DB", "CREATE_DATA_STORAGE">>,
     rpc_start |-> <<"UNIT", "IMPLEMENTATION", "RESTORE_ON_FIRST_START">>,
     sm_start  |-> <<"STAT_TIMER">>]

Lists == DOMAIN Phases
AllOf(l) == Range(Phases[l]) \ {"RESTORE_ON_FIRST_START"}

\* The element stays to do.
doneOnElement_Both(l, p) ==
    [list EXCEPT ![l].done = @ \cup {p}]

doneOnElement(l, p) ==
    [list EXCEPT ![l] = [to_do |-> @.to_do \ {p}, done |-> @.done \cup {p}]]

redoElement(l, p) ==
    [list EXCEPT ![l] = [to_do |-> @.to_do \cup {p}, done |-> @.done \ {p}]]

removeElement(l, p) ==
    [list EXCEPT ![l] = [to_do |-> @.to_do \ {p}, done |-> @.done \ {p}]]

\* The tasks of a scan over a copy of the to-do set, and over one of the done
\* set in reverse; a phase of the latter rethrows if throw is "throw".
ScanToDo(l) ==
    LET ps == SelectSeq(Phases[l], LAMBDA p : p \in list[l].to_do)
    IN [i \in DOMAIN ps |-> <<"do", l, ps[i]>>]

\* The phases are undone in the order in which they were done.
ScanDone_Forward(l, throw) ==
    LET ps == SelectSeq(Phases[l], LAMBDA p : p \in list[l].done)
    IN [i \in DOMAIN ps |-> <<"redo", l, ps[i], throw>>]

ScanDone(l, throw) ==
    LET ps == Reverse(SelectSeq(Phases[l], LAMBDA p : p \in list[l].done))
    IN [i \in DOMAIN ps |-> <<"redo", l, ps[i], throw>>]

(***************************************************************************)
(* The four virtual operations as tasks: AbstractControlUnit's part and    *)
(* that of the kind.                                                       *)
(***************************************************************************)
InitCall == << <<"scan", "sm_init">>, <<"sub", "init">> >>

DeinitCall ==
    IF kind = "RT" THEN << <<"rescan", "sm_init", "throw">>, <<"sub", "deinit">> >>
                   ELSE << <<"sub", "deinit">>, <<"rescan", "sm_init", "throw">> >>

StartCall ==
    << <<"scan", "sm_start">>, IF kind = "RT" THEN <<"threadStart">> ELSE <<"sub", "start">> >>

StopCall ==
    IF kind = "RT" THEN << <<"threadStop">>, <<"rescan", "sm_start", "throw">> >>
                   ELSE << <<"rescan", "sm_start", "throw">>, <<"sub", "stop">> >>

Swallow == << <<"catch", "swallow">> >>

\* SWEService::goInFatalError() and goInRecoverableError().
GoInFatalError ==
    << <<"note">>, <<"event", "fatal_error">>, <<"fatalErrorFromState">>, <<"catch", "cut">> >>

GoInRecoverableError ==
    << <<"note">>, <<"event", "recoverable_error">> >>
      \o StopCall \o Swallow

\* The end of a try block is passed over.
Settle(s) ==
    LET n == SelectInSeq(s, LAMBDA k : k[1] # "catch")
    IN IF n = 0 THEN <<>> ELSE SubSeq(s, n, Len(s))

\* An exception with the tasks s to go.
Unwind(s) ==
    LET n == SelectInSeq(s, LAMBDA k : k[1] = "catch")
    IN IF n = 0 THEN <<>>
       ELSE IF s[n][2] = "fatal" THEN GoInFatalError \o SubSeq(s, n + 1, Len(s))
       ELSE IF s[n][2] = "cut" THEN << <<"cut">> >> \o SubSeq(s, n + 1, Len(s))
       ELSE Settle(SubSeq(s, n + 1, Len(s)))

-----------------------------------------------------------------------------
Task(t) == Head(todo[t])
Proceed(t, s) == todo' = [todo EXCEPT ![t] = Settle(s \o Tail(@))]
Throws(t) == todo' = [todo EXCEPT ![t] = Unwind(Tail(@))]
Returns(t) == Proceed(t, <<>>)
Ready(t, name) == crashed = "no" /\ todo[t] # <<>> /\ Task(t)[1] = name

Crash(why) ==
    /\ crashed' = why
    /\ UNCHANGED <<service, list, resources, scheduler, todo>>

Init ==
    /\ kind \in Kinds
    /\ machine = "Deinit" /\ serviceState = "Deinit" /\ last_state = "none"
    /\ list = [l \in Lists |-> [to_do |-> AllOf(l), done |-> {}]]
    /\ storage = "null" /\ sub = "Deinit" /\ timer = FALSE
    /\ scheduler_run = FALSE /\ scheduler_thread = "null"
    /\ runner = [r \in Runner |-> "off"]
    /\ todo = [t \in Thread |-> <<>>]
    /\ crashed = "no"
    /\ errors = 0
    /\ failed = {} /\ cutShort = FALSE /\ stillRuns = FALSE /\ overlapped = FALSE

\* Another process is started in place of one that ended.
Restart ==
    /\ crashed # "no"
    /\ machine' = "Deinit" /\ serviceState' = "Deinit" /\ last_state' = "none"
    /\ list' = [l \in Lists |-> [to_do |-> AllOf(l), done |-> {}]]
    /\ storage' = "null" /\ sub' = "Deinit" /\ timer' = FALSE
    /\ scheduler_run' = FALSE /\ scheduler_thread' = "null"
    /\ runner' = [r \in Runner |-> "off"]
    /\ todo' = [t \in Thread |-> <<>>]
    /\ crashed' = "no"

(***************************************************************************)
(* The RPCs.  One that is refused by the state or by the state machine     *)
(* only answers an error.                                                  *)
(***************************************************************************)
\* The state machine takes the event and serviceState follows it.
Moves(e) ==
    /\ machine' = NextState(swe_rows, machine, e)
    /\ serviceState' = machine'

\* A failure of the phases does not take the unit to the fatal error.
Accept_NoFatal(e, task) ==
    /\ crashed = "no" /\ todo["rpc"] = <<>>
    /\ Handled(swe_rows, machine, e)
    /\ Moves(e)
    /\ todo' = [todo EXCEPT !["rpc"] = << task >>]
    /\ UNCHANGED <<last_state, list, resources, scheduler, crashed>>

Accept(e, task) ==
    /\ crashed = "no" /\ todo["rpc"] = <<>>
    /\ Handled(swe_rows, machine, e)
    /\ Moves(e)
    /\ todo' = [todo EXCEPT !["rpc"] = << task, <<"catch", "fatal">> >>]
    /\ UNCHANGED <<last_state, list, resources, scheduler, crashed>>

RpcInit ==
    /\ serviceState \notin {"Init", "RecoverableError"}
    /\ Accept("init", <<"scan", "rpc_init">>)

RpcStart ==
    /\ serviceState \notin {"Start", "RecoverableError"}
    /\ Accept("start", <<"scan", "rpc_start">>)

RpcStop ==
    /\ serviceState # "Stop"
    /\ Accept("stop", <<"rescan", "rpc_start", "throw">>)

RpcDeinit ==
    /\ serviceState # "Deinit"
    /\ Accept("deinit", <<"rescan", "rpc_init", "throw">>)

FreeRunner ==
    { r \in Runner : /\ runner[r] = "off"
                     /\ \A t \in Thread : <<"join", r>> \notin Range(todo[t]) }

\* SWEService::recoverError() with beforeRecoverErrorFromState().
RpcRecover ==
    /\ crashed = "no" /\ todo["rpc"] = <<>>
    /\ serviceState = "RecoverableError"
    /\ FreeRunner # {}
    /\ todo' = [todo EXCEPT !["rpc"] =
                  StartCall \o Swallow \o << <<"recover">> >>]
    /\ UNCHANGED <<service, list, resources, scheduler, crashed>>

-----------------------------------------------------------------------------
(* The steps of SWEService *)

\* goInFatalError() and goInRecoverableError() keep the state they came from.
Note(t) ==
    /\ Ready(t, "note")
    /\ last_state' = IF serviceState \in InError THEN last_state ELSE machine
    /\ Returns(t)
    /\ UNCHANGED <<machine, serviceState, list, resources, scheduler, crashed>>

\* What goInFatalError() catches is only logged.
CutShort(t) ==
    /\ Ready(t, "cut")
    /\ Returns(t)
    /\ UNCHANGED <<service, list, resources, scheduler, crashed>>

ProcessEvent(t) ==
    /\ Ready(t, "event")
    /\ LET e == Task(t)[2] IN
         IF Handled(swe_rows, machine, e)
         THEN Moves(e) /\ Returns(t)
         ELSE UNCHANGED <<machine, serviceState>> /\ Throws(t)
    /\ UNCHANGED <<last_state, list, resources, scheduler, crashed>>

RecoverEvent(t) ==
    /\ Ready(t, "recover")
    /\ IF last_state \notin Normal
       THEN UNCHANGED machine /\ serviceState' = machine /\ last_state' = "none"
       ELSE IF Handled(swe_rows, machine, EventOf[last_state])
       THEN Moves(EventOf[last_state]) /\ last_state' = "none"
       ELSE UNCHANGED service
    /\ Returns(t)
    /\ UNCHANGED <<list, resources, scheduler, crashed>>

\* Nothing is stopped before the unit is deinitialized.
FatalErrorFromState_NoStop(t) ==
    /\ Ready(t, "fatalErrorFromState")
    /\ Proceed(t, IF last_state \in {"Init", "Start"}
                  THEN DeinitCall \o << <<"rescan", "rpc_init", "swallow">> >>
                  ELSE <<>>)
    /\ UNCHANGED <<service, list, resources, scheduler, crashed>>

FatalErrorFromState(t) ==
    /\ Ready(t, "fatalErrorFromState")
    /\ LET deinit == DeinitCall \o << <<"rescan", "rpc_init", "swallow">> >>
           stop == StopCall \o << <<"rescan", "rpc_start", "swallow">> >>
       IN Proceed(t, CASE last_state = "Init"  -> deinit
                       [] last_state = "Start" -> stop \o deinit
                       [] OTHER -> <<>>)
    /\ UNCHANGED <<service, list, resources, scheduler, crashed>>

-----------------------------------------------------------------------------
(* The scans of the check lists *)

Scan(t) ==
    /\ Ready(t, "scan")
    /\ Proceed(t, ScanToDo(Task(t)[2]))
    /\ UNCHANGED <<service, list, resources, scheduler, crashed>>

Rescan(t) ==
    /\ Ready(t, "rescan")
    /\ Proceed(t, ScanDone(Task(t)[2], Task(t)[3]))
    /\ UNCHANGED <<service, list, resources, scheduler, crashed>>

\* A phase is ticked before its body runs.  Bodies that call init(), where a
\* logging channel may be missing, or start().
DoCall(t) ==
    /\ Ready(t, "do")
    /\ LET p == Task(t)[3] IN
         /\ p \in {"CALL_INIT_STATE", "IMPLEMENTATION"}
         /\ list' = doneOnElement(Task(t)[2], p)
         /\ \/ Proceed(t, IF p = "IMPLEMENTATION" THEN StartCall ELSE InitCall)
            \/ p = "CALL_INIT_STATE" /\ Throws(t)
    /\ UNCHANGED <<service, resources, scheduler, crashed>>

DoTimer(t) ==
    /\ Ready(t, "do") /\ Task(t)[3] = "STAT_TIMER"
    /\ list' = doneOnElement("sm_start", "STAT_TIMER")
    /\ timer' = TRUE
    /\ Returns(t)
    /\ UNCHANGED <<service, storage, sub, scheduler, crashed>>

DoStorage(t) ==
    /\ Ready(t, "do") /\ Task(t)[3] = "CREATE_DATA_STORAGE"
    /\ list' = doneOnElement("sm_init", "CREATE_DATA_STORAGE")
    /\ \/ storage' = "ready" /\ Returns(t)
       \/ storage' \in {"raw", storage} /\ Throws(t)
    /\ UNCHANGED <<service, sub, timer, scheduler, crashed>>

\* The first push dereferences key_data_storage.
DoPush(t) ==
    /\ Ready(t, "do") /\ Task(t)[3] = "PUSH_DATASET"
    /\ IF storage = "null"
       THEN Crash("key_data_storage")
       ELSE /\ list' = doneOnElement("rpc_init", "PUSH_DATASET")
            /\ Returns(t) \/ Throws(t)
            /\ UNCHANGED <<service, resources, scheduler, crashed>>

\* updateConfiguration() may ask for a restore on the first start.
DoConfiguration(t) ==
    /\ Ready(t, "do") /\ Task(t)[3] = "UPDATE_CONFIGURATION"
    /\ LET ticked == doneOnElement("rpc_init", "UPDATE_CONFIGURATION") IN
         \/ list' = ticked /\ Throws(t)
         \/ /\ list' = IF RestoreApply
                       THEN [ticked EXCEPT !["rpc_start"].to_do = @ \cup {"RESTORE_ON_FIRST_START"}]
                       ELSE ticked
            /\ Returns(t)
    /\ UNCHANGED <<service, resources, scheduler, crashed>>

\* The restore leaves the check list whatever comes of it.
DoRestore(t) ==
    /\ Ready(t, "do") /\ Task(t)[3] = "RESTORE_ON_FIRST_START"
    /\ list' = removeElement("rpc_start", "RESTORE_ON_FIRST_START")
    /\ Returns(t) \/ Throws(t)
    /\ UNCHANGED <<service, resources, scheduler, crashed>>

\* Phases of the unit's own code and of the caches, that end well or throw.
DoBody(t) ==
    /\ Ready(t, "do")
    /\ Task(t)[3] \in {"INIT_DB", "INIT_SHARED_CACHE", "CALL_UNIT_DEFINE_ATTRIBUTE",
                       "CALL_UNIT_INIT", "UNIT"}
    /\ list' = doneOnElement(Task(t)[2], Task(t)[3])
    /\ Returns(t) \/ Throws(t)
    /\ UNCHANGED <<service, resources, scheduler, crashed>>

\* CHEK_IF_NEED_TO_THROW(throw_exception, ...) around a body that failed.
Fails(t) == IF Task(t)[4] = "throw" THEN Throws(t) ELSE Returns(t)

RedoCall(t) ==
    /\ Ready(t, "redo")
    /\ LET p == Task(t)[3] IN
         /\ p \in {"CALL_INIT_STATE", "IMPLEMENTATION"}
         /\ list' = redoElement(Task(t)[2], p)
         /\ Proceed(t, (IF p = "IMPLEMENTATION" THEN StopCall ELSE DeinitCall)
                         \o (IF Task(t)[4] = "throw" THEN <<>> ELSE Swallow))
    /\ UNCHANGED <<service, resources, scheduler, crashed>>

RedoTimer(t) ==
    /\ Ready(t, "redo") /\ Task(t)[3] = "STAT_TIMER"
    /\ list' = redoElement("sm_start", "STAT_TIMER")
    /\ timer' = FALSE
    /\ Returns(t)
    /\ UNCHANGED <<service, storage, sub, scheduler, crashed>>

RedoStorage(t) ==
    /\ Ready(t, "redo") /\ Task(t)[3] = "CREATE_DATA_STORAGE"
    /\ list' = redoElement("sm_init", "CREATE_DATA_STORAGE")
    /\ \/ storage' = "null" /\ Returns(t)
       \/ storage # "null" /\ UNCHANGED storage /\ Fails(t)
    /\ UNCHANGED <<service, sub, timer, scheduler, crashed>>

\* unitDefineCustomAttribute(), unitDeinit() and unitStop() may throw; the
\* other phases have nothing to undo that can.
RedoBody(t) ==
    /\ Ready(t, "redo")
    /\ Task(t)[3] \notin {"CALL_INIT_STATE", "IMPLEMENTATION", "STAT_TIMER", "CREATE_DATA_STORAGE"}
    /\ list' = redoElement(Task(t)[2], Task(t)[3])
    /\ \/ Returns(t)
       \/ Task(t)[3] \in {"CALL_UNIT_DEFINE_ATTRIBUTE", "CALL_UNIT_INIT", "UNIT"} /\ Fails(t)
    /\ UNCHANGED <<service, resources, scheduler, crashed>>

-----------------------------------------------------------------------------
(* The parts of init(), deinit(), start() and stop() *)

\* InizializableService of the cache (RT), which on a refused init() takes the
\* machine to Deinit too, and StartableService of the executor (SC), any operation of
\* which may fail.  A failed init() or stop() takes the machine back; a failed start()
\* would take it to Init, which the machine refuses, and a failed deinit() leaves it.
SubService(t) ==
    /\ Ready(t, "sub")
    /\ LET e == Task(t)[2] IN
         IF Handled(startable_rows, sub, e)
         THEN \/ sub' = NextState(startable_rows, sub, e) /\ Returns(t)
              \/ /\ kind = "SC" /\ Throws(t)
                 /\ sub' = IF e \in {"init", "stop"} THEN sub ELSE NextState(startable_rows, sub, e)
         ELSE /\ sub' = IF kind = "RT" THEN "Deinit" ELSE sub
              /\ Throws(t)
    /\ scheduler_run' = IF kind = "RT" /\ Task(t)[2] = "init" THEN FALSE ELSE scheduler_run
    /\ UNCHANGED <<service, list, storage, timer, scheduler_thread, runner, crashed>>

ThreadStart(t) ==
    /\ Ready(t, "threadStart")
    /\ IF scheduler_thread # "null" /\ scheduler_run
       THEN UNCHANGED scheduler
       ELSE \E r \in FreeRunner :
              /\ scheduler_run' = TRUE
              /\ scheduler_thread' = r
              /\ runner' = [runner EXCEPT ![r] = "loop"]
    /\ Returns(t)
    /\ UNCHANGED <<service, list, resources, crashed>>

\* The thread is not waited for.
ThreadStop_NoJoin(t) ==
    /\ Ready(t, "threadStop")
    /\ IF scheduler_thread = "null"
       THEN Crash("scheduler_thread")
       ELSE /\ scheduler_run' = FALSE
            /\ Returns(t)
            /\ UNCHANGED <<service, list, resources, scheduler_thread, runner, crashed>>

\* The thread is not told to leave.
ThreadStop_NoFlag(t) ==
    /\ Ready(t, "threadStop")
    /\ IF scheduler_thread = "null"
       THEN Crash("scheduler_thread")
       ELSE /\ Proceed(t, << <<"join", scheduler_thread>> >>)
            /\ UNCHANGED <<service, list, resources, scheduler, crashed>>

ThreadStop(t) ==
    /\ Ready(t, "threadStop")
    /\ IF scheduler_thread = "null"
       THEN Crash("scheduler_thread")
       ELSE /\ scheduler_run' = FALSE
            /\ Proceed(t, << <<"join", scheduler_thread>> >>)
            /\ UNCHANGED <<service, list, resources, scheduler_thread, runner, crashed>>

\* The thread object may have been replaced during the join, which then writes
\* to an object that is gone.
Join(t) ==
    /\ Ready(t, "join")
    /\ runner[Task(t)[2]] = "off"
    /\ \/ /\ Returns(t)
          /\ UNCHANGED <<service, list, resources, scheduler, crashed>>
       \/ /\ scheduler_thread # Task(t)[2]
          /\ Crash("scheduler_thread")

-----------------------------------------------------------------------------
(* The unit at work *)

GoesWrong ==
    \E e \in Err :
       /\ errors < MaxErrors /\ todo[e] = <<>>
       /\ errors' = errors + 1
       /\ todo' = [todo EXCEPT ![e] = GoInRecoverableError]
       /\ UNCHANGED <<service, list, resources, scheduler, crashed>>

\* One turn of executeOnThread(): unitRun() may throw, then the output dataset
\* is pushed.
ExecuteOnThread(r) ==
    /\ crashed = "no" /\ runner[r] = "loop"
    /\ \/ /\ scheduler_run /\ storage # "null"
          /\ \/ UNCHANGED <<service, list, resources, scheduler, todo, crashed, errors>>
             \/ GoesWrong
       \/ /\ scheduler_run /\ storage = "null"
          /\ Crash("key_data_storage")
          /\ UNCHANGED errors
       \/ /\ ~scheduler_run
          /\ UNCHANGED errors
          /\ runner' = [runner EXCEPT ![r] = "off"]
          /\ UNCHANGED <<service, list, resources, scheduler_run, scheduler_thread, todo, crashed>>

\* A command of the executor ends in EVT_FATAL_FAULT.
CommandFatal ==
    /\ crashed = "no" /\ kind = "SC" /\ sub = "Start"
    /\ GoesWrong

Step(t) ==
    \/ Note(t) \/ CutShort(t) \/ ProcessEvent(t) \/ RecoverEvent(t)
    \/ FatalErrorFromState(t) \/ Scan(t) \/ Rescan(t)
    \/ DoCall(t) \/ DoTimer(t) \/ DoStorage(t) \/ DoPush(t) \/ DoConfiguration(t)
    \/ DoRestore(t) \/ DoBody(t)
    \/ RedoCall(t) \/ RedoTimer(t) \/ RedoStorage(t) \/ RedoBody(t)
    \/ SubService(t) \/ ThreadStart(t) \/ ThreadStop(t) \/ Join(t)

Busy(threads) == \E t \in threads : todo[t] # <<>>

Rpc == RpcInit \/ RpcStart \/ RpcStop \/ RpcDeinit \/ RpcRecover

(***************************************************************************)
(* What the properties have to know of the past, written by every step.    *)
(***************************************************************************)
InitDone == list["rpc_init"].done \cup list["sm_init"].done
Clean == InitDone = {} /\ sub = "Deinit"

BodyThrows(t) ==
    /\ Ready(t, "do")
    /\ todo'[t] = Unwind(Tail(todo[t])) /\ todo'[t] # Settle(Tail(todo[t]))

StopFails(t) == Ready(t, "sub") /\ Task(t)[2] = "stop" /\ {sub, sub'} = {"Start"} /\ todo'[t] # todo[t]

Since(past, now) == crashed = "no" /\ ~Clean' /\ (past \/ now)

Observed ==
    /\ UNCHANGED kind
    /\ cutShort' = Since(cutShort, \E t \in Thread : Ready(t, "cut"))
    /\ stillRuns' = Since(stillRuns, \E t \in Thread : StopFails(t))
    /\ overlapped' = (crashed = "no" /\ (overlapped \/ (Busy({"rpc"})' /\ Busy(Err)')))
    /\ failed' = IF cutShort' \/ overlapped' THEN {}
                 ELSE InitDone' \cap (failed \cup {Task(t)[3] : t \in {u \in Thread : BodyThrows(u)}})

Next ==
    /\ \/ (Rpc \/ Restart \/ \E t \in Thread : Step(t)) /\ UNCHANGED errors
       \/ CommandFatal \/ \E r \in Runner : ExecuteOnThread(r)
    /\ Observed

Spec == Init /\ [][Next]_vars

-----------------------------------------------------------------------------
Idle == crashed = "no" /\ ~Busy(Thread)

\* The values the members of a control unit take.  No element of a check list is
\* both done and to do, whatever doneOnElement() and redoElement() are given.
TypeOK ==
    /\ kind \in Kinds
    /\ {machine, serviceState} \subseteq Normal \cup InError
    /\ last_state \in Normal \cup InError \cup {"none"}
    /\ \A l \in Lists : list[l].to_do \cap list[l].done = {}
    /\ storage \in {"null", "raw", "ready"} /\ sub \in Normal /\ timer \in BOOLEAN
    /\ scheduler_run \in BOOLEAN /\ scheduler_thread \in Runner \cup {"null"}
    /\ runner \in [Runner -> {"off", "loop"}]
    /\ crashed \in {"no", "key_data_storage", "scheduler_thread"}

\* What is ticked on a check list comes before what is not: whatever throws and
\* wherever, the layers that are up are the lower ones.
LayersInOrder ==
    \A l \in Lists : \A i, j \in DOMAIN Phases[l] :
       i < j /\ Phases[l][j] \in list[l].done => Phases[l][i] \in list[l].done

\* A unit that answers Init, Start or Stop has gone through the whole of its
\* initialization, however many attempts it took and whatever was left of earlier
\* ones: every phase is ticked, none of them by a body that threw, and the data storage
\* and the cache or the executor are there.  An exception that cuts short what
\* goInFatalError() undoes is another matter: deinit() refuses a cache or executor that
\* was not initialized, phases that failed stay ticked, and the next _init() skips them.
InitIsComplete ==
    Idle /\ ~overlapped /\ ~cutShort /\ serviceState \in {"Init", "Start", "Stop"}
      => /\ \A l \in {"rpc_init", "sm_init"} : list[l].to_do = {}
         /\ failed = {}
         /\ storage = "ready" /\ sub # "Deinit"

\* Outside of Start no thread calls unitRun() and no timer is registered.  An executor
\* that failed to stop is another matter: a command of it may fail later, and
\* _recover() then starts a unit that nobody had started.
QuietUnlessStarted ==
    Idle /\ ~overlapped /\ ~stillRuns /\ serviceState # "Start"
      => ~timer /\ ~scheduler_run

\* At most one thread is in executeOnThread().
OneRunThread == ~overlapped => Cardinality({r \in Runner : runner[r] = "loop"}) <= 1

\* An RPC that waits for the scheduler thread has told it to leave, and nobody
\* takes that back: the RPC returns.
RpcJoinEnds ==
    crashed = "no" /\ Busy({"rpc"}) /\ Task("rpc")[1] = "join"
      => ~scheduler_run \/ runner[Task("rpc")[2]] = "off"
=============================================================================
