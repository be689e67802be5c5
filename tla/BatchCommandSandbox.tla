------------------------ MODULE BatchCommandSandbox ------------------------
(***************************************************************************)
(* chaos::common::batch_command::BatchCommandSandbox: the place where a    *)
(* control unit runs its batch ("slow") commands.  Two threads share it:   *)
(*   - the scheduler, runCommand(), runs the handlers of the current       *)
(*     command, one step at a time;                                        *)
(*   - the checker, checkNextCommand(), decides from the running property  *)
(*     of the current command and the submission rule of the best queued   *)
(*     one whether the current command stays, is paused or is removed.     *)
(* They are driven from outside by the executor: init, start, stop,        *)
(* deinit, submission, kill, clear of the queue and change of features.    *)
(*                                                                         *)
(* A command is its unique id.  Everything done under                      *)
(* mutex_next_command_queue is one action.  mutext_access_current_command  *)
(* is held across two scheduler actions (spc = "top" and "step") and two   *)
(* of the checker (cpc = "release"); its other sections are one action.    *)
(***************************************************************************)
EXTENDS Integers, Sequences, FiniteSets, WaitSemaphore

CONSTANTS
    MaxCmd,           \* bound on the commands submitted
    Profiles,         \* what a command class can be: see ProfileType
    HandlerOutcome,   \* the running properties that user handlers leave
    Operations,       \* the optional operations that clients use
    MaxKill           \* bound on the kill requests that are pending

\* RunningPropertyType
RP_EXSC == 0
RP_NORMAL == 1
RP_END == 2
RP_FAULT == 3
RP_FATAL_FAULT == 4
RunningProperty == RP_EXSC .. RP_FATAL_FAULT

SubmissionRule == {"STACK", "KILL", "NORMAL"}
Handler == {"Set", "Acquisition", "Correlation"}

\* The submission rule, the implemented handlers and the priority.
ProfileType == [rule : SubmissionRule, mask : SUBSET Handler, priority : Nat]

ASSUME MaxCmdAssumption == MaxCmd \in Nat
ASSUME ProfilesAssumption == Profiles # {} /\ Profiles \subseteq ProfileType
ASSUME OutcomeAssumption == HandlerOutcome \subseteq RunningProperty
ASSUME OperationsAssumption == Operations \subseteq {"sticky", "clear", "features"}
ASSUME MaxKillAssumption == MaxKill \in Nat

\* The class of a command that does not exist.
NoProfile == [rule |-> "NORMAL", mask |-> {}, priority |-> 0]

Cmd == 1 .. MaxCmd          \* the submitted commands
NoCmd == -1                 \* a null pointer to a command
StickyCmd == 0              \* the default sticky command
Ids == Cmd \cup {StickyCmd}

\* BatchCommandEventType, with the terminal events named apart.
Terminal == {"COMPLETED", "FAULT", "FATAL_FAULT", "KILLED", "DEQUEUE"}
Event == {"none", "QUEUED", "RUNNING", "PAUSED"} \cup Terminal

VARIABLES
    serviceState,             \* StartableService::serviceState
    ctl,                      \* where the executor is in stop()
    submitting,               \* a submission has pushed and not yet signalled
    schedule_work_flag,
    whait_for_next_check,     \* the checker waits on it
    pause_condition,          \* thread_scheduler_pause_condition
    spc, canWork, impl,       \* scheduler: position, canWork, curr_executing_impl
    cpc, doomed,              \* checker: position, command_to_delete
    current,                  \* current_executing_command
    default_sticky_command,
    command_submitted_queue,
    command_stack,
    command_sequence_id,
    runningProperty, profile, \* fields of the commands
    already_setupped,         \* the commands in which this flag is set
    acquire, correlation,     \* cmd_instance of the two handler functors
    killRequests,             \* stack_run_cmd_op, each opcode with the command
                              \* that was current when it was requested
    clearRequest,             \* stack_wait_cmd_op: empty, or an opcode in it
                              \* with its lock held or released
    lastEvent,                \* the last event fired for a command
    deleted                   \* commands whose memory is released

lifecycle == <<serviceState, ctl, schedule_work_flag>>
semaphores == <<whait_for_next_check, pause_condition>>
scheduler == <<spc, canWork, impl>>
checker == <<cpc, doomed>>
places == <<current, command_submitted_queue, command_stack>>
issued == <<command_sequence_id, profile, default_sticky_command>>
functors == <<acquire, correlation>>
requests == <<killRequests, clearRequest>>
fields == <<runningProperty, already_setupped>>
vars == <<lifecycle, submitting, semaphores, scheduler, checker, places,
          issued, functors, requests, fields, lastEvent, deleted>>

-----------------------------------------------------------------------------
(* Operators on the data.                                                  *)

\* PriorityCommandCompare: the higher priority first, then the older id.
Before(c, d) == \/ profile[c].priority > profile[d].priority
                \/ profile[c].priority = profile[d].priority /\ c < d

\* c is command_submitted_queue.top()
IsTop(c) == \A d \in command_submitted_queue \ {c} : Before(c, d)

\* Mutant: the stack is read as a queue.
StackTop_Oldest == command_stack[1]

\* command_stack.top() and what pop() leaves
StackTop == command_stack[Len(command_stack)]
Popped == SubSeq(command_stack, 1, Len(command_stack) - 1)

RSR == {"NO_CHANGE", "TIMED_RETRY", "STACK", "KILL", "ENDED", "FAULTED"}

\* The table running_vs_submition and the correction for a sticky current
\* command.  The table has no row for RP_FATAL_FAULT: that lookup reads past
\* its end, so it yields any value, "OTHER" standing for a number that is no
\* RunningVSSubmissioneResult.
CheckRunningVsSubmission(r, rule, sticky) ==
    LET looked == CASE r = RP_EXSC ->
                            {IF rule = "NORMAL" THEN "NO_CHANGE" ELSE "TIMED_RETRY"}
                    [] r = RP_NORMAL ->
                            {IF rule = "NORMAL" THEN "NO_CHANGE" ELSE rule}
                    [] r = RP_END -> {"ENDED"}
                    [] r = RP_FAULT -> {"FAULTED"}
                    [] OTHER -> RSR \cup {"OTHER"}
    IN  {IF sticky /\ v = "NO_CHANGE" THEN "STACK" ELSE v : v \in looked}

\* The event of a command that leaves because of its running property.
EventOf(r) == CASE r = RP_END -> "COMPLETED"
                [] r = RP_FAULT -> "FAULT"
                [] OTHER -> "FATAL_FAULT"

\* Mutant: removeHandler forgets the functors.
Removed_Not(functor, c) == functor

\* removeHandler: a functor is cleared if it points to the command.
Removed(functor, c) == IF functor = c THEN NoCmd ELSE functor

\* installHandler: a functor is set only to a command that implements it.
Installed(functor, handler, c) ==
    IF handler \in profile[c].mask THEN c ELSE functor

\* installHandler(c), after the events in ev and with the functors a and k;
\* fresh says that already_setupped is false.  setHandler is user code: it
\* leaves any property, or throws, which leaves a fault and no set-up.
InstallHandler(c, fresh, ev, a, k) ==
    /\ lastEvent' = [ev EXCEPT ![c] = "RUNNING"]
    /\ IF fresh /\ "Set" \in profile[c].mask
       THEN \E r \in HandlerOutcome \cup {runningProperty[c]}, ok \in BOOLEAN :
               /\ ~ok => r \in {RP_FAULT, RP_FATAL_FAULT}
               /\ runningProperty' = [runningProperty EXCEPT ![c] = r]
               /\ already_setupped' = IF ok THEN already_setupped \cup {c}
                                            ELSE already_setupped \ {c}
       ELSE UNCHANGED fields
    /\ acquire' = Installed(a, "Acquisition", c)
    /\ correlation' = Installed(k, "Correlation", c)
    /\ current' = c

\* The commands in S are destroyed.  What is left in their memory is modelled
\* where it is read, so their fields take the value they had before.
Destroy(S) ==
    /\ deleted' = deleted \cup S
    /\ runningProperty' = [c \in Ids |-> IF c \in S THEN RP_NORMAL
                                                  ELSE runningProperty[c]]
    /\ already_setupped' = already_setupped \ S
    /\ profile' = [c \in Ids |-> IF c \in S THEN NoProfile ELSE profile[c]]

\* Mutant: the mutex is not taken.
CurrentMutexFree_Always == TRUE

\* Nobody holds mutext_access_current_command.
CurrentMutexFree == spc \notin {"top", "step"} /\ cpc # "release"

-----------------------------------------------------------------------------
(* The initial state: a sandbox that has been constructed.                 *)

Init ==
    /\ serviceState = "DEINIT" /\ ctl = "none" /\ submitting = FALSE
    /\ schedule_work_flag = FALSE
    /\ whait_for_next_check = NewSemaphore /\ pause_condition = NewSemaphore
    /\ spc = "off" /\ canWork = FALSE /\ impl = NoCmd
    /\ cpc = "off" /\ doomed = NoCmd
    /\ current = NoCmd /\ default_sticky_command = NoCmd
    /\ command_submitted_queue = {} /\ command_stack = <<>>
    /\ command_sequence_id = 0
    /\ runningProperty = [c \in Ids |-> RP_NORMAL]
    /\ already_setupped = {}
    /\ profile = [c \in Ids |-> NoProfile]
    /\ acquire = NoCmd /\ correlation = NoCmd
    /\ killRequests = {} /\ clearRequest = "none"
    /\ lastEvent = [c \in Ids |-> "none"]
    /\ deleted = {}

-----------------------------------------------------------------------------
(* The executor, from outside.  A submission holds sandbox_map_mutex for   *)
(* writing, everything else holds it for reading: no life cycle operation  *)
(* and no request runs during a submission, and no submission during one   *)
(* of them.                                                                *)

Outside == ctl = "none" /\ ~submitting

SetDefaultStickyCommand ==
    /\ "sticky" \in Operations      \* set once; its id plays no part
    /\ Outside /\ serviceState # "START" /\ default_sticky_command = NoCmd
    /\ default_sticky_command' = StickyCmd
    /\ \E p \in Profiles : profile' = [profile EXCEPT ![StickyCmd] = p]
    /\ UNCHANGED <<lifecycle, submitting, semaphores, scheduler, checker,
                   places, command_sequence_id, functors, requests, fields,
                   lastEvent, deleted>>

InitSandbox ==
    /\ Outside /\ serviceState = "DEINIT"
    /\ serviceState' = "INIT"
    /\ schedule_work_flag' = FALSE
    /\ current' = NoCmd /\ acquire' = NoCmd /\ correlation' = NoCmd
    /\ UNCHANGED <<ctl, submitting, semaphores, scheduler, checker,
                   command_submitted_queue, command_stack, issued, requests,
                   fields, lastEvent, deleted>>

Start ==
    /\ Outside /\ serviceState \in {"INIT", "STOP"}
    /\ serviceState' = "START"
    /\ schedule_work_flag' = TRUE
    /\ spc' = "start" /\ impl' = NoCmd
    /\ cpc' = "wait"
    /\ UNCHANGED <<ctl, submitting, semaphores, canWork, doomed, places,
                   issued, functors, requests, fields, lastEvent, deleted>>

\* Mutant: stop() does not unlock the checker.
Stop_OneUnlock ==
    /\ \/ /\ Outside /\ serviceState = "START"
          /\ schedule_work_flag' = FALSE
          /\ ctl' = "unlock_pause"
          /\ UNCHANGED <<serviceState, semaphores, spc, cpc>>
       \/ /\ ctl = "unlock_pause"
          /\ pause_condition' = Unlock(pause_condition)
          /\ ctl' = "join"
          /\ UNCHANGED <<serviceState, schedule_work_flag,
                         whait_for_next_check, spc, cpc>>
       \/ /\ ctl = "join" /\ spc = "done" /\ cpc = "done"
          /\ spc' = "off" /\ cpc' = "off"
          /\ ctl' = "none" /\ serviceState' = "STOP"
          /\ UNCHANGED <<schedule_work_flag, semaphores>>
    /\ UNCHANGED <<submitting, canWork, impl, doomed, places, issued,
                   functors, requests, fields, lastEvent, deleted>>

\* stop(): clear the flag, unlock the two semaphores, join the two threads.
Stop ==
    /\ \/ /\ Outside /\ serviceState = "START"
          /\ schedule_work_flag' = FALSE
          /\ ctl' = "unlock_pause"
          /\ UNCHANGED <<serviceState, semaphores, spc, cpc>>
       \/ /\ ctl = "unlock_pause"
          /\ pause_condition' = Unlock(pause_condition)
          /\ ctl' = "unlock_check"
          /\ UNCHANGED <<serviceState, schedule_work_flag,
                         whait_for_next_check, spc, cpc>>
       \/ /\ ctl = "unlock_check"
          /\ whait_for_next_check' = Unlock(whait_for_next_check)
          /\ ctl' = "join"
          /\ UNCHANGED <<serviceState, schedule_work_flag, pause_condition,
                         spc, cpc>>
       \/ /\ ctl = "join" /\ spc = "done" /\ cpc = "done"
          /\ spc' = "off" /\ cpc' = "off"
          /\ ctl' = "none" /\ serviceState' = "STOP"
          /\ UNCHANGED <<schedule_work_flag, semaphores>>
    /\ UNCHANGED <<submitting, canWork, impl, doomed, places, issued,
                   functors, requests, fields, lastEvent, deleted>>

Paused == {command_stack[i] : i \in 1 .. Len(command_stack)}

\* Mutant: deinit() does not reset the current command.
Deinit_KeepsCurrent ==
    /\ Outside /\ serviceState \in {"INIT", "STOP"}
    /\ serviceState' = "DEINIT"
    /\ LET killed == ({current} \cap Cmd) \cup Paused \cup command_submitted_queue
       IN  /\ lastEvent' = [c \in Ids |-> IF c \in killed THEN "KILLED"
                                                          ELSE lastEvent[c]]
           /\ Destroy(killed)
    /\ command_stack' = <<>> /\ command_submitted_queue' = {}
    /\ acquire' = NoCmd /\ correlation' = NoCmd
    /\ UNCHANGED <<ctl, schedule_work_flag, submitting, semaphores, scheduler,
                   checker, command_sequence_id, default_sticky_command,
                   requests, current>>

\* deinit(): the current command unless it is sticky, the paused and the
\* queued ones are killed and released.
Deinit ==
    /\ Outside /\ serviceState \in {"INIT", "STOP"}
    /\ serviceState' = "DEINIT"
    /\ LET killed == ({current} \cap Cmd) \cup Paused \cup command_submitted_queue
       IN  /\ lastEvent' = [c \in Ids |-> IF c \in killed THEN "KILLED"
                                                          ELSE lastEvent[c]]
           /\ Destroy(killed)
    /\ current' = IF current = StickyCmd THEN StickyCmd ELSE NoCmd
    /\ command_stack' = <<>> /\ command_submitted_queue' = {}
    /\ acquire' = NoCmd /\ correlation' = NoCmd
    /\ UNCHANGED <<ctl, schedule_work_flag, submitting, semaphores, scheduler,
                   checker, command_sequence_id, default_sticky_command,
                   requests>>

\* Mutant: enqueueCommand() does not unlock the checker.
EnqueueCommand_Silent ==
    /\ Outside /\ serviceState # "DEINIT" /\ command_sequence_id < MaxCmd
    /\ LET c == command_sequence_id + 1
       IN  /\ command_sequence_id' = c
           /\ \E p \in Profiles : profile' = [profile EXCEPT ![c] = p]
           /\ lastEvent' = [lastEvent EXCEPT ![c] = "QUEUED"]
           /\ command_submitted_queue' = command_submitted_queue \cup {c}
    /\ UNCHANGED <<lifecycle, submitting, semaphores, scheduler, checker,
                   current, command_stack, default_sticky_command, functors,
                   requests, fields, deleted>>

\* enqueueCommand(): refused in DEINIT; an id, EVT_QUEUED and the push under
\* the queue mutex, then the unlock of the checker.
EnqueueCommand ==
    /\ \/ /\ Outside /\ serviceState # "DEINIT" /\ command_sequence_id < MaxCmd
          /\ LET c == command_sequence_id + 1
             IN  /\ command_sequence_id' = c
                 /\ \E p \in Profiles : profile' = [profile EXCEPT ![c] = p]
                 /\ lastEvent' = [lastEvent EXCEPT ![c] = "QUEUED"]
                 /\ command_submitted_queue' = command_submitted_queue \cup {c}
          /\ submitting' = TRUE
          /\ UNCHANGED whait_for_next_check
       \/ /\ submitting
          /\ whait_for_next_check' = Unlock(whait_for_next_check)
          /\ submitting' = FALSE
          /\ UNCHANGED <<command_sequence_id, profile, lastEvent,
                         command_submitted_queue>>
    /\ UNCHANGED <<lifecycle, pause_condition, scheduler, checker, current,
                   command_stack, default_sticky_command, functors, requests,
                   fields, deleted>>

\* killCurrentCommand(): the opcode is pushed and nobody is woken.
KillCurrentCommand ==
    /\ ~submitting /\ Cardinality(killRequests) < MaxKill
    /\ killRequests' = killRequests \cup {current}
    /\ UNCHANGED <<lifecycle, submitting, semaphores, scheduler, checker,
                   places, issued, functors, clearRequest, fields, lastEvent,
                   deleted>>

\* clearCommandQueue(): the opcode is pushed and the checker is unlocked
\* while the lock of the opcodes is held, then the lock is released.
ClearCommandQueue ==
    /\ "clear" \in Operations
    /\ \/ /\ ~submitting /\ clearRequest # "locked"
          /\ clearRequest' = "locked"
          /\ whait_for_next_check' = Unlock(whait_for_next_check)
       \/ /\ clearRequest = "locked"
          /\ clearRequest' = "pending"
          /\ UNCHANGED whait_for_next_check
    /\ UNCHANGED <<lifecycle, submitting, pause_condition, scheduler, checker,
                   places, issued, functors, killRequests, fields, lastEvent,
                   deleted>>

\* setCurrentCommandFeatures, setCurrentCommandScheduerStepDelay and
\* lockCurrentCommandFeature: the scheduler is unlocked if there is a
\* current command.  The delays they set are time, which is not modelled.
SetCurrentCommandFeatures ==
    /\ "features" \in Operations
    /\ ~submitting /\ CurrentMutexFree /\ current # NoCmd
    /\ pause_condition' = Unlock(pause_condition)
    /\ UNCHANGED <<lifecycle, submitting, whait_for_next_check, scheduler,
                   checker, places, issued, functors, requests, fields,
                   lastEvent, deleted>>

-----------------------------------------------------------------------------
(* The scheduler thread, runCommand().                                     *)

SchedulerStart ==
    /\ spc = "start"
    /\ canWork' = schedule_work_flag /\ spc' = "enter"
    /\ UNCHANGED <<lifecycle, submitting, semaphores, impl, checker, places,
                   issued, functors, requests, fields, lastEvent, deleted>>

\* mutext_access_current_command is locked: on entry, and at the end of the
\* loop before while(canWork), which ends the thread.
SchedulerLock ==
    /\ spc \in {"enter", "lock"} /\ CurrentMutexFree
    /\ spc' = IF spc = "lock" /\ ~canWork THEN "done" ELSE "top"
    /\ UNCHANGED <<lifecycle, submitting, semaphores, canWork, impl, checker,
                   places, issued, functors, requests, fields, lastEvent,
                   deleted>>

\* The head of the loop.  With a current command the kill opcodes are
\* consumed (no effect on a sticky command); without one the thread ends or
\* leaves the mutex to wait.
SchedulerTop ==
    /\ spc = "top"
    /\ IF current # NoCmd
       THEN /\ killRequests' = {}
            /\ runningProperty' =
                  IF killRequests # {} /\ current # StickyCmd
                  THEN [runningProperty EXCEPT ![current] = RP_END]
                  ELSE runningProperty
            /\ impl' = current
            /\ spc' = "step"
            /\ UNCHANGED canWork
       ELSE /\ canWork' = (canWork /\ schedule_work_flag)
            /\ spc' = IF schedule_work_flag THEN "notify" ELSE "done"
            /\ UNCHANGED <<killRequests, runningProperty, impl>>
    /\ UNCHANGED <<lifecycle, submitting, semaphores, checker, places, issued,
                   functors, clearRequest, already_setupped, lastEvent,
                   deleted>>

\* Mutant: the handler is called on a command that has ended too.
Called_Ended(functor, p) ==
    IF functor # NoCmd
    THEN {[p EXCEPT ![functor] = r] : r \in HandlerOutcome \cup {p[functor]}}
    ELSE {p}

\* A handler functor is called on the running properties p: the handler runs
\* if there is a command that has not ended and leaves any property, by an
\* exception or not.
Called(functor, p) ==
    IF functor # NoCmd /\ p[functor] < RP_END
    THEN {[p EXCEPT ![functor] = r] : r \in HandlerOutcome \cup {p[functor]}}
    ELSE {p}

\* commandPost(): once the timeout has expired timeoutHandler is called, which
\* may end the command or ask for its fault, whatever its running property.  No
\* timeoutHandler of the repository makes a command that has ended run again.
CommandPost(c, p) == {p, [p EXCEPT ![c] = RP_END], [p EXCEPT ![c] = RP_FAULT]}

\* The step of the current command, after which the mutex is released.
SchedulerStep ==
    /\ spc = "step"
    /\ \E p1 \in Called(acquire, runningProperty) :
         \E p2 \in Called(correlation, p1) :
           runningProperty' \in CommandPost(impl, p2)
    /\ spc' = "check"
    /\ UNCHANGED <<lifecycle, submitting, semaphores, canWork, impl, checker,
                   places, issued, functors, requests, already_setupped,
                   lastEvent, deleted>>

\* The running property is read without the mutex, by the test of the flag and
\* again by the switch.  The memory of a deleted command holds anything, not the
\* same at both reads; a value past RP_FATAL_FAULT does what RP_NORMAL does with
\* no delay.  curr_executing_impl is not used again.
SchedulerCheck ==
    /\ spc = "check"
    /\ \E tested, switched \in IF impl \in deleted THEN RunningProperty
                                                   ELSE {runningProperty[impl]} :
         IF ~schedule_work_flag /\ tested # RP_EXSC
         THEN canWork' = FALSE /\ spc' = "lock"
         ELSE spc' = (IF switched < RP_END THEN "delay" ELSE "notify")
              /\ UNCHANGED canWork
    /\ impl' = NoCmd
    /\ UNCHANGED <<lifecycle, submitting, semaphores, checker, places, issued,
                   functors, requests, fields, lastEvent, deleted>>

\* waitUSec for the step delay: it ends by timeout or by an unlock and clears
\* the flag, or it is skipped when the step has lasted longer than the delay.
SchedulerDelay ==
    /\ spc = "delay"
    /\ pause_condition' \in {pause_condition, Clear(pause_condition)}
    /\ spc' = "lock"
    /\ UNCHANGED <<lifecycle, submitting, whait_for_next_check, canWork, impl,
                   checker, places, issued, functors, requests, fields,
                   lastEvent, deleted>>

\* Mutant: the checker is not unlocked.
SchedulerNotify_Silent ==
    /\ spc = "notify"
    /\ spc' = "wait"
    /\ UNCHANGED <<lifecycle, submitting, semaphores, canWork, impl, checker,
                   places, issued, functors, requests, fields, lastEvent,
                   deleted>>

\* The checker is unlocked: the command has ended or there is none.
SchedulerNotify ==
    /\ spc = "notify"
    /\ whait_for_next_check' = Unlock(whait_for_next_check)
    /\ spc' = "wait"
    /\ UNCHANGED <<lifecycle, submitting, pause_condition, canWork, impl,
                   checker, places, issued, functors, requests, fields,
                   lastEvent, deleted>>

\* thread_scheduler_pause_condition.wait(): test, block, be woken, clear.
SchedulerWait ==
    /\ \/ /\ spc = "wait"
          /\ spc' = IF Answered(pause_condition) THEN "clear" ELSE "block"
          /\ UNCHANGED pause_condition
       \/ /\ spc = "block"
          /\ pause_condition' = Block(pause_condition) /\ spc' = "blocked"
       \/ /\ spc = "blocked" /\ ~pause_condition.blocked
          /\ spc' = "wait" /\ UNCHANGED pause_condition
       \/ /\ spc = "clear"
          /\ pause_condition' = Clear(pause_condition) /\ spc' = "lock"
    /\ UNCHANGED <<lifecycle, submitting, whait_for_next_check, canWork, impl,
                   checker, places, issued, functors, requests, fields,
                   lastEvent, deleted>>

-----------------------------------------------------------------------------
(* The checker thread, checkNextCommand().                                 *)

\* whait_for_next_check.wait(): test, block, be woken, clear.
CheckerWait ==
    /\ \/ /\ cpc = "wait"
          /\ cpc' = IF Answered(whait_for_next_check) THEN "clear" ELSE "block"
          /\ UNCHANGED whait_for_next_check
       \/ /\ cpc = "block"
          /\ whait_for_next_check' = Block(whait_for_next_check)
          /\ cpc' = "blocked"
       \/ /\ cpc = "blocked" /\ ~whait_for_next_check.blocked
          /\ cpc' = "wait" /\ UNCHANGED whait_for_next_check
       \/ /\ cpc \in {"clear", "timed_wait"}
          /\ whait_for_next_check' = Clear(whait_for_next_check)
          /\ cpc' = "loop"
    /\ UNCHANGED <<lifecycle, submitting, pause_condition, scheduler, doomed,
                   places, issued, functors, requests, fields, lastEvent,
                   deleted>>

\* The head of the loop: under the queue mutex the clear opcode is consumed
\* unless its lock is held, and the emptiness of the queue is read.
CheckerLoop ==
    /\ cpc = "loop"
    /\ IF ~schedule_work_flag
       THEN /\ cpc' = "done"
            /\ UNCHANGED <<clearRequest, lastEvent, command_submitted_queue,
                           fields, deleted, profile>>
       ELSE LET cleared == IF clearRequest = "pending"
                           THEN command_submitted_queue ELSE {}
            IN  /\ clearRequest' = IF clearRequest = "pending" THEN "none"
                                                              ELSE clearRequest
                /\ lastEvent' = [c \in Ids |-> IF c \in cleared THEN "DEQUEUE"
                                                               ELSE lastEvent[c]]
                /\ Destroy(cleared)
                /\ command_submitted_queue' = command_submitted_queue \ cleared
                /\ cpc' = IF command_submitted_queue' = {} THEN "empty"
                          ELSE IF current # NoCmd THEN "compare" ELSE "install"
    /\ UNCHANGED <<lifecycle, submitting, semaphores, scheduler, doomed,
                   current, command_stack, command_sequence_id,
                   default_sticky_command, functors, killRequests>>

\* The current command stays: wait for an unlock, or retry after the delay.
CheckerKeep(v) ==
    /\ cpc' = IF v = "NO_CHANGE" THEN "wait" ELSE "timed_wait"
    /\ UNCHANGED <<pause_condition, doomed, places, functors, fields,
                   lastEvent>>

\* Mutant: a sticky current command is put on the stack too.
CheckerStack_Sticky(next) ==
    /\ InstallHandler(next, next \notin already_setupped,
                      [lastEvent EXCEPT ![current] = "PAUSED"],
                      acquire, correlation)
    /\ command_submitted_queue' = command_submitted_queue \ {next}
    /\ command_stack' = Append(command_stack, current)
    /\ pause_condition' = Unlock(pause_condition)
    /\ cpc' = "loop"
    /\ UNCHANGED doomed

\* The current command is paused, on the stack unless it is sticky, and the
\* best queued one takes its place.
CheckerStack(next) ==
    /\ InstallHandler(next, next \notin already_setupped,
                      [lastEvent EXCEPT ![current] = "PAUSED"],
                      acquire, correlation)
    /\ command_submitted_queue' = command_submitted_queue \ {next}
    /\ command_stack' = IF current = StickyCmd THEN command_stack
                        ELSE Append(command_stack, current)
    /\ pause_condition' = Unlock(pause_condition)
    /\ cpc' = "loop"
    /\ UNCHANGED doomed

\* The current command leaves with event e and the best queued one takes its
\* place; the command is deleted once the mutex is released.
CheckerReplace(next, e) ==
    /\ InstallHandler(next, next \notin already_setupped,
                      [lastEvent EXCEPT ![current] = e],
                      Removed(acquire, current), Removed(correlation, current))
    /\ command_submitted_queue' = command_submitted_queue \ {next}
    /\ doomed' = IF current = StickyCmd THEN NoCmd ELSE current
    /\ pause_condition' = Unlock(pause_condition)
    /\ cpc' = "delete"
    /\ UNCHANGED command_stack

\* A result that is no case of the switch leaves the queue mutex locked: the
\* next lock() of the same unique_lock throws and the process terminates.
CheckerAbort ==
    /\ cpc' = "aborted"
    /\ UNCHANGED <<doomed, pause_condition, places, functors, fields,
                   lastEvent>>

\* There are a current and a queued command: under the two mutexes.
CheckerCompare ==
    /\ cpc = "compare" /\ CurrentMutexFree
    /\ \E next \in command_submitted_queue :
         /\ IsTop(next)
         /\ \E v \in CheckRunningVsSubmission(runningProperty[current],
                                              profile[next].rule,
                                              current = StickyCmd) :
              \/ v \in {"NO_CHANGE", "TIMED_RETRY"} /\ CheckerKeep(v)
              \/ v = "STACK" /\ CheckerStack(next)
              \/ v = "KILL" /\ CheckerReplace(next, "KILLED")
              \/ v = "ENDED" /\ CheckerReplace(next, "COMPLETED")
              \/ v = "FAULTED" /\ CheckerReplace(next, "FAULT")
              \/ v = "OTHER" /\ CheckerAbort
    /\ UNCHANGED <<lifecycle, submitting, whait_for_next_check, scheduler,
                   issued, requests, deleted>>

\* command_to_delete.reset(), after the mutex is released or, when the command
\* is retired, before.
CheckerDelete ==
    /\ cpc \in {"delete", "release"}
    /\ Destroy({doomed} \cap Cmd)
    /\ doomed' = NoCmd
    /\ cpc' = IF cpc = "delete" THEN "loop" ELSE "sticky"
    /\ UNCHANGED <<lifecycle, submitting, semaphores, scheduler, places,
                   command_sequence_id, default_sticky_command, functors,
                   requests, lastEvent>>

\* Mutant: the installed command is not taken out of the queue.
CheckerInstall_NoPop ==
    /\ cpc = "install"
    /\ \E next \in command_submitted_queue :
         /\ IsTop(next)
         /\ InstallHandler(next, next \notin already_setupped, lastEvent, acquire,
                           correlation)
    /\ cpc' = "unlock_loop"
    /\ UNCHANGED <<lifecycle, submitting, semaphores, scheduler, doomed,
                   command_submitted_queue, command_stack, issued, requests,
                   deleted>>

\* There is no current command: the best queued one is installed without
\* mutext_access_current_command, and then the scheduler is unlocked.
CheckerInstall ==
    /\ cpc = "install"
    /\ \E next \in command_submitted_queue :
         /\ IsTop(next)
         /\ InstallHandler(next, next \notin already_setupped, lastEvent, acquire,
                           correlation)
         /\ command_submitted_queue' = command_submitted_queue \ {next}
    /\ cpc' = "unlock_loop"
    /\ UNCHANGED <<lifecycle, submitting, semaphores, scheduler, doomed,
                   command_stack, issued, requests, deleted>>

\* The queue is empty: has the current command ended?  Read without the mutex.
CheckerEmpty ==
    /\ cpc = "empty"
    /\ cpc' = IF current # NoCmd /\ runningProperty[current] >= RP_END
              THEN "retire" ELSE "sticky"
    /\ UNCHANGED <<lifecycle, submitting, semaphores, scheduler, doomed,
                   places, issued, functors, requests, fields, lastEvent,
                   deleted>>

\* Mutant: the stack counts as empty when one command is on it.
CheckerRetire_OffByOne ==
    /\ cpc = "retire" /\ CurrentMutexFree
    /\ LET ev == [lastEvent EXCEPT ![current] = EventOf(runningProperty[current])]
       IN  IF Len(command_stack) > 1
           THEN /\ InstallHandler(StackTop, StackTop \notin already_setupped, ev,
                                  Removed(acquire, current),
                                  Removed(correlation, current))
                /\ command_stack' = Popped
                /\ pause_condition' = Unlock(pause_condition)
           ELSE /\ lastEvent' = ev
                /\ current' = NoCmd
                /\ acquire' = IF current = StickyCmd THEN acquire ELSE NoCmd
                /\ correlation' = IF current = StickyCmd THEN correlation
                                                         ELSE NoCmd
                /\ UNCHANGED <<command_stack, pause_condition, fields>>
    /\ doomed' = IF current = StickyCmd THEN NoCmd ELSE current
    /\ cpc' = "release"
    /\ UNCHANGED <<lifecycle, submitting, whait_for_next_check, scheduler,
                   command_submitted_queue, issued, requests, deleted>>

\* The current command has ended and the queue was empty: the last paused
\* command is resumed, or no command is left; a sticky one keeps its functors.
CheckerRetire ==
    /\ cpc = "retire" /\ CurrentMutexFree
    /\ LET ev == [lastEvent EXCEPT ![current] = EventOf(runningProperty[current])]
       IN  IF command_stack # <<>>
           THEN /\ InstallHandler(StackTop, StackTop \notin already_setupped, ev,
                                  Removed(acquire, current),
                                  Removed(correlation, current))
                /\ command_stack' = Popped
                /\ pause_condition' = Unlock(pause_condition)
           ELSE /\ lastEvent' = ev
                /\ current' = NoCmd
                /\ acquire' = IF current = StickyCmd THEN acquire ELSE NoCmd
                /\ correlation' = IF current = StickyCmd THEN correlation
                                                         ELSE NoCmd
                /\ UNCHANGED <<command_stack, pause_condition, fields>>
    /\ doomed' = IF current = StickyCmd THEN NoCmd ELSE current
    /\ cpc' = "release"
    /\ UNCHANGED <<lifecycle, submitting, whait_for_next_check, scheduler,
                   command_submitted_queue, issued, requests, deleted>>

\* No current command: the default sticky one is set up again and installed,
\* without mutext_access_current_command.
CheckerSticky ==
    /\ cpc = "sticky"
    /\ IF current = NoCmd /\ default_sticky_command # NoCmd
       THEN /\ InstallHandler(StickyCmd, TRUE, lastEvent, acquire, correlation)
            /\ cpc' = "unlock_wait"
       ELSE /\ cpc' = "wait"
            /\ UNCHANGED <<current, functors, fields, lastEvent>>
    /\ UNCHANGED <<lifecycle, submitting, semaphores, scheduler, doomed,
                   command_submitted_queue, command_stack, issued, requests,
                   deleted>>

\* The scheduler is unlocked after an installation without the mutex.
CheckerUnlock ==
    /\ cpc \in {"unlock_loop", "unlock_wait"}
    /\ pause_condition' = Unlock(pause_condition)
    /\ cpc' = IF cpc = "unlock_loop" THEN "loop" ELSE "wait"
    /\ UNCHANGED <<lifecycle, submitting, whait_for_next_check, scheduler,
                   doomed, places, issued, functors, requests, fields,
                   lastEvent, deleted>>

-----------------------------------------------------------------------------
(* A condition variable may wake a blocked thread on its own.              *)

Spurious ==
    /\ \/ /\ pause_condition.blocked
          /\ pause_condition' = SpuriousWakeup(pause_condition)
          /\ UNCHANGED whait_for_next_check
       \/ /\ whait_for_next_check.blocked
          /\ whait_for_next_check' = SpuriousWakeup(whait_for_next_check)
          /\ UNCHANGED pause_condition
    /\ UNCHANGED <<lifecycle, submitting, scheduler, checker, places, issued,
                   functors, requests, fields, lastEvent, deleted>>

Executor ==
    \/ SetDefaultStickyCommand \/ InitSandbox \/ Start \/ Stop \/ Deinit
    \/ EnqueueCommand \/ KillCurrentCommand \/ ClearCommandQueue
    \/ SetCurrentCommandFeatures

RunCommand ==
    \/ SchedulerStart \/ SchedulerLock \/ SchedulerTop \/ SchedulerStep
    \/ SchedulerCheck \/ SchedulerDelay \/ SchedulerNotify \/ SchedulerWait

CheckNextCommand ==
    \/ CheckerWait \/ CheckerLoop \/ CheckerCompare \/ CheckerDelete
    \/ CheckerInstall \/ CheckerEmpty \/ CheckerRetire \/ CheckerSticky
    \/ CheckerUnlock

\* std::terminate has been called: nothing happens any more.
Aborted == cpc = "aborted"
Terminated == Aborted /\ UNCHANGED vars

Next ==
    \/ ~Aborted /\ (Executor \/ RunCommand \/ CheckNextCommand \/ Spurious)
    \/ Terminated

Spec == Init /\ [][Next]_vars

\* The operating system runs the two threads, and the threads of the executor
\* that are in the middle of an operation.
Fairness == /\ WF_vars(~Aborted /\ RunCommand)
            /\ WF_vars(~Aborted /\ CheckNextCommand)
            /\ WF_vars(~Aborted /\ submitting /\ EnqueueCommand)
            /\ WF_vars(~Aborted /\ ctl # "none" /\ Stop)
            /\ WF_vars(~Aborted /\ clearRequest = "locked" /\ ClearCommandQueue)

FairSpec == Spec /\ Fairness

-----------------------------------------------------------------------------
\* The positions of the threads and the flags.
ControlType ==
    /\ serviceState \in {"DEINIT", "INIT", "START", "STOP"}
    /\ ctl \in {"none", "unlock_pause", "unlock_check", "join"}
    /\ submitting \in BOOLEAN /\ schedule_work_flag \in BOOLEAN
    /\ whait_for_next_check \in Semaphore /\ pause_condition \in Semaphore
    /\ spc \in {"off", "start", "enter", "top", "step", "check", "delay",
                "notify", "wait", "block", "blocked", "clear", "lock", "done"}
    /\ cpc \in {"off", "wait", "block", "blocked", "clear", "timed_wait",
                "loop", "compare", "delete", "install", "unlock_loop",
                "empty", "retire", "release", "sticky", "unlock_wait", "done",
                "aborted"}
    /\ canWork \in BOOLEAN
    /\ clearRequest \in {"none", "locked", "pending"}

\* Where the commands are.
PlaceType ==
    /\ {impl, doomed, current, acquire, correlation} \subseteq Ids \cup {NoCmd}
    /\ default_sticky_command \in {NoCmd, StickyCmd}
    /\ command_submitted_queue \subseteq Cmd
    /\ command_stack \in Seq(Cmd)
    /\ command_sequence_id \in 0 .. MaxCmd
    /\ killRequests \subseteq Ids \cup {NoCmd}
    /\ deleted \subseteq Cmd

\* The fields of the commands.
FieldType ==
    /\ runningProperty \in [Ids -> RunningProperty]
    /\ already_setupped \subseteq Ids
    /\ profile \in [Ids -> Profiles \cup {NoProfile}]
    /\ lastEvent \in [Ids -> Event]

\* Every variable of the sandbox has the type that the code gives it; only
\* submitted commands are ever queued, paused or destroyed.
TypeOK == ControlType /\ PlaceType /\ FieldType

\* What checkNextCommand(), enqueueCommand() and deinit() keep between them:
\* an issued command is queued, current or paused exactly while its last event
\* is EVT_QUEUED, EVT_RUNNING or EVT_PAUSED; it is in one place once.
PlaceMatchesEvent ==
    \A c \in Cmd :
        /\ lastEvent[c] = "none" <=> c > command_sequence_id
        /\ lastEvent[c] = "QUEUED" <=> c \in command_submitted_queue
        /\ lastEvent[c] = "RUNNING" <=> c = current
        /\ lastEvent[c] = "PAUSED" <=> c \in Paused

\* A paused command waits for a submitted command that runs: the checker
\* never leaves paused commands under the sticky command or under none, where
\* nothing would resume them.
NoneStranded == command_stack # <<>> => current \in Cmd

\* A handler functor never points to a released command: installHandler and
\* removeHandler leave it on the current, a paused or the sticky command.
NoDanglingFunctor ==
    {acquire, correlation} \subseteq {current, StickyCmd, NoCmd} \cup Paused

\* Only commands that have left are released, and the one whose step is
\* being run is still current.
StepOnLiveCommand ==
    /\ deleted \cap ({current} \cup Paused \cup command_submitted_queue) = {}
    /\ spc = "step" => impl = current /\ impl # NoCmd

\* What checkNextCommand() reads without mutext_access_current_command, that the
\* current command has ended, still holds once it has the mutex.
RetiresEnded ==
    cpc = "retire" => current # NoCmd /\ runningProperty[current] >= RP_END

\* The events that the clients see are those of CommandLifecycle.
Lifecycle == INSTANCE CommandLifecycle
                WITH status <- [c \in Cmd |-> lastEvent[c]], paused <- command_stack

\* runCommand() and checkNextCommand(), with the requests of the executor, run
\* one command at a time, resume the paused ones last paused first and fire no
\* event for a command that has left.
ImplementsLifecycle == Lifecycle!LSpec

\* The events of one command come in the order of Follows, whatever the two
\* threads and the executor do to the other commands.
EventsFollow == Lifecycle!EventsInOrder

-----------------------------------------------------------------------------
(* Liveness, where no wake-up is lost.                                     *)

NoLostWakeup == [](~LostWakeup(whait_for_next_check) /\ ~LostWakeup(pause_condition))

\* The sandbox has been started and is not being stopped.
Running == serviceState = "START" /\ ctl = "none"

\* An idle sandbox with a queued command starts a command: the unlock() of
\* enqueueCommand() or of the scheduler reaches the checker.
QueuedStarts ==
    (Running /\ command_submitted_queue # {} /\ current = NoCmd)
        ~> (~Running \/ Aborted \/ command_submitted_queue = {} \/ current # NoCmd)
QueuedStartsUnlessLost == NoLostWakeup => QueuedStarts

\* A command that has ended leaves: the scheduler unlocks the checker.
EndedLeaves ==
    \A c \in Cmd : (Running /\ current = c /\ runningProperty[c] >= RP_END)
                      ~> (~Running \/ Aborted \/ current # c)
EndedLeavesUnlessLost == NoLostWakeup => EndedLeaves

\* stop() does not clear the flag before the scheduler has read, for the last time, a
\* command that is released already.
NoStaleStop == []~(spc = "check" /\ impl \in deleted /\ ~schedule_work_flag)

\* stop() returns: the two threads see the flag and end.  A command that asks
\* for exclusivity is left to run.  Where the scheduler tests the flag with what it
\* reads of a released command, it may go on and wait for an unlock that has been.
StopReturns ==
    (ctl = "join") ~> (ctl = "none" \/ Aborted \/ (current # NoCmd /\ runningProperty[current] = RP_EXSC))
StopReturnsUnlessLost == NoLostWakeup /\ NoStaleStop => StopReturns
=============================================================================
