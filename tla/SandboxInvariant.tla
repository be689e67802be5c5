-------------------------- MODULE SandboxInvariant --------------------------
(***************************************************************************)
(* The safety properties of BatchCommandSandbox, for any number of         *)
(* commands, any command classes and any outcome of their handlers.        *)
(*                                                                         *)
(* None of them is inductive alone.  What is missing is what each thread   *)
(* knows at its position: the checker that compares has a current command, *)
(* the one that installs without the mutex has none, no thread runs while  *)
(* the sandbox is not started, and a deinitialised sandbox holds nothing.  *)
(***************************************************************************)
EXTENDS BatchCommandSandbox, SequenceTheorems, TLAPS

\* A command is on command_stack at most once.
PausedOnce ==
    \A i, j \in 1 .. Len(command_stack) :
        command_stack[i] = command_stack[j] => i = j

\* The threads exist only while the service is started, and stop() runs then;
\* a deinitialised sandbox holds no submitted command.
ThreadsMatchState ==
    /\ serviceState # "START" => spc = "off" /\ cpc = "off" /\ ctl = "none"
    /\ serviceState = "DEINIT" => /\ current \notin Cmd
                                  /\ command_submitted_queue = {}
                                  /\ command_stack = <<>>

\* What the checker has established on its way to a position, and the commands
\* that have been or are about to be destroyed have left.
CheckerKnows ==
    /\ cpc = "compare" => current # NoCmd
    /\ cpc = "install" => current = NoCmd
    /\ doomed # NoCmd => doomed \in Cmd /\ lastEvent[doomed] \in Terminal
    /\ \A c \in deleted : lastEvent[c] \in Terminal

\* The inductive invariant.
IInv ==
    /\ TypeOK
    /\ PlaceMatchesEvent
    /\ PausedOnce
    /\ NoneStranded
    /\ NoDanglingFunctor
    /\ StepOnLiveCommand
    /\ RetiresEnded
    /\ ThreadsMatchState
    /\ CheckerKnows

-----------------------------------------------------------------------------
(* Facts about the operators.                                              *)

\* The operations on a semaphore yield a semaphore.
LEMMA SemaphoreOperations ==
    /\ NewSemaphore \in Semaphore
    /\ \A s \in Semaphore : /\ Unlock(s) \in Semaphore
                            /\ Block(s) \in Semaphore
                            /\ SpuriousWakeup(s) \in Semaphore
                            /\ Clear(s) \in Semaphore
BY Zenon DEF NewSemaphore, Semaphore, Unlock, Block, SpuriousWakeup, Clear

\* push() on a stack.
LEMMA Push ==
    ASSUME NEW S, NEW s \in Seq(S), NEW e \in S
    PROVE  /\ Append(s, e) \in Seq(S)
           /\ Append(s, e) # <<>>
           /\ Len(Append(s, e)) = Len(s) + 1
           /\ \A i \in 1 .. Len(s) : Append(s, e)[i] = s[i]
           /\ Append(s, e)[Len(s) + 1] = e
OBVIOUS

\* top() and pop() on a stack that is not empty.
LEMMA Pop ==
    ASSUME NEW S, NEW s \in Seq(S), s # <<>>
    PROVE  /\ Len(s) \in Nat /\ Len(s) >= 1
           /\ s[Len(s)] \in S
           /\ SubSeq(s, 1, Len(s) - 1) \in Seq(S)
           /\ Len(SubSeq(s, 1, Len(s) - 1)) = Len(s) - 1
           /\ \A i \in 1 .. Len(s) - 1 : SubSeq(s, 1, Len(s) - 1)[i] = s[i]
<1>1. Len(s) \in Nat /\ Len(s) >= 1
  BY EmptySeq
<1>2. \A i \in 1 .. Len(s) : s[i] \in S
  OBVIOUS
<1>3. DEFINE n == Len(s) - 1
<1>4. n \in Int /\ \A i \in 1 .. n : s[i] \in S
  BY <1>1, <1>2
<1> HIDE DEF n
<1>5. /\ SubSeq(s, 1, n) \in Seq(S)
      /\ Len(SubSeq(s, 1, n)) = IF 1 <= n THEN n - 1 + 1 ELSE 0
      /\ \A i \in 1 .. n - 1 + 1 : SubSeq(s, 1, n)[i] = s[1 + i - 1]
  BY <1>4, SubSeqProperties
<1>6. n >= 0 /\ Len(s) \in 1 .. Len(s)
  BY <1>1 DEF n
<1>7. Len(SubSeq(s, 1, n)) = n
  BY <1>4, <1>5, <1>6
<1>8. ASSUME NEW i \in 1 .. n PROVE SubSeq(s, 1, n)[i] = s[i]
  BY <1>4, <1>5
<1> QED BY <1>1, <1>2, <1>5, <1>6, <1>7, <1>8, Zenon DEF n

\* The ids and the null pointer.
LEMMA IdFacts == /\ Cmd \subseteq Ids /\ StickyCmd \in Ids
                 /\ NoCmd \notin Ids /\ StickyCmd \notin Cmd /\ NoCmd \notin Cmd
                 /\ StickyCmd # NoCmd
                 /\ \A c \in Ids : c \in Cmd \/ c = StickyCmd
                 /\ \A c \in Cmd : c \in Int /\ c >= 1 /\ c <= MaxCmd
BY MaxCmdAssumption DEF Cmd, Ids, StickyCmd, NoCmd

\* A constructed sandbox satisfies the invariant.
LEMMA InitIInv == Init => IInv
<1> SUFFICES ASSUME Init PROVE IInv
    OBVIOUS
<1> USE IdFacts, SemaphoreOperations, MaxCmdAssumption DEF Init
<1>1. TypeOK
  <2>1. ControlType
    BY ZenonT(40) DEF ControlType
  <2>2. PlaceType
    BY DEF PlaceType
  <2>3. FieldType
    BY DEF FieldType, Event, RunningProperty, RP_EXSC, RP_NORMAL, RP_FATAL_FAULT
  <2> QED BY <2>1, <2>2, <2>3 DEF TypeOK
<1>2. PlaceMatchesEvent
  BY DEF PlaceMatchesEvent, Paused, Cmd
<1>3. PausedOnce /\ NoneStranded /\ NoDanglingFunctor /\ RetiresEnded
  BY DEF PausedOnce, NoneStranded, NoDanglingFunctor, RetiresEnded
<1>4. StepOnLiveCommand /\ ThreadsMatchState /\ CheckerKnows
  BY DEF StepOnLiveCommand, ThreadsMatchState, CheckerKnows
<1> QED BY <1>1, <1>2, <1>3, <1>4 DEF IInv

-----------------------------------------------------------------------------
(* The steps that move a thread or a flag and leave the commands alone.    *)

data == <<places, issued, functors, fields, lastEvent, deleted, doomed>>

\* A step that moves threads without bringing one to a position where it must
\* know something new.
ControlMove ==
    /\ UNCHANGED data
    /\ ControlType'
    /\ impl' \in Ids \cup {NoCmd} /\ killRequests' \subseteq Ids \cup {NoCmd}
    /\ spc' = "step" => spc = "step" /\ impl' = impl
    /\ cpc' \in {"compare", "install"} => cpc' = cpc
    /\ cpc' = "retire" =>
          cpc = "retire" \/ (current # NoCmd /\ runningProperty[current] >= RP_END)
    /\ serviceState' # "START" => spc' = "off" /\ cpc' = "off" /\ ctl' = "none"
    /\ serviceState' = "DEINIT" => serviceState = "DEINIT"

\* The locks, waits and unlocks of the threads keep the invariant.
LEMMA ControlStep ==
    ASSUME IInv, ControlMove
    PROVE  IInv'
<1> USE DEF data, places, issued, functors, fields, IInv, ControlMove
<1>1. TypeOK'
  BY DEF TypeOK, PlaceType, FieldType
<1>2. PlaceMatchesEvent' /\ NoneStranded' /\ NoDanglingFunctor'
  BY DEF PlaceMatchesEvent, NoneStranded, NoDanglingFunctor, Paused
<1>3. PausedOnce'
  BY DEF PausedOnce
<1>4. StepOnLiveCommand' /\ RetiresEnded'
  BY DEF StepOnLiveCommand, RetiresEnded, Paused
<1>5. ThreadsMatchState' /\ CheckerKnows'
  BY DEF ThreadsMatchState, CheckerKnows
<1> QED BY <1>1, <1>2, <1>3, <1>4, <1>5

\* The steps of the executor that only signal, stop or start the threads.
LEMMA SignalSteps ==
    ASSUME IInv,
           \/ Start \/ Stop \/ KillCurrentCommand \/ ClearCommandQueue
           \/ SetCurrentCommandFeatures \/ Spurious
           \/ submitting /\ EnqueueCommand
    PROVE  IInv'
<1> USE SemaphoreOperations
<1> USE DEF data, lifecycle, semaphores, scheduler, checker, places, issued,
            functors, requests, fields, ControlType
<1>0. /\ ControlType /\ ThreadsMatchState
      /\ {impl, current} \subseteq Ids \cup {NoCmd} /\ killRequests \subseteq Ids \cup {NoCmd}
  BY DEF IInv, TypeOK, PlaceType
<1>1. CASE Start
  <2>1. UNCHANGED <<data, killRequests, ctl, submitting, semaphores, canWork, clearRequest>>
    BY <1>1 DEF Start, Outside
  <2>2. /\ serviceState' = "START" /\ schedule_work_flag' = TRUE /\ ctl = "none"
        /\ spc' = "start" /\ impl' = NoCmd /\ cpc' = "wait"
    BY <1>1 DEF Start, Outside
  <2>3. ControlType'
    BY <1>0, <2>1, <2>2
  <2>4. ControlMove
    BY <1>0, <2>1, <2>2, <2>3, SMTT(40) DEF ControlMove, ThreadsMatchState
  <2> QED BY <2>4, ControlStep
<1>2. CASE Stop
  <2>1. UNCHANGED <<data, impl, killRequests>>
    BY <1>2 DEF Stop
  <2>2. ControlType'
    <3>1. schedule_work_flag' = FALSE \/ UNCHANGED schedule_work_flag
      BY <1>2, Zenon DEF Stop
    <3>2. schedule_work_flag' \in BOOLEAN
      BY <1>0, <3>1, Zenon
    <3>3. UNCHANGED <<submitting, canWork, clearRequest>>
      BY <1>2 DEF Stop
    <3>4. /\ serviceState' \in {"DEINIT", "INIT", "START", "STOP"}
          /\ ctl' \in {"none", "unlock_pause", "unlock_check", "join"}
          /\ whait_for_next_check' \in Semaphore /\ pause_condition' \in Semaphore
          /\ spc' = spc \/ spc' = "off"
          /\ cpc' = cpc \/ cpc' = "off"
      BY <1>0, <1>2 DEF Stop
    <3> QED BY <1>0, <3>2, <3>3, <3>4
  <2>3. /\ spc' # spc => spc' = "off"
        /\ cpc' # cpc => cpc' = "off"
        /\ serviceState' # "START" => spc' = "off" /\ cpc' = "off" /\ ctl' = "none"
        /\ serviceState' = "DEINIT" => serviceState = "DEINIT"
    BY <1>0, <1>2 DEF Stop, Outside, ThreadsMatchState
  <2>4. ControlMove
    BY <1>0, <2>1, <2>2, <2>3 DEF ControlMove
  <2> QED BY <2>4, ControlStep
<1>3. CASE KillCurrentCommand
  <2>1. UNCHANGED <<data, lifecycle, submitting, semaphores, scheduler, cpc, clearRequest>>
    BY <1>3 DEF KillCurrentCommand
  <2>2. killRequests' = killRequests \cup {current}
    BY <1>3 DEF KillCurrentCommand
  <2>3. ControlType'
    BY <1>0, <2>1, <2>2
  <2>4. ControlMove
    BY <1>0, <2>1, <2>2, <2>3 DEF ControlMove, ThreadsMatchState
  <2> QED BY <2>4, ControlStep
<1>4. CASE ClearCommandQueue
  <2>1. UNCHANGED <<data, lifecycle, submitting, pause_condition, scheduler, cpc, killRequests>>
    BY <1>4 DEF ClearCommandQueue
  <2>2. clearRequest' \in {"locked", "pending"}
        /\ whait_for_next_check' \in {whait_for_next_check, Unlock(whait_for_next_check)}
    BY <1>4 DEF ClearCommandQueue
  <2>3. ControlType'
    BY <1>0, <2>1, <2>2
  <2>4. ControlMove
    BY <1>0, <2>1, <2>2, <2>3 DEF ControlMove, ThreadsMatchState
  <2> QED BY <2>4, ControlStep
<1>5. CASE SetCurrentCommandFeatures
  <2>1. UNCHANGED <<data, lifecycle, submitting, whait_for_next_check, scheduler, cpc,
                    requests>>
    BY <1>5 DEF SetCurrentCommandFeatures
  <2>2. pause_condition' = Unlock(pause_condition)
    BY <1>5 DEF SetCurrentCommandFeatures
  <2>3. ControlType'
    BY <1>0, <2>1, <2>2
  <2>4. ControlMove
    BY <1>0, <2>1, <2>2, <2>3 DEF ControlMove, ThreadsMatchState
  <2> QED BY <2>4, ControlStep
<1>6. CASE Spurious
  <2>1. UNCHANGED <<data, lifecycle, submitting, scheduler, cpc, requests>>
    BY <1>6 DEF Spurious
  <2>2. /\ pause_condition' \in {pause_condition, SpuriousWakeup(pause_condition)}
        /\ whait_for_next_check' \in
              {whait_for_next_check, SpuriousWakeup(whait_for_next_check)}
    BY <1>6 DEF Spurious
  <2>3. ControlType'
    BY <1>0, <2>1, <2>2
  <2>4. ControlMove
    BY <1>0, <2>1, <2>2, <2>3 DEF ControlMove, ThreadsMatchState
  <2> QED BY <2>4, ControlStep
<1>7. CASE submitting /\ EnqueueCommand
  <2>1. /\ submitting' = FALSE
        /\ whait_for_next_check' = Unlock(whait_for_next_check)
        /\ UNCHANGED <<command_sequence_id, profile, lastEvent,
                       command_submitted_queue>>
    BY <1>7, Zenon DEF EnqueueCommand, Outside
  <2>2. UNCHANGED <<lifecycle, pause_condition, scheduler, checker, current,
                    command_stack, default_sticky_command, functors, requests,
                    fields, deleted>>
    BY <1>7, Zenon DEF EnqueueCommand
  <2>3. submitting' \in BOOLEAN
    BY <2>1, Zenon
  <2>4. ControlType'
    BY <1>0, <2>1, <2>2, <2>3
  <2>5. UNCHANGED <<data, impl, killRequests, serviceState, ctl, spc, cpc>>
    BY <2>1, <2>2
  <2>6. ControlMove
    BY <1>0, <2>4, <2>5 DEF ControlMove, ThreadsMatchState
  <2> QED BY <2>6, ControlStep
<1> QED BY <1>1, <1>2, <1>3, <1>4, <1>5, <1>6, <1>7

\* The steps of the scheduler outside the handlers of a command.
LEMMA SchedulerMoves ==
    ASSUME IInv,
           \/ SchedulerStart \/ SchedulerLock \/ SchedulerCheck
           \/ SchedulerDelay \/ SchedulerNotify \/ SchedulerWait
    PROVE  IInv'
<1> USE SemaphoreOperations
<1> USE DEF data, lifecycle, semaphores, scheduler, checker, places, issued,
            functors, requests, fields, ControlType
<1>0. /\ ControlType /\ ThreadsMatchState
      /\ {impl, current} \subseteq Ids \cup {NoCmd} /\ killRequests \subseteq Ids \cup {NoCmd}
  BY DEF IInv, TypeOK, PlaceType
<1>1. CASE SchedulerStart
  <2>1. UNCHANGED <<data, lifecycle, submitting, semaphores, impl, cpc, requests>>
    BY <1>1 DEF SchedulerStart
  <2>2. spc = "start" /\ canWork' = schedule_work_flag /\ spc' = "enter"
    BY <1>1 DEF SchedulerStart
  <2>3. ControlType'
    BY <1>0, <2>1, <2>2
  <2>4. ControlMove
    BY <1>0, <2>1, <2>2, <2>3 DEF ControlMove, ThreadsMatchState
  <2> QED BY <2>4, ControlStep
<1>2. CASE SchedulerLock
  <2>1. UNCHANGED <<data, lifecycle, submitting, semaphores, canWork, impl, cpc, requests>>
    BY <1>2 DEF SchedulerLock
  <2>2. spc \in {"enter", "lock"} /\ spc' \in {"done", "top"}
    BY <1>2 DEF SchedulerLock
  <2>3. ControlType'
    BY <1>0, <2>1, <2>2
  <2>4. ControlMove
    BY <1>0, <2>1, <2>2, <2>3 DEF ControlMove, ThreadsMatchState
  <2> QED BY <2>4, ControlStep
<1>3. CASE SchedulerCheck
  <2>1. spc = "check" /\ impl' = NoCmd
        /\ UNCHANGED <<data, killRequests, lifecycle, cpc, submitting,
                       clearRequest, semaphores>>
    BY <1>3 DEF SchedulerCheck
  <2>2. spc' \in {"lock", "delay", "notify"} /\ canWork' \in BOOLEAN
    BY <1>0, <1>3, ZenonT(40) DEF SchedulerCheck
  <2>3. ControlType'
    BY <1>0, <2>1, <2>2
  <2>4. ControlMove
    BY <1>0, <2>1, <2>2, <2>3 DEF ControlMove, ThreadsMatchState
  <2> QED BY <2>4, ControlStep
<1>4. CASE SchedulerDelay
  <2>1. UNCHANGED <<data, lifecycle, submitting, whait_for_next_check, canWork, impl, cpc,
                    requests>>
    BY <1>4 DEF SchedulerDelay
  <2>2. /\ spc = "delay" /\ spc' = "lock"
        /\ pause_condition' \in {pause_condition, Clear(pause_condition)}
    BY <1>4 DEF SchedulerDelay
  <2>3. ControlType'
    BY <1>0, <2>1, <2>2
  <2>4. ControlMove
    BY <1>0, <2>1, <2>2, <2>3 DEF ControlMove, ThreadsMatchState
  <2> QED BY <2>4, ControlStep
<1>5. CASE SchedulerNotify
  <2>1. UNCHANGED <<data, lifecycle, submitting, pause_condition, canWork, impl, cpc, requests>>
    BY <1>5 DEF SchedulerNotify
  <2>2. /\ spc = "notify" /\ spc' = "wait"
        /\ whait_for_next_check' = Unlock(whait_for_next_check)
    BY <1>5 DEF SchedulerNotify
  <2>3. ControlType'
    BY <1>0, <2>1, <2>2, SMTT(40)
  <2>4. ControlMove
    BY <1>0, <2>1, <2>2, <2>3, SMTT(40) DEF ControlMove, ThreadsMatchState
  <2> QED BY <2>4, ControlStep
<1>6. CASE SchedulerWait
  <2>1. UNCHANGED <<data, lifecycle, submitting, whait_for_next_check, canWork, impl, cpc,
                    requests>>
    BY <1>6 DEF SchedulerWait
  <2>2. /\ spc \in {"wait", "block", "blocked", "clear"}
        /\ spc' \in {"wait", "block", "blocked", "clear", "lock"}
        /\ pause_condition' \in {pause_condition, Block(pause_condition),
                                 Clear(pause_condition)}
    BY <1>6 DEF SchedulerWait
  <2>3. ControlType'
    BY <1>0, <2>1, <2>2
  <2>4. ControlMove
    BY <1>0, <2>1, <2>2, <2>3 DEF ControlMove, ThreadsMatchState
  <2> QED BY <2>4, ControlStep
<1> QED BY <1>1, <1>2, <1>3, <1>4, <1>5, <1>6, SMTT(40)

\* The steps of the checker that change no command.
LEMMA CheckerMoves ==
    ASSUME IInv, CheckerWait \/ CheckerEmpty \/ CheckerUnlock
    PROVE  IInv'
<1> USE SemaphoreOperations
<1> USE DEF data, lifecycle, semaphores, scheduler, checker, places, issued,
            functors, requests, fields, ControlType
<1>0. /\ ControlType /\ ThreadsMatchState
      /\ {impl, current} \subseteq Ids \cup {NoCmd} /\ killRequests \subseteq Ids \cup {NoCmd}
  BY DEF IInv, TypeOK, PlaceType
<1>1. CASE CheckerWait
  <2>1. UNCHANGED <<data, lifecycle, submitting, pause_condition, scheduler, requests>>
    BY <1>1 DEF CheckerWait
  <2>2. /\ cpc \in {"wait", "block", "blocked", "clear", "timed_wait"}
        /\ cpc' \in {"wait", "block", "blocked", "clear", "loop"}
        /\ whait_for_next_check' \in {whait_for_next_check,
              Block(whait_for_next_check), Clear(whait_for_next_check)}
    BY <1>1 DEF CheckerWait
  <2>3. ControlType'
    BY <1>0, <2>1, <2>2, SMTT(40)
  <2>4. ControlMove
    BY <1>0, <2>1, <2>2, <2>3 DEF ControlMove, ThreadsMatchState
  <2> QED BY <2>4, ControlStep
<1>2. CASE CheckerEmpty
  <2>1. UNCHANGED <<data, lifecycle, submitting, semaphores, scheduler, requests>>
    BY <1>2 DEF CheckerEmpty
  <2>2. /\ cpc = "empty" /\ cpc' \in {"retire", "sticky"}
        /\ cpc' = "retire" => current # NoCmd /\ runningProperty[current] >= RP_END
    BY <1>2 DEF CheckerEmpty
  <2>3. ControlType'
    BY <1>0, <2>1, <2>2
  <2>4. ControlMove
    BY <1>0, <2>1, <2>2, <2>3 DEF ControlMove, ThreadsMatchState
  <2> QED BY <2>4, ControlStep
<1>3. CASE CheckerUnlock
  <2>1. UNCHANGED <<data, lifecycle, submitting, whait_for_next_check, scheduler, requests>>
    BY <1>3 DEF CheckerUnlock
  <2>2. /\ cpc \in {"unlock_loop", "unlock_wait"} /\ cpc' \in {"loop", "wait"}
        /\ pause_condition' = Unlock(pause_condition)
    BY <1>3 DEF CheckerUnlock
  <2>3. ControlType'
    BY <1>0, <2>1, <2>2, SMTT(40)
  <2>4. ControlMove
    BY <1>0, <2>1, <2>2, <2>3 DEF ControlMove, ThreadsMatchState
  <2> QED BY <2>4, ControlStep
<1> QED BY <1>1, <1>2, <1>3

-----------------------------------------------------------------------------
(* What the operators that change commands do to the fields.               *)

\* The destruction of commands leaves the fields of the others alone.
LEMMA DestroyFields ==
    ASSUME FieldType, deleted \subseteq Cmd, NEW S \in SUBSET Cmd, Destroy(S)
    PROVE  /\ runningProperty' \in [Ids -> RunningProperty]
           /\ already_setupped' \subseteq Ids
           /\ profile' \in [Ids -> Profiles \cup {NoProfile}]
           /\ deleted' = deleted \cup S /\ deleted' \subseteq Cmd
           /\ \A c \in Ids : c \notin S => runningProperty'[c] = runningProperty[c]
BY DEF Destroy, FieldType, RunningProperty, RP_EXSC, RP_NORMAL, RP_FATAL_FAULT

\* installHandler() makes its command current and RUNNING, and leaves a functor
\* where it was or on that command.
LEMMA InstallFields ==
    ASSUME FieldType, NEW c \in Ids, NEW fresh,
           NEW ev \in [Ids -> Event], NEW a, NEW k,
           InstallHandler(c, fresh, ev, a, k)
    PROVE  /\ runningProperty' \in [Ids -> RunningProperty]
           /\ already_setupped' \subseteq Ids
           /\ lastEvent' \in [Ids -> Event]
           /\ lastEvent' = [ev EXCEPT ![c] = "RUNNING"]
           /\ current' = c
           /\ acquire' \in {a, c} /\ correlation' \in {k, c}
<1>1. "RUNNING" \in Event
  BY DEF Event
<1>2. /\ lastEvent' = [ev EXCEPT ![c] = "RUNNING"]
      /\ current' = c
      /\ acquire' \in {a, c} /\ correlation' \in {k, c}
  BY DEF InstallHandler, Installed
<1>3. runningProperty' \in [Ids -> RunningProperty] /\ already_setupped' \subseteq Ids
  <2>1. CASE fresh /\ "Set" \in profile[c].mask
    <3>1. PICK r \in HandlerOutcome \cup {runningProperty[c]}, ok \in BOOLEAN :
               /\ runningProperty' = [runningProperty EXCEPT ![c] = r]
               /\ already_setupped' = IF ok THEN already_setupped \cup {c}
                                            ELSE already_setupped \ {c}
      BY <2>1 DEF InstallHandler
    <3>2. r \in RunningProperty
      BY OutcomeAssumption DEF FieldType
    <3> QED BY <3>1, <3>2 DEF FieldType
  <2>2. CASE ~(fresh /\ "Set" \in profile[c].mask)
    BY <2>2 DEF InstallHandler, fields, FieldType
  <2> QED BY <2>1, <2>2
<1> QED BY <1>1, <1>2, <1>3, Zenon

=============================================================================
