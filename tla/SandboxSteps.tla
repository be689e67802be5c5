---------------------------- MODULE SandboxSteps ----------------------------
(***************************************************************************)
(* The steps of the executor, of the scheduler and of the checker when it  *)
(* begins, deletes or installs a command, preserve the invariant of        *)
(* BatchCommandSandbox.                                                    *)
(***************************************************************************)
EXTENDS SandboxInvariant

-----------------------------------------------------------------------------
(* The steps of the executor that change commands.                         *)

\* setDefaultStickyCommand() only names the sticky command.
LEMMA SetDefaultStickyCommandStep ==
    ASSUME IInv, SetDefaultStickyCommand
    PROVE  IInv'
<1> USE DEF lifecycle, semaphores, scheduler, checker, places, functors,
            requests, fields, IInv
<1>1. /\ default_sticky_command' = StickyCmd
      /\ \E p \in Profiles : profile' = [profile EXCEPT ![StickyCmd] = p]
      /\ UNCHANGED <<lifecycle, submitting, semaphores, scheduler, checker,
                     places, command_sequence_id, functors, requests, fields,
                     lastEvent, deleted>>
  BY Zenon DEF SetDefaultStickyCommand
<1>2. TypeOK'
  <2>1. ControlType'
    BY <1>1 DEF TypeOK, ControlType
  <2>2. PlaceType'
    BY <1>1 DEF TypeOK, PlaceType
  <2>3. FieldType'
    <3>1. PICK p \in Profiles : profile' = [profile EXCEPT ![StickyCmd] = p]
      BY <1>1, Zenon
    <3>2. profile' \in [Ids -> Profiles \cup {NoProfile}]
      BY <3>1, ZenonT(40) DEF TypeOK, FieldType
    <3> QED BY <1>1, <3>2 DEF TypeOK, FieldType
  <2> QED BY <2>1, <2>2, <2>3 DEF TypeOK
<1>3. PlaceMatchesEvent' /\ NoneStranded' /\ NoDanglingFunctor'
  BY <1>1 DEF PlaceMatchesEvent, NoneStranded, NoDanglingFunctor, Paused
<1>4. PausedOnce' /\ RetiresEnded' /\ StepOnLiveCommand'
  BY <1>1 DEF PausedOnce, RetiresEnded, StepOnLiveCommand, Paused
<1>5. ThreadsMatchState' /\ CheckerKnows'
  BY <1>1 DEF ThreadsMatchState, CheckerKnows
<1> QED BY <1>2, <1>3, <1>4, <1>5

\* init() drops the current command, which in DEINIT is none or the sticky one.
LEMMA InitSandboxStep ==
    ASSUME IInv, InitSandbox
    PROVE  IInv'
<1> USE IdFacts DEF lifecycle, semaphores, scheduler, checker, places, functors,
            requests, fields, issued, IInv
<1>1. /\ serviceState = "DEINIT" /\ serviceState' = "INIT"
      /\ schedule_work_flag' = FALSE
      /\ current' = NoCmd /\ acquire' = NoCmd /\ correlation' = NoCmd
      /\ UNCHANGED <<ctl, submitting, semaphores, scheduler, checker,
                     command_submitted_queue, command_stack, issued, requests,
                     fields, lastEvent, deleted>>
  BY DEF InitSandbox
<1>2. current \notin Cmd /\ spc = "off" /\ cpc = "off" /\ ctl = "none"
      /\ command_stack = <<>>
  BY <1>1 DEF ThreadsMatchState
<1>3. TypeOK'
  <2>1. schedule_work_flag' \in BOOLEAN
    BY <1>1, Zenon
  <2>2. ControlType'
    BY <1>1, <2>1 DEF TypeOK, ControlType
  <2>3. PlaceType' /\ FieldType'
    BY <1>1 DEF TypeOK, PlaceType, FieldType
  <2> QED BY <2>2, <2>3 DEF TypeOK
<1>4. PlaceMatchesEvent' /\ NoneStranded' /\ NoDanglingFunctor'
  BY <1>1, <1>2 DEF PlaceMatchesEvent, NoneStranded, NoDanglingFunctor, Paused
<1>5. PausedOnce' /\ RetiresEnded' /\ StepOnLiveCommand'
  BY <1>1, <1>2 DEF PausedOnce, RetiresEnded, StepOnLiveCommand, Paused, TypeOK, PlaceType
<1>6. ThreadsMatchState' /\ CheckerKnows'
  BY <1>1, <1>2 DEF ThreadsMatchState, CheckerKnows
<1> QED BY <1>3, <1>4, <1>5, <1>6

\* deinit() kills and releases every command that has not left.
LEMMA DeinitStep ==
    ASSUME IInv, Deinit
    PROVE  IInv'
<1> DEFINE killed == ({current} \cap Cmd) \cup Paused \cup command_submitted_queue
<1> USE IdFacts DEF lifecycle, semaphores, scheduler, checker, places, functors,
            requests, IInv
<1>1. /\ serviceState # "START" /\ serviceState' = "DEINIT"
      /\ lastEvent' = [c \in Ids |-> IF c \in killed THEN "KILLED"
                                                     ELSE lastEvent[c]]
      /\ Destroy(killed)
      /\ current' = IF current = StickyCmd THEN StickyCmd ELSE NoCmd
      /\ command_stack' = <<>> /\ command_submitted_queue' = {}
      /\ acquire' = NoCmd /\ correlation' = NoCmd
      /\ UNCHANGED <<ctl, schedule_work_flag, submitting, semaphores, scheduler,
                     checker, command_sequence_id, default_sticky_command,
                     requests>>
  BY DEF Deinit
<1>2. killed \subseteq Cmd
  BY DEF TypeOK, PlaceType, Paused
<1>3. spc = "off" /\ cpc = "off" /\ ctl = "none"
  BY <1>1 DEF ThreadsMatchState
<1>4. /\ runningProperty' \in [Ids -> RunningProperty]
      /\ already_setupped' \subseteq Ids
      /\ profile' \in [Ids -> Profiles \cup {NoProfile}]
      /\ deleted' = deleted \cup killed /\ deleted' \subseteq Cmd
  BY <1>1, <1>2, DestroyFields DEF TypeOK, PlaceType
<1>5. \A c \in Cmd : c \in killed <=> lastEvent[c] \in {"QUEUED", "RUNNING", "PAUSED"}
  BY DEF PlaceMatchesEvent
<1> HIDE DEF killed
<1>6. TypeOK'
  <2>1. ControlType'
    BY <1>1 DEF TypeOK, ControlType
  <2>2. PlaceType'
    BY <1>1, <1>4 DEF TypeOK, PlaceType
  <2>3. FieldType'
    BY <1>1, <1>4 DEF TypeOK, FieldType, Event, Terminal
  <2> QED BY <2>1, <2>2, <2>3 DEF TypeOK
<1>7. PlaceMatchesEvent'
  <2> SUFFICES ASSUME NEW c \in Cmd
               PROVE  /\ lastEvent'[c] = "none" <=> c > command_sequence_id'
                      /\ lastEvent'[c] \notin {"QUEUED", "RUNNING", "PAUSED"}
    BY <1>1 DEF PlaceMatchesEvent, Paused
  <2> QED BY <1>1, <1>5 DEF PlaceMatchesEvent
<1>8. NoneStranded' /\ NoDanglingFunctor' /\ PausedOnce' /\ RetiresEnded'
  BY <1>1, <1>3 DEF NoneStranded, NoDanglingFunctor, PausedOnce, RetiresEnded
<1>9. StepOnLiveCommand'
  BY <1>1, <1>3, <1>4 DEF StepOnLiveCommand, Paused
<1>10. ThreadsMatchState'
  BY <1>1, <1>3 DEF ThreadsMatchState
<1>11. CheckerKnows'
  BY <1>1, <1>3, <1>4 DEF CheckerKnows, Terminal, TypeOK, PlaceType
<1> QED BY <1>6, <1>7, <1>8, <1>9, <1>10, <1>11

\* enqueueCommand() puts a command with a new id in the queue.
LEMMA EnqueueCommandStep ==
    ASSUME IInv, EnqueueCommand
    PROVE  IInv'
<1> USE IdFacts DEF IInv
<1>1. CASE submitting
  BY <1>1, SignalSteps
<1>2. CASE ~submitting
  <2> DEFINE c == command_sequence_id + 1
  <2> USE DEF lifecycle, semaphores, scheduler, checker, places, functors,
              requests, fields
  <2>1. /\ serviceState # "DEINIT" /\ command_sequence_id < MaxCmd
        /\ command_sequence_id' = c
        /\ \E p \in Profiles : profile' = [profile EXCEPT ![c] = p]
        /\ lastEvent' = [lastEvent EXCEPT ![c] = "QUEUED"]
        /\ command_submitted_queue' = command_submitted_queue \cup {c}
        /\ submitting' = TRUE
        /\ UNCHANGED whait_for_next_check
    BY <1>2, Zenon DEF EnqueueCommand
  <2>2. UNCHANGED <<lifecycle, pause_condition, scheduler, checker, current,
                    command_stack, default_sticky_command, functors, requests,
                    fields, deleted>>
    BY Zenon DEF EnqueueCommand
  <2>3. c \in Cmd /\ \A d \in Cmd : d > command_sequence_id <=> d = c \/ d > c
    BY <2>1, MaxCmdAssumption DEF TypeOK, PlaceType, Cmd
  <2>4. lastEvent[c] = "none" /\ \A d \in Cmd : d > c => d # c
    BY <2>1, <2>3 DEF PlaceMatchesEvent, TypeOK, PlaceType
  <2>5. c # current /\ c \notin Paused /\ c # doomed /\ c \notin deleted
    BY <2>3, <2>4 DEF PlaceMatchesEvent, CheckerKnows, Terminal
  <2>6. ~(c > c)
    BY <2>3
  <2> HIDE DEF c
  <2>7. TypeOK'
    <3>1. submitting' \in BOOLEAN
      BY <2>1
    <3>2. ControlType'
      BY <2>1, <2>2, <3>1 DEF TypeOK, ControlType
    <3>3. command_sequence_id' \in 0 .. MaxCmd
      BY <2>1, MaxCmdAssumption DEF TypeOK, PlaceType, c
    <3>4. PlaceType'
      BY <2>1, <2>2, <2>3, <3>3, ZenonT(40) DEF TypeOK, PlaceType
    <3>5. FieldType'
      BY <2>1, <2>2, <2>3 DEF TypeOK, FieldType, Event
    <3> QED BY <3>2, <3>4, <3>5 DEF TypeOK
  <2>8. PlaceMatchesEvent'
    <3> SUFFICES ASSUME NEW d \in Cmd
                 PROVE  /\ lastEvent'[d] = "none" <=> d > command_sequence_id'
                        /\ lastEvent'[d] = "QUEUED" <=> d \in command_submitted_queue'
                        /\ lastEvent'[d] = "RUNNING" <=> d = current'
                        /\ lastEvent'[d] = "PAUSED" <=> d \in Paused'
      BY DEF PlaceMatchesEvent
    <3>1. CASE d = c
      BY <3>1, <2>1, <2>2, <2>3, <2>5, <2>6 DEF Paused, TypeOK, FieldType
    <3>2. CASE d # c
      BY <3>2, <2>1, <2>2, <2>3 DEF Paused, TypeOK, FieldType, PlaceMatchesEvent
    <3> QED BY <3>1, <3>2
  <2>9. NoneStranded' /\ NoDanglingFunctor' /\ PausedOnce' /\ RetiresEnded'
    BY <2>2 DEF NoneStranded, NoDanglingFunctor, PausedOnce, RetiresEnded, Paused
  <2>10. StepOnLiveCommand'
    BY <2>1, <2>2, <2>5 DEF StepOnLiveCommand, Paused
  <2>11. ThreadsMatchState'
    BY <2>1, <2>2 DEF ThreadsMatchState
  <2>12. CheckerKnows'
    BY <2>1, <2>2, <2>3, <2>5, SMTT(40) DEF CheckerKnows, TypeOK, FieldType, PlaceType
  <2> QED BY <2>7, <2>8, <2>9, <2>10, <2>11, <2>12
<1> QED BY <1>1, <1>2

-----------------------------------------------------------------------------
(* The steps of the scheduler that run a command.                          *)

\* runCommand() takes the current command and may end it for a kill request.
LEMMA SchedulerTopStep ==
    ASSUME IInv, SchedulerTop
    PROVE  IInv'
<1> USE IdFacts DEF lifecycle, semaphores, scheduler, checker, places, functors,
            issued, IInv
<1>1. /\ spc = "top"
      /\ UNCHANGED <<lifecycle, submitting, semaphores, checker, places, issued,
                     functors, clearRequest, already_setupped, lastEvent,
                     deleted>>
  BY DEF SchedulerTop
<1>2. CASE current = NoCmd
  <2>1. /\ canWork' = (canWork /\ schedule_work_flag)
        /\ spc' \in {"notify", "done"}
        /\ UNCHANGED <<killRequests, runningProperty, impl>>
    BY <1>2 DEF SchedulerTop
  <2>2. canWork' \in BOOLEAN
    BY <2>1, Zenon
  <2>3. ControlType'
    BY <1>1, <2>1, <2>2 DEF TypeOK, ControlType
  <2>4. ControlMove
    BY <1>1, <2>1, <2>3
       DEF ControlMove, data, fields, TypeOK, PlaceType, ThreadsMatchState
  <2> QED BY <2>4, ControlStep
<1>3. CASE current # NoCmd
  <2>1. /\ killRequests' = {}
        /\ impl' = current
        /\ spc' = "step"
        /\ UNCHANGED canWork
    BY <1>3 DEF SchedulerTop
  <2>2. \/ UNCHANGED runningProperty
        \/ runningProperty' = [runningProperty EXCEPT ![current] = RP_END]
    BY <1>3 DEF SchedulerTop
  <2>3. current \in Ids
    BY <1>3 DEF TypeOK, PlaceType
  <2>4. RP_END \in RunningProperty /\ RP_END >= RP_END
    BY DEF RunningProperty, RP_EXSC, RP_END, RP_FATAL_FAULT
  <2>5. TypeOK'
    <3>1. ControlType'
      BY <1>1, <2>1, SMTT(40) DEF TypeOK, ControlType
    <3>2. PlaceType' /\ FieldType'
      BY <1>1, <2>1, <2>2, <2>4, SMTT(40) DEF TypeOK, PlaceType, FieldType
    <3> QED BY <3>1, <3>2 DEF TypeOK
  <2>6. PlaceMatchesEvent' /\ NoneStranded' /\ NoDanglingFunctor' /\ PausedOnce'
    BY <1>1 DEF PlaceMatchesEvent, NoneStranded, NoDanglingFunctor, PausedOnce, Paused
  <2>7. RetiresEnded'
    BY <1>1, <2>2, <2>3, <2>4, SMTT(40) DEF RetiresEnded, TypeOK, FieldType
  <2>8. StepOnLiveCommand'
    BY <1>1, <1>3, <2>1, SMTT(40) DEF StepOnLiveCommand, Paused
  <2>9. ThreadsMatchState' /\ CheckerKnows'
    BY <1>1, <2>1 DEF ThreadsMatchState, CheckerKnows
  <2> QED BY <2>5, <2>6, <2>7, <2>8, <2>9, SMTT(40)
<1> QED BY <1>2, <1>3

\* A handler leaves a running property and does not touch a command that has
\* ended.
LEMMA CalledProperties ==
    ASSUME NEW functor, NEW p \in [Ids -> RunningProperty],
           NEW q \in Called(functor, p)
    PROVE  /\ q \in [Ids -> RunningProperty]
           /\ \A c \in Ids : p[c] >= RP_END => q[c] >= RP_END
<1>1. \A c \in Ids : p[c] \in Int
  BY DEF RunningProperty, RP_EXSC, RP_FATAL_FAULT
<1>2. CASE functor # NoCmd /\ p[functor] < RP_END
  <2>1. PICK r \in HandlerOutcome \cup {p[functor]} : q = [p EXCEPT ![functor] = r]
    BY <1>2 DEF Called
  <2>2. functor \in Ids => r \in RunningProperty
    BY OutcomeAssumption
  <2>3. q \in [Ids -> RunningProperty]
    BY <2>1, <2>2, ZenonT(40)
  <2>4. ASSUME NEW c \in Ids, p[c] >= RP_END PROVE q[c] >= RP_END
    BY <1>1, <1>2, <2>1, <2>4 DEF RP_END
  <2> QED BY <2>3, <2>4
<1>3. CASE ~(functor # NoCmd /\ p[functor] < RP_END)
  BY <1>3 DEF Called
<1> QED BY <1>2, <1>3

\* The handlers of the current command run; a command that has ended stays so.
LEMMA SchedulerStepStep ==
    ASSUME IInv, SchedulerStep
    PROVE  IInv'
<1> USE IdFacts DEF lifecycle, semaphores, checker, places, functors,
            issued, requests, IInv
<1>1. /\ spc = "step" /\ spc' = "check"
      /\ UNCHANGED <<lifecycle, submitting, semaphores, canWork, impl, checker,
                     places, issued, functors, requests, already_setupped,
                     lastEvent, deleted>>
  BY DEF SchedulerStep
<1>2. /\ runningProperty' \in [Ids -> RunningProperty]
      /\ \A c \in Ids : runningProperty[c] >= RP_END => runningProperty'[c] >= RP_END
  <2>1. PICK p1 \in Called(acquire, runningProperty) :
          \E p2 \in Called(correlation, p1) : runningProperty' \in CommandPost(impl, p2)
    BY ZenonT(40) DEF SchedulerStep
  <2>2. PICK p2 \in Called(correlation, p1) : runningProperty' \in CommandPost(impl, p2)
    BY <2>1
  <2>3. /\ p1 \in [Ids -> RunningProperty]
        /\ \A c \in Ids : runningProperty[c] >= RP_END => p1[c] >= RP_END
    BY CalledProperties DEF TypeOK, FieldType
  <2>4. /\ p2 \in [Ids -> RunningProperty]
        /\ \A c \in Ids : p1[c] >= RP_END => p2[c] >= RP_END
    BY <2>3, CalledProperties
  <2>5. /\ RP_END \in RunningProperty /\ RP_END >= RP_END
        /\ RP_FAULT \in RunningProperty /\ RP_FAULT >= RP_END
    BY DEF RunningProperty, RP_EXSC, RP_END, RP_FAULT, RP_FATAL_FAULT
  <2>6. \/ runningProperty' = p2
        \/ runningProperty' = [p2 EXCEPT ![impl] = RP_END]
        \/ runningProperty' = [p2 EXCEPT ![impl] = RP_FAULT]
    BY <2>2, SMTT(40) DEF CommandPost
  <2> QED BY <2>3, <2>4, <2>5, <2>6, SMTT(40)
<1>3. TypeOK'
  <2>1. ControlType'
    BY <1>1, SMTT(40) DEF TypeOK, ControlType
  <2>2. PlaceType' /\ FieldType'
    BY <1>1, <1>2 DEF TypeOK, PlaceType, FieldType
  <2> QED BY <2>1, <2>2 DEF TypeOK
<1>4. PlaceMatchesEvent' /\ NoneStranded' /\ NoDanglingFunctor' /\ PausedOnce'
  BY <1>1 DEF PlaceMatchesEvent, NoneStranded, NoDanglingFunctor, PausedOnce, Paused
<1>5. RetiresEnded' /\ StepOnLiveCommand'
  BY <1>1, <1>2 DEF RetiresEnded, StepOnLiveCommand, Paused, TypeOK, PlaceType
<1>6. ThreadsMatchState' /\ CheckerKnows'
  BY <1>1, SMTT(40) DEF ThreadsMatchState, CheckerKnows
<1> QED BY <1>3, <1>4, <1>5, <1>6

-----------------------------------------------------------------------------
(* The steps of the checker that change commands.                          *)

\* consumeWaitCmdOps() empties the queue, and the checker chooses its way.
LEMMA CheckerLoopStep ==
    ASSUME IInv, CheckerLoop
    PROVE  IInv'
<1> USE IdFacts DEF lifecycle, semaphores, scheduler, functors, IInv
<1>1. /\ cpc = "loop"
      /\ UNCHANGED <<lifecycle, submitting, semaphores, scheduler, doomed,
                     current, command_stack, command_sequence_id,
                     default_sticky_command, functors, killRequests>>
  BY DEF CheckerLoop
<1>2. CASE ~schedule_work_flag
  <2>1. /\ cpc' = "done"
        /\ UNCHANGED <<clearRequest, lastEvent, command_submitted_queue,
                       fields, deleted, profile>>
    BY <1>2 DEF CheckerLoop
  <2>2. ControlType'
    BY <1>1, <2>1, SMTT(40) DEF TypeOK, ControlType
  <2>3. ControlMove
    BY <1>1, <2>1, <2>2
       DEF ControlMove, data, fields, places, issued, TypeOK, PlaceType,
           ThreadsMatchState
  <2> QED BY <2>3, ControlStep
<1>3. CASE schedule_work_flag
  <2> DEFINE cleared == IF clearRequest = "pending" THEN command_submitted_queue ELSE {}
  <2>1. /\ clearRequest' = IF clearRequest = "pending" THEN "none" ELSE clearRequest
        /\ lastEvent' = [c \in Ids |-> IF c \in cleared THEN "DEQUEUE"
                                                        ELSE lastEvent[c]]
        /\ Destroy(cleared)
        /\ command_submitted_queue' = command_submitted_queue \ cleared
        /\ cpc' = IF command_submitted_queue' = {} THEN "empty"
                  ELSE IF current # NoCmd THEN "compare" ELSE "install"
    BY <1>3 DEF CheckerLoop
  <2>2. cleared \subseteq command_submitted_queue /\ cleared \subseteq Cmd
    BY SMTT(40) DEF TypeOK, PlaceType
  <2>3. /\ runningProperty' \in [Ids -> RunningProperty]
        /\ already_setupped' \subseteq Ids
        /\ profile' \in [Ids -> Profiles \cup {NoProfile}]
        /\ deleted' = deleted \cup cleared /\ deleted' \subseteq Cmd
    BY <2>1, <2>2, DestroyFields DEF TypeOK, PlaceType
  <2>4. \A c \in cleared : lastEvent[c] = "QUEUED" /\ c # current /\ c \notin Paused
    BY <2>2, SMTT(40) DEF PlaceMatchesEvent
  <2> HIDE DEF cleared
  <2>5. TypeOK'
    <3>1. ControlType'
      BY <1>1, <2>1, SMTT(40) DEF TypeOK, ControlType
    <3>2. PlaceType'
      BY <1>1, <2>1, <2>3, SMTT(40) DEF TypeOK, PlaceType
    <3>3. FieldType'
      BY <2>1, <2>3, SMTT(40) DEF TypeOK, FieldType, Event, Terminal
    <3> QED BY <3>1, <3>2, <3>3 DEF TypeOK
  <2>6. PlaceMatchesEvent'
    <3> SUFFICES ASSUME NEW d \in Cmd
                 PROVE  /\ lastEvent'[d] = "none" <=> d > command_sequence_id'
                        /\ lastEvent'[d] = "QUEUED" <=> d \in command_submitted_queue'
                        /\ lastEvent'[d] = "RUNNING" <=> d = current'
                        /\ lastEvent'[d] = "PAUSED" <=> d \in Paused'
      BY DEF PlaceMatchesEvent
    <3>1. CASE d \in cleared
      BY <3>1, <1>1, <2>1, <2>4, SMTT(40) DEF PlaceMatchesEvent, Paused
    <3>2. CASE d \notin cleared
      BY <3>2, <1>1, <2>1, SMTT(40) DEF PlaceMatchesEvent, Paused
    <3> QED BY <3>1, <3>2, SMTT(40)
  <2>7. NoneStranded' /\ NoDanglingFunctor' /\ PausedOnce'
    BY <1>1, SMTT(40) DEF NoneStranded, NoDanglingFunctor, PausedOnce, Paused
  <2>8. RetiresEnded' /\ StepOnLiveCommand'
    BY <1>1, <2>1, <2>3, <2>4, SMTT(40) DEF RetiresEnded, StepOnLiveCommand, Paused
  <2>9. ThreadsMatchState' /\ CheckerKnows'
    BY <1>1, <2>1, <2>2, <2>3, <2>4, SMTT(40)
       DEF ThreadsMatchState, CheckerKnows, Terminal, TypeOK, PlaceType
  <2> QED BY <2>5, <2>6, <2>7, <2>8, <2>9, SMTT(40)
<1> QED BY <1>2, <1>3

\* The checker releases a command that has left.
LEMMA CheckerDeleteStep ==
    ASSUME IInv, CheckerDelete
    PROVE  IInv'
<1> DEFINE gone == {doomed} \cap Cmd
<1> USE IdFacts DEF lifecycle, semaphores, scheduler, places, functors, requests, IInv
<1>1. /\ cpc \in {"delete", "release"}
      /\ Destroy(gone)
      /\ doomed' = NoCmd
      /\ cpc' \in {"loop", "sticky"}
      /\ UNCHANGED <<lifecycle, submitting, semaphores, scheduler, places,
                     command_sequence_id, default_sticky_command, functors,
                     requests, lastEvent>>
  BY SMTT(40) DEF CheckerDelete
<1>2. /\ runningProperty' \in [Ids -> RunningProperty]
      /\ already_setupped' \subseteq Ids
      /\ profile' \in [Ids -> Profiles \cup {NoProfile}]
      /\ deleted' = deleted \cup gone /\ deleted' \subseteq Cmd
  BY <1>1, DestroyFields DEF TypeOK, PlaceType
<1>3. \A c \in gone : lastEvent[c] \in Terminal
  BY DEF CheckerKnows
<1>4. gone \cap ({current} \cup Paused \cup command_submitted_queue) = {}
  BY <1>3, SMTT(40) DEF PlaceMatchesEvent, Terminal
<1> HIDE DEF gone
<1>5. TypeOK'
  <2>1. ControlType'
    BY <1>1, SMTT(40) DEF TypeOK, ControlType
  <2>2. PlaceType' /\ FieldType'
    BY <1>1, <1>2, SMTT(40) DEF TypeOK, PlaceType, FieldType
  <2> QED BY <2>1, <2>2 DEF TypeOK
<1>6. PlaceMatchesEvent' /\ NoneStranded' /\ NoDanglingFunctor' /\ PausedOnce'
  BY <1>1, SMTT(40) DEF PlaceMatchesEvent, NoneStranded, NoDanglingFunctor, PausedOnce, Paused
<1>7. RetiresEnded' /\ StepOnLiveCommand'
  BY <1>1, <1>2, <1>4, SMTT(40) DEF RetiresEnded, StepOnLiveCommand, Paused
<1>8. ThreadsMatchState' /\ CheckerKnows'
  BY <1>1, <1>2, <1>3, SMTT(40) DEF ThreadsMatchState, CheckerKnows
<1> QED BY <1>5, <1>6, <1>7, <1>8

\* Without a current command, nothing is paused: the best queued command is
\* made current.
LEMMA CheckerInstallStep ==
    ASSUME IInv, CheckerInstall
    PROVE  IInv'
<1> USE IdFacts DEF lifecycle, semaphores, scheduler, issued, requests, IInv
<1>1. /\ cpc = "install" /\ cpc' = "unlock_loop"
      /\ UNCHANGED <<lifecycle, submitting, semaphores, scheduler, doomed,
                     command_stack, issued, requests, deleted>>
  BY ZenonT(40) DEF CheckerInstall
<1>2. PICK next \in command_submitted_queue :
        /\ InstallHandler(next, next \notin already_setupped, lastEvent, acquire,
                          correlation)
        /\ command_submitted_queue' = command_submitted_queue \ {next}
  BY DEF CheckerInstall
<1>3. current = NoCmd /\ command_stack = <<>> /\ serviceState = "START" /\ spc # "step"
  BY <1>1 DEF CheckerKnows, NoneStranded, ThreadsMatchState, StepOnLiveCommand
<1>4. next \in Cmd /\ next \in Ids /\ lastEvent[next] = "QUEUED"
  BY SMTT(40) DEF TypeOK, PlaceType, PlaceMatchesEvent
<1>5. next \notin deleted /\ next # doomed
  BY <1>4 DEF CheckerKnows, Terminal
<1>6. /\ runningProperty' \in [Ids -> RunningProperty]
      /\ already_setupped' \subseteq Ids
      /\ lastEvent' \in [Ids -> Event]
      /\ lastEvent' = [lastEvent EXCEPT ![next] = "RUNNING"]
      /\ current' = next
      /\ acquire' \in {acquire, next} /\ correlation' \in {correlation, next}
  <2>1. FieldType /\ lastEvent \in [Ids -> Event]
    BY DEF TypeOK, FieldType
  <2> QED BY <1>2, <1>4, <2>1, InstallFields, Zenon
<1>7. command_submitted_queue' = command_submitted_queue \ {next}
  BY <1>2
<1>8. /\ lastEvent'[next] = "RUNNING"
      /\ \A d \in Cmd : d # next => lastEvent'[d] = lastEvent[d]
  BY <1>4, <1>6 DEF TypeOK, FieldType
<1>9. /\ current' = next
      /\ acquire' \in {acquire, next} /\ correlation' \in {correlation, next}
  BY <1>6
<1>10. Paused = {} /\ Paused' = {} /\ command_stack' = <<>>
  BY <1>1, <1>3 DEF Paused
<1>11. TypeOK'
  <2>1. ControlType'
    BY <1>1, SMTT(40) DEF TypeOK, ControlType
  <2>2. PlaceType'
    BY <1>1, <1>4, <1>7, <1>9, SMTT(40) DEF TypeOK, PlaceType
  <2>3. FieldType'
    BY <1>1, <1>6, SMTT(40) DEF TypeOK, FieldType
  <2> QED BY <2>1, <2>2, <2>3, SMTT(40) DEF TypeOK
<1>12. PlaceMatchesEvent'
  <2> SUFFICES ASSUME NEW d \in Cmd
               PROVE  /\ lastEvent'[d] = "none" <=> d > command_sequence_id'
                      /\ lastEvent'[d] = "QUEUED" <=> d \in command_submitted_queue'
                      /\ lastEvent'[d] = "RUNNING" <=> d = current'
                      /\ lastEvent'[d] = "PAUSED" <=> d \in Paused'
    BY SMTT(40) DEF PlaceMatchesEvent
  <2>1. UNCHANGED command_sequence_id
    BY <1>1, ZenonT(40)
  <2>2. CASE d = next
    BY <2>1, <2>2, <1>4, <1>7, <1>8, <1>9, <1>10, SMTT(40) DEF PlaceMatchesEvent
  <2>3. CASE d # next
    BY <2>1, <2>3, <1>3, <1>7, <1>8, <1>9, <1>10, SMTT(40) DEF PlaceMatchesEvent
  <2> QED BY <2>2, <2>3
<1>13. NoneStranded' /\ PausedOnce'
  BY <1>10 DEF NoneStranded, PausedOnce
<1>14. NoDanglingFunctor'
  BY <1>3, <1>9, <1>10, SMTT(40) DEF NoDanglingFunctor
<1>15. RetiresEnded'
  BY <1>1 DEF RetiresEnded
<1>16. StepOnLiveCommand'
  BY <1>1, <1>3, <1>5, <1>7, <1>9, <1>10, SMTT(40) DEF StepOnLiveCommand
<1>17. ThreadsMatchState'
  BY <1>1, <1>3, SMTT(40) DEF ThreadsMatchState
<1>18. CheckerKnows'
  BY <1>1, <1>4, <1>5, <1>8, SMTT(40) DEF CheckerKnows, TypeOK, PlaceType
<1> QED BY <1>11, <1>12, <1>13, <1>14, <1>15, <1>16, <1>17, <1>18, SMTT(40)

\* The sticky command is installed only where there is no current command.
LEMMA CheckerStickyStep ==
    ASSUME IInv, CheckerSticky
    PROVE  IInv'
<1> USE IdFacts DEF lifecycle, semaphores, scheduler, issued, requests, IInv
<1>1. /\ cpc = "sticky" /\ cpc' \in {"unlock_wait", "wait"}
      /\ UNCHANGED <<lifecycle, submitting, semaphores, scheduler, doomed,
                     command_submitted_queue, command_stack, issued, requests,
                     deleted>>
  BY Zenon DEF CheckerSticky
<1>2. CASE ~(current = NoCmd /\ default_sticky_command # NoCmd)
  <2>1. UNCHANGED <<current, functors, fields, lastEvent>>
    BY <1>2, Zenon DEF CheckerSticky
  <2>2. ControlType'
    BY <1>1, SMTT(40) DEF TypeOK, ControlType
  <2>3. ControlMove
    BY <1>1, <2>1, <2>2, SMTT(40)
       DEF ControlMove, data, fields, functors, places, TypeOK, PlaceType,
           ThreadsMatchState
  <2> QED BY <2>3, ControlStep
<1>3. CASE current = NoCmd /\ default_sticky_command # NoCmd
  <2>1. InstallHandler(StickyCmd, TRUE, lastEvent, acquire, correlation)
    BY <1>3, Zenon DEF CheckerSticky
  <2>2. /\ runningProperty' \in [Ids -> RunningProperty]
        /\ already_setupped' \subseteq Ids
        /\ lastEvent' \in [Ids -> Event]
        /\ lastEvent' = [lastEvent EXCEPT ![StickyCmd] = "RUNNING"]
        /\ current' = StickyCmd
        /\ acquire' \in {acquire, StickyCmd}
        /\ correlation' \in {correlation, StickyCmd}
    <3>1. FieldType /\ lastEvent \in [Ids -> Event]
      BY DEF TypeOK, FieldType
    <3> QED BY <2>1, <3>1, InstallFields, Zenon
  <2>3. command_stack = <<>> /\ spc # "step"
    BY <1>3, SMTT(40) DEF NoneStranded, StepOnLiveCommand
  <2>4. \A d \in Cmd : lastEvent'[d] = lastEvent[d]
    BY <2>2, SMTT(40) DEF TypeOK, FieldType
  <2>5. TypeOK'
    <3>1. ControlType'
      BY <1>1 DEF TypeOK, ControlType
    <3>2. PlaceType' /\ FieldType'
      BY <1>1, <2>2, SMTT(40) DEF TypeOK, PlaceType, FieldType
    <3> QED BY <3>1, <3>2 DEF TypeOK
  <2>6. PlaceMatchesEvent'
    BY <1>1, <1>3, <2>2, <2>4, SMTT(40) DEF PlaceMatchesEvent, Paused
  <2>7. NoneStranded' /\ NoDanglingFunctor' /\ PausedOnce' /\ RetiresEnded'
    <3>1. NoneStranded' /\ PausedOnce' /\ RetiresEnded'
      BY <1>1, <1>3, <2>2, <2>3, SMTT(40) DEF NoneStranded, PausedOnce, RetiresEnded, Paused
    <3>2. NoDanglingFunctor'
      BY <1>1, <1>3, <2>2, <2>3, SMTT(40) DEF NoDanglingFunctor, NoneStranded, Paused
    <3> QED BY <3>1, <3>2, SMTT(40)
  <2>8. StepOnLiveCommand'
    BY <1>1, <2>2, <2>3 DEF StepOnLiveCommand, Paused, TypeOK, PlaceType
  <2>9. ThreadsMatchState' /\ CheckerKnows'
    BY <1>1, <2>2, <2>4 DEF ThreadsMatchState, CheckerKnows, TypeOK, PlaceType
  <2> QED BY <2>5, <2>6, <2>7, <2>8, <2>9
<1> QED BY <1>2, <1>3

=============================================================================
