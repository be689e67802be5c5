------------------------- MODULE SandboxRefinement -------------------------
(***************************************************************************)
(* BatchCommandSandbox implements CommandLifecycle, for any number of      *)
(* commands: the events that the clients receive are those of a sandbox    *)
(* that runs one command at a time and resumes the paused ones in reverse  *)
(* order.  The invariant IInv tells which command an event is about.       *)
(***************************************************************************)
EXTENDS BatchCommandSandboxProofs

\* The refinement mapping: the last event of each submitted command.
St == [c \in Cmd |-> lastEvent[c]]

\* The initial states correspond.
LEMMA InitRefines == Init => Lifecycle!LInit
BY IdFacts DEF Init, Lifecycle!LInit

\* A step that fires no event for a submitted command and leaves the stack is
\* a stuttering step of the life cycle.
LEMMA Stutter ==
    ASSUME \A c \in Cmd : lastEvent'[c] = lastEvent[c], UNCHANGED command_stack
    PROVE  UNCHANGED Lifecycle!lvars
<1>1. St' = St
  BY DEF St
<1> QED BY <1>1 DEF Lifecycle!lvars, St

\* What the invariant says of the sets of the life cycle.
LEMMA Abstracted ==
    ASSUME IInv
    PROVE  /\ Lifecycle!Running = {current} \cap Cmd
           /\ Lifecycle!Queued = command_submitted_queue
BY DEF IInv, PlaceMatchesEvent, TypeOK, PlaceType, Lifecycle!Running, Lifecycle!Queued

\* enqueueCommand(): a command is submitted.
LEMMA EnqueueRefines ==
    ASSUME IInv, EnqueueCommand
    PROVE  [Lifecycle!LNext]_(Lifecycle!lvars)
<1>1. UNCHANGED command_stack
  BY Zenon DEF EnqueueCommand
<1>2. CASE UNCHANGED lastEvent
  BY <1>1, <1>2, Stutter
<1>3. CASE ~UNCHANGED lastEvent
  <2> DEFINE c == command_sequence_id + 1
  <2>1. command_sequence_id < MaxCmd /\ lastEvent' = [lastEvent EXCEPT ![c] = "QUEUED"]
    BY <1>3, Zenon DEF EnqueueCommand
  <2>2. c \in Cmd /\ \A d \in Cmd : d > command_sequence_id <=> ~(d < c)
    BY <2>1, MaxCmdAssumption DEF IInv, TypeOK, PlaceType, Cmd
  <2>3. ~(c < c)
    BY <2>2, IdFacts
  <2> HIDE DEF c
  <2>4. St[c] = "none" /\ \A d \in Cmd : d < c => St[d] # "none"
    BY <2>2, <2>3 DEF IInv, PlaceMatchesEvent, St
  <2>5. St' = [St EXCEPT ![c] = "QUEUED"]
    BY <2>1, <2>2, IdFacts, Zenon DEF IInv, TypeOK, FieldType, St
  <2>6. Lifecycle!Submit
    BY <1>1, <2>2, <2>4, <2>5, Zenon DEF Lifecycle!Submit, St
  <2> QED BY <2>6 DEF Lifecycle!LNext
<1> QED BY <1>2, <1>3

\* deinit(): whatever has not left is killed.
LEMMA DeinitRefines ==
    ASSUME IInv, Deinit
    PROVE  Lifecycle!LNext
<1> DEFINE killed == ({current} \cap Cmd) \cup Paused \cup command_submitted_queue
<1>1. /\ lastEvent' = [c \in Ids |-> IF c \in killed THEN "KILLED" ELSE lastEvent[c]]
      /\ command_stack' = <<>>
  BY DEF Deinit
<1>2. \A c \in Cmd : c \in killed <=> lastEvent[c] \in {"QUEUED", "RUNNING", "PAUSED"}
  BY DEF IInv, PlaceMatchesEvent
<1> HIDE DEF killed
<1>3. St' = [c \in Cmd |-> IF St[c] \in {"QUEUED", "RUNNING", "PAUSED"}
                           THEN "KILLED" ELSE St[c]]
  BY <1>1, <1>2, IdFacts DEF St
<1> QED BY <1>1, <1>3 DEF Lifecycle!LNext, Lifecycle!KillAll, St

\* consumeWaitCmdOps(): the queue is cleared, or nothing happens.
LEMMA LoopRefines ==
    ASSUME IInv, CheckerLoop
    PROVE  [Lifecycle!LNext]_(Lifecycle!lvars)
<1>1. UNCHANGED command_stack
  BY DEF CheckerLoop
<1>2. CASE schedule_work_flag /\ clearRequest = "pending"
  <2>1. lastEvent' = [c \in Ids |-> IF c \in command_submitted_queue THEN "DEQUEUE"
                                                                   ELSE lastEvent[c]]
    BY <1>2 DEF CheckerLoop
  <2>2. St' = [c \in Cmd |-> IF St[c] = "QUEUED" THEN "DEQUEUE" ELSE St[c]]
    BY <2>1, IdFacts DEF IInv, PlaceMatchesEvent, St
  <2> QED BY <1>1, <2>2 DEF Lifecycle!LNext, Lifecycle!ClearQueue, St
<1>3. CASE ~(schedule_work_flag /\ clearRequest = "pending")
  <2>1. \A c \in Cmd : lastEvent'[c] = lastEvent[c]
    BY <1>3, IdFacts DEF CheckerLoop
  <2> QED BY <1>1, <2>1, Stutter
<1> QED BY <1>2, <1>3

\* A queued command starts where no submitted command runs or is paused.
LEMMA StartRefines ==
    ASSUME IInv, NEW next \in command_submitted_queue, current \notin Cmd,
           lastEvent'[next] = "RUNNING",
           \A d \in Cmd : d # next => lastEvent'[d] = lastEvent[d],
           UNCHANGED command_stack
    PROVE  Lifecycle!LNext
<1>1. Lifecycle!Running = {} /\ next \in Lifecycle!Queued /\ next \in Cmd
  BY Abstracted DEF IInv, TypeOK, PlaceType
<1>2. command_stack = <<>>
  BY DEF IInv, NoneStranded
<1>3. St' = [St EXCEPT ![next] = "RUNNING"]
  BY <1>1, ZenonT(40) DEF St
<1> QED BY <1>1, <1>2, <1>3, Zenon DEF Lifecycle!LNext, Lifecycle!StartQueued, St

\* The decision of the checker pauses or replaces the running command.
LEMMA CompareRefines ==
    ASSUME IInv, CheckerCompare
    PROVE  [Lifecycle!LNext]_(Lifecycle!lvars)
<1> USE IdFacts
<1>1. PICK next \in command_submitted_queue :
         \/ \E v \in {"NO_CHANGE", "TIMED_RETRY"} : CheckerKeep(v)
         \/ CheckerStack(next)
         \/ \E e \in {"KILLED", "COMPLETED", "FAULT"} : CheckerReplace(next, e)
         \/ CheckerAbort
  BY DEF CheckerCompare
<1>2. current \in Ids /\ next \in Cmd /\ next # current /\ lastEvent \in [Ids -> Event]
  BY DEF CheckerCompare, IInv, CheckerKnows, TypeOK, PlaceType, FieldType,
         PlaceMatchesEvent
<1>3. CASE \E v \in {"NO_CHANGE", "TIMED_RETRY"} : CheckerKeep(v) \/ CheckerAbort
  BY <1>3, Stutter DEF CheckerKeep, CheckerAbort, places
<1>4. ASSUME NEW e, lastEvent' = [[lastEvent EXCEPT ![current] = e] EXCEPT ![next] = "RUNNING"],
             current \in Cmd
      PROVE  St' = [St EXCEPT ![current] = e, ![next] = "RUNNING"]
  BY <1>2, <1>4, Zenon DEF St
<1>5. CASE CheckerStack(next)
  <2>1. /\ lastEvent' = [[lastEvent EXCEPT ![current] = "PAUSED"] EXCEPT ![next] = "RUNNING"]
        /\ command_stack' = IF current = StickyCmd THEN command_stack
                            ELSE Append(command_stack, current)
    BY <1>5 DEF CheckerStack, InstallHandler
  <2>2. CASE current = StickyCmd
    BY <1>2, <2>1, <2>2, StartRefines
  <2>3. CASE current \in Cmd
    <3>1. current \in Lifecycle!Running /\ next \in Lifecycle!Queued
      BY <2>3, Abstracted
    <3>2. St' = [St EXCEPT ![current] = "PAUSED", ![next] = "RUNNING"]
      BY <1>4, <2>1, <2>3, Zenon
    <3> QED BY <2>1, <2>3, <3>1, <3>2 DEF Lifecycle!LNext, Lifecycle!Preempt, St
  <2> QED BY <1>2, <2>2, <2>3
<1>6. ASSUME NEW e \in {"KILLED", "COMPLETED", "FAULT"}, CheckerReplace(next, e)
      PROVE  Lifecycle!LNext
  <2>1. /\ lastEvent' = [[lastEvent EXCEPT ![current] = e] EXCEPT ![next] = "RUNNING"]
        /\ UNCHANGED command_stack
    BY <1>6 DEF CheckerReplace, InstallHandler
  <2>2. CASE current = StickyCmd
    BY <1>2, <2>1, <2>2, StartRefines
  <2>3. CASE current \in Cmd
    <3>1. current \in Lifecycle!Running /\ next \in Lifecycle!Queued
      BY <2>3, Abstracted
    <3>2. St' = [St EXCEPT ![current] = e, ![next] = "RUNNING"]
      BY <1>4, <2>1, <2>3, Zenon
    <3>3. e \in Lifecycle!Gone
      BY DEF Lifecycle!Gone, Lifecycle!Left
    <3> QED BY <2>1, <3>1, <3>2, <3>3, Zenon DEF Lifecycle!LNext, Lifecycle!Replace, St
  <2> QED BY <1>2, <2>2, <2>3
<1> QED BY <1>1, <1>3, <1>5, <1>6

\* An idle checker installs a queued command.
LEMMA InstallRefines ==
    ASSUME IInv, CheckerInstall
    PROVE  Lifecycle!LNext
<1>1. PICK next \in command_submitted_queue : lastEvent' = [lastEvent EXCEPT ![next] = "RUNNING"]
  BY Zenon DEF CheckerInstall, InstallHandler
<1>2. current \notin Cmd /\ UNCHANGED command_stack /\ next \in Cmd
  BY IdFacts DEF CheckerInstall, IInv, CheckerKnows, TypeOK, PlaceType
<1> QED BY <1>1, <1>2, IdFacts, StartRefines DEF IInv, TypeOK, FieldType

\* The command that has ended leaves, and the last paused one resumes.
LEMMA RetireRefines ==
    ASSUME IInv, CheckerRetire
    PROVE  [Lifecycle!LNext]_(Lifecycle!lvars)
<1> DEFINE e == EventOf(runningProperty[current])
<1> USE IdFacts
<1>1. current \in Ids /\ lastEvent \in [Ids -> Event]
  BY DEF CheckerRetire, IInv, RetiresEnded, TypeOK, PlaceType, FieldType
<1>2. e \in Lifecycle!Gone
  BY DEF EventOf, Lifecycle!Gone, Lifecycle!Left
<1>3. CASE command_stack # <<>>
  <2>1. /\ lastEvent' = [[lastEvent EXCEPT ![current] = e] EXCEPT ![StackTop] = "RUNNING"]
        /\ command_stack' = Popped
    BY <1>3 DEF CheckerRetire, InstallHandler
  <2> HIDE DEF e
  <2>2. current \in Cmd /\ current \in Lifecycle!Running
    BY <1>3, Abstracted DEF IInv, NoneStranded
  <2>3. StackTop \in Cmd
    BY <1>3, Pop DEF StackTop, IInv, TypeOK, PlaceType
  <2>4. St' = [St EXCEPT ![current] = e, ![StackTop] = "RUNNING"]
    BY <1>1, <2>1, <2>2, <2>3, Zenon DEF St
  <2> QED BY <1>2, <1>3, <2>1, <2>2, <2>4, Zenon
          DEF Lifecycle!LNext, Lifecycle!Resume, St, StackTop, Popped
<1>4. CASE command_stack = <<>>
  <2>1. lastEvent' = [lastEvent EXCEPT ![current] = e] /\ UNCHANGED command_stack
    BY <1>4 DEF CheckerRetire
  <2> HIDE DEF e
  <2>2. CASE current = StickyCmd
    BY <1>1, <2>1, <2>2, Stutter
  <2>3. CASE current \in Cmd
    <3>1. current \in Lifecycle!Running
      BY <2>3, Abstracted
    <3>2. St' = [St EXCEPT ![current] = e]
      BY <1>1, <2>1, <2>3, ZenonT(40) DEF St
    <3> QED BY <1>2, <1>4, <2>1, <3>1, <3>2, Zenon DEF Lifecycle!LNext, Lifecycle!Leave, St
  <2> QED BY <1>1, <2>2, <2>3
<1> QED BY <1>3, <1>4

\* Every step of the sandbox is a step of the life cycle or fires no event.
LEMMA NextRefines == IInv /\ [Next]_vars => [Lifecycle!LNext]_(Lifecycle!lvars)
<1> SUFFICES ASSUME IInv, [Next]_vars PROVE [Lifecycle!LNext]_(Lifecycle!lvars)
    OBVIOUS
<1>1. CASE EnqueueCommand
  BY <1>1, EnqueueRefines
<1>2. CASE Deinit
  BY <1>2, DeinitRefines, SMTT(40)
<1>3. CASE SetDefaultStickyCommand \/ InitSandbox \/ Start \/ Stop \/ KillCurrentCommand
            \/ ClearCommandQueue \/ SetCurrentCommandFeatures
  BY <1>3, Stutter, SMTT(40) DEF SetDefaultStickyCommand, InitSandbox, Start, Stop,
     KillCurrentCommand, ClearCommandQueue, SetCurrentCommandFeatures, places
<1>4. CASE RunCommand
  BY <1>4, Stutter, SMTT(40) DEF RunCommand, SchedulerStart, SchedulerLock, SchedulerTop,
     SchedulerStep, SchedulerCheck, SchedulerDelay, SchedulerNotify, SchedulerWait,
     places
<1>5. CASE CheckerLoop
  BY <1>5, LoopRefines
<1>6. CASE CheckerCompare
  BY <1>6, CompareRefines
<1>7. CASE CheckerInstall
  BY <1>7, InstallRefines
<1>8. CASE CheckerRetire
  BY <1>8, RetireRefines
<1>9. CASE CheckerSticky
  <2>1. \A c \in Cmd : lastEvent'[c] = lastEvent[c]
    BY <1>9, IdFacts, SMTT(40) DEF CheckerSticky, InstallHandler, IInv, TypeOK, FieldType
  <2> QED BY <1>9, <2>1, Stutter, SMTT(40) DEF CheckerSticky
<1>10. CASE CheckerWait \/ CheckerDelete \/ CheckerEmpty \/ CheckerUnlock \/ Spurious
  BY <1>10, Stutter DEF CheckerWait, CheckerDelete, CheckerEmpty, CheckerUnlock,
     Spurious, places
<1>11. CASE UNCHANGED vars
  BY <1>11, Stutter DEF vars, places
<1> QED BY <1>1, <1>2, <1>3, <1>4, <1>5, <1>6, <1>7, <1>8, <1>9, <1>10, <1>11
        DEF Next, Executor, CheckNextCommand, Terminated

\* The events fired by runCommand(), checkNextCommand() and the operations of the
\* executor are those of CommandLifecycle.
THEOREM Refinement == Spec => ImplementsLifecycle
BY Invariance, InitRefines, NextRefines, PTL
   DEF Spec, ImplementsLifecycle, Lifecycle!LSpec

\* A step of the life cycle fires, for each command, an event that may follow its last
\* one: the command that resumes is on the stack, so its last event is EVT_PAUSED.
LEMMA StepFollows ==
    ASSUME IInv, [Lifecycle!LNext]_(Lifecycle!lvars), NEW c \in Cmd,
           St'[c] # St[c]
    PROVE  St'[c] \in Lifecycle!Follows(St[c])
<1> USE DEF St
<1>1. CASE Lifecycle!Submit \/ Lifecycle!StartQueued \/ Lifecycle!Preempt \/ Lifecycle!Replace
              \/ Lifecycle!Leave
  BY <1>1, ZenonT(40) DEF Lifecycle!Submit, Lifecycle!StartQueued, Lifecycle!Preempt, Lifecycle!Replace,
     Lifecycle!Leave, Lifecycle!Running, Lifecycle!Queued, Lifecycle!Gone, Lifecycle!Follows,
     Lifecycle!Left, Lifecycle!Live
<1>2. CASE Lifecycle!Resume
  <2>1. command_stack # <<>> /\ St[command_stack[Len(command_stack)]] = "PAUSED"
    BY <1>2, SMTT(30) DEF Lifecycle!Resume, IInv, PlaceMatchesEvent, TypeOK, PlaceType, Paused
  <2> QED BY <1>2, <2>1 DEF Lifecycle!Resume, Lifecycle!Running, Lifecycle!Gone, Lifecycle!Follows,
     Lifecycle!Left, Lifecycle!Live
<1>3. CASE Lifecycle!ClearQueue \/ Lifecycle!KillAll
  BY <1>3 DEF Lifecycle!ClearQueue, Lifecycle!KillAll, Lifecycle!Follows, Lifecycle!Left, Lifecycle!Live
<1>4. CASE UNCHANGED Lifecycle!lvars
  BY <1>4 DEF Lifecycle!lvars
<1> QED BY <1>1, <1>2, <1>3, <1>4, SMTT(40) DEF Lifecycle!LNext

\* The events that a client sees of one command come in the order of Follows, whatever
\* runCommand(), checkNextCommand() and the executor do to the others.
THEOREM EventOrder == Spec => EventsFollow
<1>1. IInv /\ [Next]_vars
        => [\A c \in Cmd : St'[c] # St[c] => St'[c] \in Lifecycle!Follows(St[c])]_(Lifecycle!lvars)
  BY NextRefines, StepFollows
<1> QED BY Invariance, <1>1, PTL DEF Spec, EventsFollow, Lifecycle!EventsInOrder, St
=============================================================================
