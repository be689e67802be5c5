--------------------- MODULE BatchCommandSandboxProofs ----------------------
(***************************************************************************)
(* The safety properties of BatchCommandSandbox, for any number of         *)
(* commands, any command classes and any outcome of their handlers: the    *)
(* steps of the checker that stack, replace, compare or retire the current *)
(* command preserve the invariant, hence every step does.                  *)
(***************************************************************************)
EXTENDS SandboxSteps

-----------------------------------------------------------------------------
(* The steps of the checker that replace the current command.              *)

\* A push on command_stack adds a command to the paused ones.
LEMMA StackPush ==
    ASSUME Len(command_stack) \in Nat,
           Len(command_stack') = Len(command_stack) + 1,
           \A i \in 1 .. Len(command_stack) : command_stack'[i] = command_stack[i],
           command_stack'[Len(command_stack) + 1] \notin Paused
    PROVE  /\ Paused' = Paused \cup {command_stack'[Len(command_stack) + 1]}
           /\ PausedOnce => PausedOnce'
<1>1. Paused' = Paused \cup {command_stack'[Len(command_stack) + 1]}
  BY DEF Paused
<1>2. PausedOnce => PausedOnce'
  BY DEF PausedOnce, Paused
<1> QED BY <1>1, <1>2

\* A pop of command_stack takes the top one from them, which is there once.
LEMMA StackPop ==
    ASSUME Len(command_stack) \in Nat, Len(command_stack) >= 1, PausedOnce,
           Len(command_stack') = Len(command_stack) - 1,
           \A i \in 1 .. Len(command_stack) - 1 : command_stack'[i] = command_stack[i]
    PROVE  /\ StackTop \in Paused
           /\ Paused' = Paused \ {StackTop}
           /\ PausedOnce'
<1>1. StackTop \in Paused
  BY DEF Paused, StackTop
<1>2. Paused' = Paused \ {StackTop}
  BY DEF Paused, PausedOnce, StackTop
<1>3. PausedOnce'
  BY DEF PausedOnce
<1> QED BY <1>1, <1>2, <1>3

\* The current command is paused and the queued one takes its place.
LEMMA CheckerStackStep ==
    ASSUME IInv, CheckerCompare, NEW next \in command_submitted_queue,
           CheckerStack(next)
    PROVE  IInv'
<1> DEFINE ev == [lastEvent EXCEPT ![current] = "PAUSED"]
<1> USE IdFacts DEF lifecycle, scheduler, issued, requests, IInv
<1>1. /\ cpc = "compare" /\ CurrentMutexFree
      /\ UNCHANGED <<lifecycle, submitting, whait_for_next_check, scheduler,
                     issued, requests, deleted>>
  BY DEF CheckerCompare
<1>2. InstallHandler(next, next \notin already_setupped, ev, acquire, correlation)
  BY DEF CheckerStack
<1>3. /\ command_submitted_queue' = command_submitted_queue \ {next}
      /\ command_stack' = IF current = StickyCmd THEN command_stack
                          ELSE Append(command_stack, current)
      /\ pause_condition' = Unlock(pause_condition)
      /\ cpc' = "loop"
      /\ UNCHANGED doomed
  BY DEF CheckerStack
<1>4. current \in Ids /\ serviceState = "START" /\ spc # "step"
  BY <1>1 DEF CheckerKnows, ThreadsMatchState, CurrentMutexFree, TypeOK, PlaceType
<1>5. next \in Cmd /\ next \in Ids /\ lastEvent[next] = "QUEUED" /\ next # current
  BY DEF TypeOK, PlaceType, PlaceMatchesEvent
<1>6. next \notin deleted /\ next # doomed /\ next \notin Paused
  BY <1>5 DEF CheckerKnows, Terminal, PlaceMatchesEvent
<1>7. ev \in [Ids -> Event]
  BY <1>4 DEF TypeOK, FieldType, Event
<1>8. /\ runningProperty' \in [Ids -> RunningProperty]
      /\ already_setupped' \subseteq Ids
      /\ lastEvent' \in [Ids -> Event]
      /\ lastEvent' = [ev EXCEPT ![next] = "RUNNING"]
      /\ current' = next
      /\ acquire' \in {acquire, next} /\ correlation' \in {correlation, next}
  <2>1. FieldType
    BY DEF TypeOK
  <2> HIDE DEF ev
  <2> QED BY <1>2, <1>5, <1>7, <2>1, InstallFields, Zenon
<1>9. /\ lastEvent'[next] = "RUNNING"
      /\ lastEvent'[current] = "PAUSED"
      /\ \A d \in Ids : d # next /\ d # current => lastEvent'[d] = lastEvent[d]
  BY <1>4, <1>5, <1>8 DEF TypeOK, FieldType
<1>10. /\ current' = next
       /\ acquire' \in {acquire, next} /\ correlation' \in {correlation, next}
  BY <1>8
<1>11. /\ command_stack' \in Seq(Cmd)
       /\ Paused' = Paused \cup ({current} \cap Cmd)
       /\ PausedOnce'
  <2>1. CASE current = StickyCmd
    <3>1. command_stack' = command_stack /\ {current} \cap Cmd = {}
      BY <2>1, <1>3
    <3>2. Paused' = Paused /\ (PausedOnce => PausedOnce')
      BY <3>1 DEF Paused, PausedOnce
    <3> QED BY <3>1, <3>2 DEF TypeOK, PlaceType
  <2>2. CASE current # StickyCmd
    <3>1. current \in Cmd /\ command_stack' = Append(command_stack, current)
          /\ command_stack \in Seq(Cmd)
      BY <2>2, <1>3, <1>4 DEF TypeOK, PlaceType
    <3>2. current \notin Paused
      BY <3>1 DEF PlaceMatchesEvent
    <3>3. /\ command_stack' \in Seq(Cmd)
          /\ Len(command_stack') = Len(command_stack) + 1
          /\ \A i \in 1 .. Len(command_stack) : command_stack'[i] = command_stack[i]
          /\ command_stack'[Len(command_stack) + 1] = current
          /\ Len(command_stack) \in Nat
      BY <3>1, Push
    <3>4. Paused' = Paused \cup {current} /\ (PausedOnce => PausedOnce')
      BY <3>2, <3>3, StackPush
    <3> QED BY <3>1, <3>3, <3>4
  <2> QED BY <2>1, <2>2
<1>12. TypeOK'
  <2>1. ControlType'
    BY <1>1, <1>3, SemaphoreOperations DEF TypeOK, ControlType
  <2>2. PlaceType'
    BY <1>1, <1>3, <1>5, <1>10, <1>11, SMTT(40) DEF TypeOK, PlaceType
  <2>3. FieldType'
    BY <1>1, <1>8 DEF TypeOK, FieldType
  <2> QED BY <2>1, <2>2, <2>3 DEF TypeOK
<1>13. PlaceMatchesEvent'
  <2> SUFFICES ASSUME NEW d \in Cmd
               PROVE  /\ lastEvent'[d] = "none" <=> d > command_sequence_id'
                      /\ lastEvent'[d] = "QUEUED" <=> d \in command_submitted_queue'
                      /\ lastEvent'[d] = "RUNNING" <=> d = current'
                      /\ lastEvent'[d] = "PAUSED" <=> d \in Paused'
    BY DEF PlaceMatchesEvent
  <2>1. /\ UNCHANGED command_sequence_id
        /\ command_submitted_queue' = command_submitted_queue \ {next}
        /\ Paused' = Paused \cup ({current} \cap Cmd)
    BY <1>1, <1>3, <1>11
  <2>2. CASE d = next
    BY <2>1, <2>2, <1>5, <1>6, <1>9, <1>10 DEF PlaceMatchesEvent
  <2>3. CASE d = current
    BY <2>1, <2>3, <1>5, <1>9, <1>10 DEF PlaceMatchesEvent
  <2>4. CASE d # next /\ d # current
    BY <2>1, <2>4, <1>9, <1>10 DEF PlaceMatchesEvent
  <2> QED BY <2>2, <2>3, <2>4
<1>14. NoneStranded' /\ RetiresEnded'
  BY <1>3, <1>5, <1>10 DEF NoneStranded, RetiresEnded
<1>15. NoDanglingFunctor'
  BY <1>4, <1>10, <1>11 DEF NoDanglingFunctor
<1>16. StepOnLiveCommand'
  BY <1>1, <1>3, <1>4, <1>6, <1>10, <1>11 DEF StepOnLiveCommand
<1>17. ThreadsMatchState' /\ CheckerKnows'
  <2>1. ThreadsMatchState'
    BY <1>1, <1>4 DEF ThreadsMatchState
  <2>2. \A c \in Cmd : lastEvent[c] \in Terminal => c # current /\ c # next
    BY <1>5 DEF PlaceMatchesEvent, Terminal
  <2>3. CheckerKnows'
    BY <1>1, <1>3, <1>9, <2>2 DEF CheckerKnows, TypeOK, PlaceType
  <2> QED BY <2>1, <2>3
<1> QED BY <1>11, <1>12, <1>13, <1>14, <1>15, <1>16, <1>17, SMTT(40)

\* The current command leaves, and the queued one takes its place.
LEMMA CheckerReplaceStep ==
    ASSUME IInv, CheckerCompare, NEW next \in command_submitted_queue,
           NEW e \in Terminal, CheckerReplace(next, e)
    PROVE  IInv'
<1> DEFINE ev == [lastEvent EXCEPT ![current] = e]
<1> DEFINE a == Removed(acquire, current)
<1> DEFINE k == Removed(correlation, current)
<1> USE IdFacts DEF lifecycle, scheduler, issued, requests, IInv
<1>1. /\ cpc = "compare" /\ CurrentMutexFree
      /\ UNCHANGED <<lifecycle, submitting, whait_for_next_check, scheduler,
                     issued, requests, deleted>>
  BY DEF CheckerCompare
<1>2. InstallHandler(next, next \notin already_setupped, ev, a, k)
  BY DEF CheckerReplace
<1>3. /\ command_submitted_queue' = command_submitted_queue \ {next}
      /\ doomed' = IF current = StickyCmd THEN NoCmd ELSE current
      /\ pause_condition' = Unlock(pause_condition)
      /\ cpc' = "delete"
      /\ UNCHANGED command_stack
  BY DEF CheckerReplace
<1>4. current \in Ids /\ serviceState = "START" /\ spc # "step"
  BY <1>1 DEF CheckerKnows, ThreadsMatchState, CurrentMutexFree, TypeOK, PlaceType
<1>5. next \in Cmd /\ next \in Ids /\ lastEvent[next] = "QUEUED" /\ next # current
  BY DEF TypeOK, PlaceType, PlaceMatchesEvent
<1>6. next \notin deleted /\ next \notin Paused
  BY <1>5 DEF CheckerKnows, Terminal, PlaceMatchesEvent
<1>7. ev \in [Ids -> Event]
  BY <1>4 DEF TypeOK, FieldType, Event
<1>8. {a, k} \subseteq {StickyCmd, NoCmd} \cup Paused
  BY DEF Removed, NoDanglingFunctor
<1> HIDE DEF a, k
<1>9. /\ runningProperty' \in [Ids -> RunningProperty]
      /\ already_setupped' \subseteq Ids
      /\ lastEvent' \in [Ids -> Event]
      /\ lastEvent' = [ev EXCEPT ![next] = "RUNNING"]
      /\ current' = next
      /\ acquire' \in {a, next} /\ correlation' \in {k, next}
  <2>1. FieldType
    BY DEF TypeOK
  <2> HIDE DEF ev
  <2> QED BY <1>2, <1>5, <1>7, <2>1, InstallFields, Zenon
<1>10. /\ lastEvent'[next] = "RUNNING"
       /\ lastEvent'[current] = e
       /\ \A d \in Ids : d # next /\ d # current => lastEvent'[d] = lastEvent[d]
  BY <1>4, <1>5, <1>9 DEF TypeOK, FieldType
<1> HIDE DEF ev
<1>11. /\ current' = next
       /\ acquire' \in {a, next} /\ correlation' \in {k, next}
  BY <1>9
<1>12. Paused' = Paused /\ (PausedOnce => PausedOnce')
  BY <1>3 DEF Paused, PausedOnce
<1>13. Paused \subseteq Cmd
  BY DEF Paused, TypeOK, PlaceType
<1>14. TypeOK'
  <2>1. ControlType'
    BY <1>1, <1>3, SemaphoreOperations DEF TypeOK, ControlType
  <2>2. {doomed', current', acquire', correlation'} \subseteq Ids \cup {NoCmd}
    BY <1>3, <1>4, <1>5, <1>8, <1>11, <1>13, SMTT(40)
  <2>3. PlaceType'
    BY <1>1, <1>3, <2>2, SMTT(40) DEF TypeOK, PlaceType
  <2>4. FieldType'
    BY <1>1, <1>9, SMTT(40) DEF TypeOK, FieldType
  <2> QED BY <2>1, <2>3, <2>4, SMTT(40) DEF TypeOK
<1>15. PlaceMatchesEvent'
  <2> SUFFICES ASSUME NEW d \in Cmd
               PROVE  /\ lastEvent'[d] = "none" <=> d > command_sequence_id'
                      /\ lastEvent'[d] = "QUEUED" <=> d \in command_submitted_queue'
                      /\ lastEvent'[d] = "RUNNING" <=> d = current'
                      /\ lastEvent'[d] = "PAUSED" <=> d \in Paused'
    BY DEF PlaceMatchesEvent
  <2>1. /\ UNCHANGED command_sequence_id
        /\ command_submitted_queue' = command_submitted_queue \ {next}
    BY <1>1, <1>3
  <2>2. CASE d = next
    BY <2>1, <2>2, <1>5, <1>6, <1>10, <1>11, <1>12, SMTT(40) DEF PlaceMatchesEvent
  <2>3. CASE d = current
    BY <2>1, <2>3, <1>5, <1>10, <1>11, <1>12, SMTT(40) DEF PlaceMatchesEvent, Terminal
  <2>4. CASE d # next /\ d # current
    BY <2>1, <2>4, <1>10, <1>11, <1>12 DEF PlaceMatchesEvent
  <2> QED BY <2>2, <2>3, <2>4
<1>16. NoneStranded' /\ RetiresEnded'
  BY <1>3, <1>5, <1>11, SMTT(40) DEF NoneStranded, RetiresEnded
<1>17. NoDanglingFunctor'
  BY <1>8, <1>11, <1>12, SMTT(40) DEF NoDanglingFunctor
<1>18. StepOnLiveCommand'
  BY <1>1, <1>3, <1>4, <1>6, <1>11, <1>12 DEF StepOnLiveCommand
<1>19. ThreadsMatchState' /\ CheckerKnows'
  <2>1. ThreadsMatchState'
    BY <1>1, <1>4 DEF ThreadsMatchState
  <2>2. \A c \in deleted : c \in Ids /\ c # current /\ c # next
    BY <1>6, SMTT(40) DEF StepOnLiveCommand, TypeOK, PlaceType
  <2>3. CheckerKnows'
    BY <1>1, <1>3, <1>4, <1>10, <2>2 DEF CheckerKnows
  <2> QED BY <2>1, <2>3
<1> QED BY <1>12, <1>14, <1>15, <1>16, <1>17, <1>18, <1>19, SMTT(40)

\* The decision of the checker with a current and a queued command.
LEMMA CheckerCompareStep ==
    ASSUME IInv, CheckerCompare
    PROVE  IInv'
<1>1. PICK next \in command_submitted_queue :
         \/ \E v \in {"NO_CHANGE", "TIMED_RETRY"} : CheckerKeep(v)
         \/ CheckerStack(next)
         \/ \E e \in {"KILLED", "COMPLETED", "FAULT"} : CheckerReplace(next, e)
         \/ CheckerAbort
  BY DEF CheckerCompare
<1>2. CASE \E v \in {"NO_CHANGE", "TIMED_RETRY"} : CheckerKeep(v) \/ CheckerAbort
  <2>1. /\ cpc = "compare" /\ cpc' \in {"wait", "timed_wait", "aborted"}
        /\ UNCHANGED <<lifecycle, submitting, semaphores, scheduler, issued,
                       requests, deleted, doomed, places, functors, fields,
                       lastEvent>>
    BY <1>2 DEF CheckerCompare, CheckerKeep, CheckerAbort, semaphores
  <2> USE DEF IInv, lifecycle, semaphores, scheduler, requests
  <2>2. ControlType'
    BY <2>1 DEF TypeOK, ControlType
  <2>3. ControlMove
    BY <2>1, <2>2 DEF ControlMove, data, TypeOK, PlaceType, ThreadsMatchState
  <2> QED BY <2>3, ControlStep
<1>3. CASE CheckerStack(next)
  BY <1>3, CheckerStackStep
<1>4. CASE \E e \in {"KILLED", "COMPLETED", "FAULT"} : CheckerReplace(next, e)
  BY <1>4, CheckerReplaceStep DEF Terminal
<1> QED BY <1>1, <1>2, <1>3, <1>4

\* The event of a command that leaves is terminal.
LEMMA EventOfTerminal == \A r : EventOf(r) \in Terminal /\ EventOf(r) \in Event
BY DEF EventOf, Terminal, Event

\* The current command has ended: the last paused command is resumed, or the
\* sandbox is left without a current command and with nothing paused.
LEMMA CheckerRetireStep ==
    ASSUME IInv, CheckerRetire
    PROVE  IInv'
<1> DEFINE e == EventOf(runningProperty[current])
<1> DEFINE ev == [lastEvent EXCEPT ![current] = e]
<1> DEFINE a == Removed(acquire, current)
<1> DEFINE k == Removed(correlation, current)
<1> USE IdFacts DEF lifecycle, scheduler, issued, requests, IInv
<1>1. /\ cpc = "retire" /\ cpc' = "release" /\ CurrentMutexFree
      /\ doomed' = IF current = StickyCmd THEN NoCmd ELSE current
      /\ UNCHANGED <<lifecycle, submitting, whait_for_next_check, scheduler,
                     command_submitted_queue, issued, requests, deleted>>
  BY SMTT(40) DEF CheckerRetire
<1>2. current \in Ids /\ serviceState = "START" /\ spc # "step"
  BY <1>1 DEF RetiresEnded, ThreadsMatchState, CurrentMutexFree, TypeOK, PlaceType
<1>3. e \in Terminal /\ e \in Event
  BY EventOfTerminal
<1>4. \A c \in deleted : c \in Ids /\ c # current /\ c \notin Paused
  BY DEF StepOnLiveCommand, TypeOK, PlaceType
<1>5. {a, k} \subseteq {StickyCmd, NoCmd} \cup Paused
  BY DEF Removed, NoDanglingFunctor
<1>6. Paused \subseteq Cmd
  BY DEF Paused, TypeOK, PlaceType
<1>7. CASE command_stack # <<>>
  <2>0. InstallHandler(StackTop, StackTop \notin already_setupped, ev, a, k)
    BY <1>7, SMTT(40) DEF CheckerRetire
  <2>1. /\ command_stack' = Popped
        /\ pause_condition' = Unlock(pause_condition)
    BY <1>7 DEF CheckerRetire
  <2> HIDE DEF a, k, e
  <2>2. /\ Len(command_stack) \in Nat /\ Len(command_stack) >= 1
        /\ StackTop \in Cmd
        /\ command_stack' \in Seq(Cmd)
        /\ Len(command_stack') = Len(command_stack) - 1
        /\ \A i \in 1 .. Len(command_stack) - 1 : command_stack'[i] = command_stack[i]
    BY <1>7, <2>1, Pop, SMTT(40) DEF StackTop, Popped, TypeOK, PlaceType
  <2>3. StackTop \in Paused /\ Paused' = Paused \ {StackTop} /\ PausedOnce'
    BY <2>2, StackPop
  <2>4. lastEvent[StackTop] = "PAUSED" /\ StackTop # current
    BY <2>2, <2>3, SMTT(40) DEF PlaceMatchesEvent
  <2>5. StackTop \notin deleted /\ StackTop \notin command_submitted_queue
    BY <1>4, <2>2, <2>3, <2>4, SMTT(40) DEF PlaceMatchesEvent
  <2>6. ev \in [Ids -> Event]
    BY <1>2, <1>3 DEF TypeOK, FieldType
  <2>7. /\ runningProperty' \in [Ids -> RunningProperty]
        /\ already_setupped' \subseteq Ids
        /\ lastEvent' \in [Ids -> Event]
        /\ lastEvent' = [ev EXCEPT ![StackTop] = "RUNNING"]
        /\ current' = StackTop
        /\ acquire' \in {a, StackTop} /\ correlation' \in {k, StackTop}
    <3>1. FieldType
      BY SMTT(40) DEF TypeOK
    <3> HIDE DEF ev
    <3> QED BY <2>0, <2>2, <2>6, <3>1, InstallFields, Zenon
  <2>8. /\ lastEvent'[StackTop] = "RUNNING"
        /\ lastEvent'[current] = e
        /\ \A d \in Ids : d # StackTop /\ d # current => lastEvent'[d] = lastEvent[d]
    BY <1>2, <2>2, <2>4, <2>7 DEF TypeOK, FieldType
  <2> HIDE DEF ev
  <2>9. TypeOK'
    <3>1. ControlType'
      BY <1>1, <2>1, SemaphoreOperations, SMTT(40) DEF TypeOK, ControlType
    <3>2. {doomed', current', acquire', correlation'} \subseteq Ids \cup {NoCmd}
      BY <1>1, <1>2, <1>5, <1>6, <2>2, <2>7, SMTT(40)
    <3>3. PlaceType'
      BY <1>1, <2>2, <3>2, SMTT(40) DEF TypeOK, PlaceType
    <3>4. FieldType'
      BY <1>1, <2>7, SMTT(40) DEF TypeOK, FieldType
    <3> QED BY <3>1, <3>3, <3>4, SMTT(40) DEF TypeOK
  <2>10. PlaceMatchesEvent'
    <3> SUFFICES ASSUME NEW d \in Cmd
                 PROVE  /\ lastEvent'[d] = "none" <=> d > command_sequence_id'
                        /\ lastEvent'[d] = "QUEUED" <=> d \in command_submitted_queue'
                        /\ lastEvent'[d] = "RUNNING" <=> d = current'
                        /\ lastEvent'[d] = "PAUSED" <=> d \in Paused'
      BY SMTT(40) DEF PlaceMatchesEvent
    <3>0. UNCHANGED <<command_sequence_id, command_submitted_queue>>
      BY <1>1, SMTT(40)
    <3>1. CASE d = StackTop
      BY <3>1, <3>0, <2>3, <2>4, <2>5, <2>7, <2>8, SMTT(40) DEF PlaceMatchesEvent
    <3>2. CASE d = current
      BY <3>2, <3>0, <1>3, <2>3, <2>4, <2>7, <2>8, SMTT(40) DEF PlaceMatchesEvent, Terminal
    <3>3. CASE d # StackTop /\ d # current
      BY <3>3, <3>0, <2>3, <2>7, <2>8, SMTT(40) DEF PlaceMatchesEvent
    <3> QED BY <3>1, <3>2, <3>3, SMTT(40)
  <2>11. NoneStranded' /\ NoDanglingFunctor' /\ RetiresEnded'
    <3>1. /\ current' = StackTop
          /\ acquire' \in {a, StackTop} /\ correlation' \in {k, StackTop}
      BY <2>7, SMTT(40)
    <3>2. NoneStranded' /\ RetiresEnded'
      BY <1>1, <2>2, <3>1, SMTT(40) DEF NoneStranded, RetiresEnded
    <3>3. NoDanglingFunctor'
      BY <1>5, <2>3, <3>1, SMTT(40) DEF NoDanglingFunctor
    <3> QED BY <3>2, <3>3, SMTT(40)
  <2>12. StepOnLiveCommand'
    BY <1>1, <1>2, <2>3, <2>5, <2>7, SMTT(40) DEF StepOnLiveCommand
  <2>13. ThreadsMatchState' /\ CheckerKnows'
    BY <1>1, <1>2, <1>3, <1>4, <2>3, <2>8, SMTT(40) DEF ThreadsMatchState, CheckerKnows
  <2> QED BY <2>3, <2>9, <2>10, <2>11, <2>12, <2>13, SMTT(40)
<1>8. CASE command_stack = <<>>
  <2>1. /\ lastEvent' = ev
        /\ current' = NoCmd
        /\ acquire' = IF current = StickyCmd THEN acquire ELSE NoCmd
        /\ correlation' = IF current = StickyCmd THEN correlation ELSE NoCmd
        /\ UNCHANGED <<command_stack, pause_condition, fields>>
    BY <1>8, SMTT(40) DEF CheckerRetire
  <2> HIDE DEF e
  <2>2. /\ lastEvent'[current] = e
        /\ lastEvent' \in [Ids -> Event]
        /\ \A d \in Ids : d # current => lastEvent'[d] = lastEvent[d]
    BY <1>2, <1>3, <2>1, SMTT(40) DEF TypeOK, FieldType
  <2>3. Paused = {} /\ Paused' = {}
    BY <1>8, <2>1, SMTT(40) DEF Paused
  <2>4. TypeOK'
    <3>1. ControlType'
      BY <1>1, <2>1, SMTT(40) DEF TypeOK, ControlType
    <3>2. PlaceType'
      BY <1>1, <1>2, <2>1, SMTT(40) DEF TypeOK, PlaceType
    <3>3. FieldType'
      BY <1>1, <2>1, <2>2, SMTT(40) DEF TypeOK, FieldType, fields
    <3> QED BY <3>1, <3>2, <3>3 DEF TypeOK
  <2>5. PlaceMatchesEvent'
    <3> SUFFICES ASSUME NEW d \in Cmd
                 PROVE  /\ lastEvent'[d] = "none" <=> d > command_sequence_id'
                        /\ lastEvent'[d] = "QUEUED" <=> d \in command_submitted_queue'
                        /\ lastEvent'[d] = "RUNNING" <=> d = current'
                        /\ lastEvent'[d] = "PAUSED" <=> d \in Paused'
      BY DEF PlaceMatchesEvent
    <3>1. CASE d = current
      BY <3>1, <1>1, <1>3, <2>1, <2>2, <2>3, SMTT(40) DEF PlaceMatchesEvent, Terminal
    <3>2. CASE d # current
      BY <3>2, <1>1, <2>1, <2>2, <2>3, SMTT(40) DEF PlaceMatchesEvent
    <3> QED BY <3>1, <3>2, SMTT(40)
  <2>6. NoneStranded' /\ NoDanglingFunctor' /\ PausedOnce' /\ RetiresEnded'
    BY <1>1, <1>8, <2>1, <2>3, SMTT(40)
       DEF NoneStranded, NoDanglingFunctor, PausedOnce, RetiresEnded
  <2>7. StepOnLiveCommand'
    BY <1>1, <1>2, <2>1, <2>3, SMTT(40) DEF StepOnLiveCommand, TypeOK, PlaceType
  <2>8. ThreadsMatchState' /\ CheckerKnows'
    BY <1>1, <1>2, <1>3, <1>4, <2>2 DEF ThreadsMatchState, CheckerKnows
  <2> QED BY <2>4, <2>5, <2>6, <2>7, <2>8, SMTT(40)
<1> QED BY <1>7, <1>8, SMTT(40)

-----------------------------------------------------------------------------
(* The theorems.                                                           *)

\* Every step of the executor, of the two threads and of the condition
\* variables keeps the invariant.
LEMMA NextIInv == IInv /\ [Next]_vars => IInv'
<1> SUFFICES ASSUME IInv, [Next]_vars PROVE IInv'
    OBVIOUS
<1>1. CASE Executor
  BY <1>1, SetDefaultStickyCommandStep, InitSandboxStep, DeinitStep,
     EnqueueCommandStep, SignalSteps DEF Executor
<1>2. CASE RunCommand
  BY <1>2, SchedulerMoves, SchedulerTopStep, SchedulerStepStep DEF RunCommand
<1>3. CASE CheckNextCommand
  BY <1>3, CheckerMoves, CheckerLoopStep, CheckerCompareStep, CheckerDeleteStep,
     CheckerInstallStep, CheckerRetireStep, CheckerStickyStep, SMTT(40) DEF CheckNextCommand
<1>4. CASE Spurious
  BY <1>4, SignalSteps, SMTT(40)
<1>5. CASE UNCHANGED vars
  <2> USE <1>5 DEF vars, lifecycle, semaphores, scheduler, checker, requests, IInv
  <2>1. ControlType'
    BY SMTT(40) DEF TypeOK, ControlType
  <2>2. ControlMove
    BY <2>1 DEF ControlMove, data, TypeOK, PlaceType, ThreadsMatchState
  <2> QED BY <2>2, ControlStep, SMTT(40)
<1> QED BY <1>1, <1>2, <1>3, <1>4, <1>5 DEF Next, Terminated

\* The inductive invariant holds in every state of the sandbox.
THEOREM Invariance == Spec => []IInv
BY InitIInv, NextIInv, PTL DEF Spec

\* Every variable of the sandbox keeps its type, whatever the commands do.
THEOREM TypeCorrect == Spec => []TypeOK
<1>1. IInv => TypeOK
  BY DEF IInv
<1> QED BY <1>1, Invariance, PTL

\* A command is queued, current or paused exactly while the last event that
\* checkNextCommand(), enqueueCommand() or deinit() fired for it says so.
THEOREM Placement == Spec => []PlaceMatchesEvent
<1>1. IInv => PlaceMatchesEvent
  BY DEF IInv
<1> QED BY <1>1, Invariance, PTL

\* checkNextCommand() never leaves a paused command where nothing resumes it.
THEOREM PausedIsResumable == Spec => []NoneStranded
<1>1. IInv => NoneStranded
  BY DEF IInv
<1> QED BY <1>1, Invariance, PTL

\* installHandler() and removeHandler() leave no functor on a released command.
THEOREM FunctorsOnLiveCommands == Spec => []NoDanglingFunctor
<1>1. IInv => NoDanglingFunctor
  BY DEF IInv
<1> QED BY <1>1, Invariance, PTL

\* Only commands that have left are released, and the step that runCommand() runs is
\* that of the current command.
THEOREM StepsOnLiveCommands == Spec => []StepOnLiveCommand
<1>1. IInv => StepOnLiveCommand
  BY DEF IInv
<1> QED BY <1>1, Invariance, PTL

\* The unlocked read by which checkNextCommand() decides to retire the current
\* command is never out of date.
THEOREM UnlockedReadIsStable == Spec => []RetiresEnded
<1>1. IInv => RetiresEnded
  BY DEF IInv
<1> QED BY <1>1, Invariance, PTL
=============================================================================
