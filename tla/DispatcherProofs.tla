--------------------------- MODULE DispatcherProofs ---------------------------
(***************************************************************************)
(* What DefaultCommandDispatcher guarantees for any number of messages,    *)
(* actions and registration calls: a handler runs only while its action is *)
(* registered and enabled, and no accepted message lies in a queue without *)
(* a thread.                                                               *)
(*                                                                         *)
(* The second rests on deinit() seeing the queue empty and setting         *)
(* in_deinit under one hold of qMutex.                                     *)
(***************************************************************************)
EXTENDS DispatcherSteps

\* Serving a message leaves the thread where it is, or puts it back to its loop.
LEMMA WorkerStays ==
    ASSUME NEW m \in Msg,
           \/ Seeks(m) \/ Push(m) \/ TakeDescriptor(m) \/ Fire(m) \/ CanFire(m) \/ Call(m) \/ Return(m)
           \/ \E needAnswer \in BOOLEAN : Answer(m, needAnswer)
    PROVE  worker' = worker \/ worker' = "idle"
BY Zenon DEF Seeks, FindDomain, TakeScheduler, CheckAction, Push, LookUp, TakeDescriptor, Fire, CanFire,
       Call, Return, Answer, Leaves, domain

\* setFired() writes a Boolean of one descriptor.
LEMMA SetFiredTypes ==
    ASSUME TypeOK, NEW a \in Action, NEW f \in BOOLEAN, SetFired(a, f)
    PROVE  fired' \in [Action -> BOOLEAN]
<1>1. (f /\ enabled[a]) \in BOOLEAN
    OBVIOUS
<1> QED
    BY <1>1 DEF SetFired, TypeOK

\* Every step keeps the state well formed, and the queue within its limit.
LEMMA StepTypes ==
    ASSUME TypeOK, QueueIsQueued, Named, Counted, [Next]_vars
    PROVE  TypeOK'
<1>1. ASSUME NEW m \in Msg, Seeks(m) PROVE TypeOK'
    <2>1. msg' \in [Msg -> Message] /\ UNCHANGED <<das, sched, registered, enabled, owner, ownerCalls>>
        BY <1>1, SeekPasses DEF Passes, Moved, TypeOK
    <2>2. worker' \in {"none", "idle", "ended"} \cup Msg
        BY <1>1, WorkerStays DEF TypeOK
    <2>3. UNCHANGED <<queue, fired>>
        BY <1>1, SeekPasses
    <2> QED
        BY <2>1, <2>2, <2>3 DEF TypeOK
<1>2. ASSUME NEW m \in Msg, Push(m) PROVE TypeOK'
    <2>1. msg' \in [Msg -> Message] /\ UNCHANGED <<das, sched, registered, enabled, owner, ownerCalls>>
        BY <1>2, PushPasses DEF Passes, Moved, TypeOK
    <2>2. worker' \in {"none", "idle", "ended"} \cup Msg
        BY <1>2, WorkerStays DEF TypeOK
    <2>3. UNCHANGED fired
        BY <1>2, PushPasses
    <2>4. queue' \in Seq(Msg) /\ Len(queue') <= MAX_ELEMENT_IN_QUEUE + 1
        BY <1>2, PushPasses, DispatcherAssumption, SMTT(30) DEF TypeOK
    <2> QED
        BY <2>1, <2>2, <2>3, <2>4 DEF TypeOK
<1>3. ASSUME NEW m \in Msg, TakeDescriptor(m) PROVE TypeOK'
    <2>1. msg' \in [Msg -> Message] /\ UNCHANGED <<das, sched, registered, enabled, owner, ownerCalls>>
        BY <1>3, TakePasses DEF Passes, Moved, TypeOK
    <2>2. worker' \in {"none", "idle", "ended"} \cup Msg
        BY <1>3, WorkerStays DEF TypeOK
    <2>3. UNCHANGED <<queue, fired>>
        BY <1>3, TakePasses
    <2> QED
        BY <2>1, <2>2, <2>3 DEF TypeOK
<1>4. ASSUME NEW m \in Msg, Fire(m) PROVE TypeOK'
    <2>1. msg' \in [Msg -> Message] /\ UNCHANGED <<das, sched, registered, enabled, owner, ownerCalls>>
        BY <1>4, FirePasses, Zenon DEF Passes, Moved, TypeOK
    <2>2. worker' \in {"none", "idle", "ended"} \cup Msg
        BY <1>4, WorkerStays DEF TypeOK
    <2>3. UNCHANGED queue
        BY <1>4, FirePasses, Zenon
    <2>4. msg[m].action \in Action
        BY <1>4, FirePasses, Zenon DEF Named, Passes
    <2>5. fired' \in [Action -> BOOLEAN]
        BY <1>4, <2>4, FirePasses, SetFiredTypes, ZenonT(40) DEF TypeOK
    <2> QED
        BY <2>1, <2>2, <2>3, <2>5 DEF TypeOK
<1>5. ASSUME NEW m \in Msg, CanFire(m) PROVE TypeOK'
    <2>1. msg' \in [Msg -> Message] /\ UNCHANGED <<das, sched, registered, enabled, owner, ownerCalls>>
        BY <1>5, CanFirePasses, Zenon DEF Passes, Moved, TypeOK
    <2>2. worker' \in {"none", "idle", "ended"} \cup Msg
        BY <1>5, WorkerStays DEF TypeOK
    <2>3. UNCHANGED queue
        BY <1>5, CanFirePasses, Zenon
    <2>4. msg[m].action \in Action
        BY <1>5, CanFirePasses, Zenon DEF Named, Passes
    <2>5. fired' \in [Action -> BOOLEAN]
        BY <1>5, <2>4, CanFirePasses, SetFiredTypes, Zenon DEF TypeOK
    <2> QED
        BY <2>1, <2>2, <2>3, <2>5 DEF TypeOK
<1>6. ASSUME NEW m \in Msg, Call(m) \/ Return(m) PROVE TypeOK'
    <2>1. msg' \in [Msg -> Message] /\ UNCHANGED <<das, sched, registered, enabled, owner, ownerCalls>>
        BY <1>6, CallPasses DEF Passes, Moved, TypeOK
    <2>2. worker' \in {"none", "idle", "ended"} \cup Msg
        BY <1>6, WorkerStays DEF TypeOK
    <2>3. UNCHANGED <<queue, fired>>
        BY <1>6, CallPasses
    <2> QED
        BY <2>1, <2>2, <2>3 DEF TypeOK
<1>7. ASSUME NEW m \in Msg, NEW needAnswer \in BOOLEAN, Answer(m, needAnswer) PROVE TypeOK'
    <2>1. msg' \in [Msg -> Message] /\ UNCHANGED <<das, sched, registered, enabled, owner, ownerCalls>>
        BY <1>7, AnswerPasses, ZenonT(40) DEF Passes, Moved, TypeOK
    <2>2. worker' \in {"none", "idle", "ended"} \cup Msg
        BY <1>7, WorkerStays DEF TypeOK
    <2>3. UNCHANGED queue
        BY <1>7, AnswerPasses, Zenon
    <2>4. msg[m].action \in Action
        BY <1>7, AnswerPasses, Zenon DEF Named, Passes
    <2>5. fired' \in [Action -> BOOLEAN]
        BY <1>7, <2>4, AnswerPasses, SetFiredTypes, ZenonT(40) DEF TypeOK
    <2> QED
        BY <2>1, <2>2, <2>3, <2>5 DEF TypeOK
<1>8. ASSUME NEW m \in Msg, NEW n \in Msg, NEW a \in Action, SubCommand(m, n, a) PROVE TypeOK'
    BY <1>8, SubCommandBears, DispatcherAssumption
       DEF TypeOK, Born, domain, descriptors
<1>9. ASSUME NEW m \in Msg, NEW kind \in Kinds, NEW a \in Action, Submit(m, kind, a) PROVE TypeOK'
    BY <1>9, SubmitBears, DispatcherAssumption
       DEF TypeOK, Born, domain, descriptors
<1>10. ASSUME NEW a \in Action, RegisterAction(a) PROVE TypeOK'
    <2>1. CASE das = 0
        <3>1. sched.gen + 1 \in Generation
            BY <1>10, DispatcherAssumption DEF RegisterAction, Starts, TypeOK, Counted, Generation
        <3>2. /\ das' \in Generation
              /\ sched' \in [gen : Generation, live : BOOLEAN, armed : BOOLEAN, in_deinit : BOOLEAN,
                             dispatcher : BOOLEAN]
            <4>1. /\ das' = sched.gen + 1
                  /\ sched' = [gen |-> sched.gen + 1, live |-> TRUE, armed |-> TRUE,
                               in_deinit |-> FALSE, dispatcher |-> FALSE]
                BY <1>10, <2>1 DEF RegisterAction
            <4> QED
                BY <3>1, <4>1
        <3>3. /\ owner' \in [pc : OwnerPlace, kind : {"none", "register", "deregister", "deinit"},
                             action : Action \cup {"none"}]
              /\ ownerCalls' \in 0 .. MaxOwnerCalls
            BY <1>10, <2>1, DispatcherAssumption DEF RegisterAction, Starts, TypeOK, OwnerPlace
        <3> QED
            BY <1>10, <2>1, <3>2, <3>3 DEF RegisterAction, TypeOK
    <2>2. CASE das # 0
        BY <1>10, <2>2, DispatcherAssumption
           DEF RegisterAction, Starts, NoOwner, TypeOK, OwnerPlace
    <2> QED
        BY <2>1, <2>2
<1>11. ASSUME NEW a \in Action, DeregisterAction(a) PROVE TypeOK'
    BY <1>11, DispatcherAssumption
       DEF TypeOK, DeregisterAction, Starts, descriptors, OwnerPlace
<1>12. CASE Deinit
    BY <1>12, DispatcherAssumption
       DEF TypeOK, Deinit, Starts, descriptors, OwnerPlace
<1>13. CASE Pop
    BY <1>13, PopMoves, DispatcherAssumption
       DEF TypeOK, Pop, descriptors, Moved
<1>14. CASE WorkerEnds
    BY <1>14, DispatcherAssumption
       DEF TypeOK, WorkerEnds, descriptors
<1>15. CASE SetDispatcher
    BY <1>15, DispatcherAssumption, Zenon
       DEF TypeOK, SetDispatcher, OwnerAt, OwnerGoes, NoOwner, descriptors, OwnerPlace
<1>16. CASE SetDisabled
    BY <1>16, DispatcherAssumption, Zenon
       DEF TypeOK, SetDisabled, OwnerAt, OwnerGoes, descriptors, OwnerPlace
<1>17. CASE Erase
    BY <1>17, DispatcherAssumption
       DEF TypeOK, Erase, OwnerAt, OwnerGoes, NoOwner, descriptors, OwnerPlace, Generation
<1>18. CASE Clear
    BY <1>18, ClearDrops, DispatcherAssumption
       DEF TypeOK, Clear, OwnerAt, OwnerGoes, descriptors, OwnerPlace
<1>19. CASE Drain
    BY <1>19, DispatcherAssumption, Zenon
       DEF TypeOK, Drain, OwnerAt, OwnerGoes, descriptors, OwnerPlace
<1>20. CASE Join
    BY <1>20, DispatcherAssumption, Zenon
       DEF TypeOK, Join, OwnerAt, OwnerGoes, descriptors, OwnerPlace
<1>21. CASE Dispose
    <2>1. das' \in Generation
        BY <1>21, DispatcherAssumption DEF Dispose, Generation
    <2>2. owner' \in [pc : OwnerPlace, kind : {"none", "register", "deregister", "deinit"},
                       action : Action \cup {"none"}]
        BY <1>21 DEF Dispose, OwnerGoes, NoOwner, OwnerPlace, TypeOK
    <2> QED
        BY <1>21, <2>1, <2>2, Zenon DEF Dispose, TypeOK, descriptors
<1>22. CASE UNCHANGED vars
    BY <1>22 DEF TypeOK, vars
<1> QED
    BY <1>1, <1>2, <1>3, <1>4, <1>5, <1>6, <1>7, <1>8, <1>9, <1>10, <1>11, <1>12, <1>13, <1>14, <1>15, <1>16, <1>17, <1>18, <1>19, <1>20, <1>21, <1>22
       DEF Next, Seeks

\* registerAction() builds at most one scheduler per call.
LEMMA StepCounts ==
    ASSUME TypeOK, QueueIsQueued, Named, Counted, [Next]_vars
    PROVE  Counted'
<1>1. ASSUME NEW m \in Msg, Seeks(m) PROVE Counted'
    BY <1>1, SeekPasses, DispatcherAssumption
       DEF Counted, Passes, Moved
<1>2. ASSUME NEW m \in Msg, Push(m) PROVE Counted'
    BY <1>2, PushPasses, DispatcherAssumption
       DEF Counted, Passes, Moved
<1>3. ASSUME NEW m \in Msg, TakeDescriptor(m) PROVE Counted'
    BY <1>3, TakePasses, DispatcherAssumption
       DEF Counted, Passes, Moved
<1>4. ASSUME NEW m \in Msg, Fire(m) PROVE Counted'
    BY <1>4, FirePasses, DispatcherAssumption, Zenon
       DEF Counted, Passes, Moved
<1>5. ASSUME NEW m \in Msg, CanFire(m) PROVE Counted'
    BY <1>5, CanFirePasses, DispatcherAssumption, Zenon
       DEF Counted, Passes, Moved
<1>6. ASSUME NEW m \in Msg, Call(m) \/ Return(m) PROVE Counted'
    BY <1>6, CallPasses, DispatcherAssumption
       DEF Counted, Passes, Moved
<1>7. ASSUME NEW m \in Msg, NEW needAnswer \in BOOLEAN, Answer(m, needAnswer) PROVE Counted'
    BY <1>7, AnswerPasses, DispatcherAssumption, ZenonT(40)
       DEF Counted, Passes, Moved
<1>8. ASSUME NEW m \in Msg, NEW n \in Msg, NEW a \in Action, SubCommand(m, n, a) PROVE Counted'
    BY <1>8, SubCommandBears, DispatcherAssumption
       DEF Counted, Born, domain, descriptors
<1>9. ASSUME NEW m \in Msg, NEW kind \in Kinds, NEW a \in Action, Submit(m, kind, a) PROVE Counted'
    BY <1>9, SubmitBears, DispatcherAssumption
       DEF Counted, Born, domain, descriptors
<1>10. ASSUME NEW a \in Action, RegisterAction(a) PROVE Counted'
    BY <1>10, DispatcherAssumption
       DEF Counted, RegisterAction, Starts, NoOwner, descriptors, TypeOK, Generation
<1>11. ASSUME NEW a \in Action, DeregisterAction(a) PROVE Counted'
    BY <1>11, DispatcherAssumption
       DEF Counted, DeregisterAction, Starts, descriptors, TypeOK, Generation
<1>12. CASE Deinit
    BY <1>12, DispatcherAssumption
       DEF Counted, Deinit, Starts, descriptors, TypeOK, Generation
<1>13. CASE Pop
    BY <1>13, PopMoves, DispatcherAssumption
       DEF Counted, Pop, descriptors
<1>14. CASE WorkerEnds
    BY <1>14, DispatcherAssumption
       DEF Counted, WorkerEnds, descriptors
<1>15. CASE SetDispatcher
    BY <1>15, DispatcherAssumption
       DEF Counted, SetDispatcher, OwnerAt, OwnerGoes, NoOwner, descriptors, TypeOK
<1>16. CASE SetDisabled
    BY <1>16, DispatcherAssumption
       DEF Counted, SetDisabled, OwnerAt, OwnerGoes, descriptors
<1>17. CASE Erase
    BY <1>17, DispatcherAssumption
       DEF Counted, Erase, OwnerAt, OwnerGoes, NoOwner, descriptors, TypeOK, Generation
<1>18. CASE Clear
    BY <1>18, ClearDrops, DispatcherAssumption
       DEF Counted, Clear, OwnerAt, OwnerGoes, descriptors
<1>19. CASE Drain
    BY <1>19, DispatcherAssumption
       DEF Counted, Drain, OwnerAt, OwnerGoes, descriptors, TypeOK
<1>20. CASE Join
    BY <1>20, DispatcherAssumption
       DEF Counted, Join, OwnerAt, OwnerGoes, descriptors, TypeOK
<1>21. CASE Dispose
    BY <1>21, DispatcherAssumption
       DEF Counted, Dispose, OwnerAt, OwnerGoes, NoOwner, descriptors, TypeOK, Generation
<1>22. CASE UNCHANGED vars
    BY <1>22 DEF Counted, vars
<1> QED
    BY <1>1, <1>2, <1>3, <1>4, <1>5, <1>6, <1>7, <1>8, <1>9, <1>10, <1>11, <1>12, <1>13, <1>14, <1>15, <1>16, <1>17, <1>18, <1>19, <1>20, <1>21, <1>22
       DEF Next, Seeks

\* deinit() marks an empty queue, joins the thread, and only then lets the scheduler go.
LEMMA StepDeinit ==
    ASSUME TypeOK, QueueIsQueued, Named, DeinitInOrder, [Next]_vars
    PROVE  DeinitInOrder'
<1>1. ASSUME NEW m \in Msg, Seeks(m) PROVE DeinitInOrder'
    <2>1. UNCHANGED <<sched, owner, queue>>
        BY <1>1, SeekPasses DEF Passes
    <2> QED
        BY <1>1, <2>1, WorkerStays DEF DeinitInOrder
<1>2. ASSUME NEW m \in Msg, Push(m) PROVE DeinitInOrder'
    BY <1>2, PushPasses, DispatcherAssumption
       DEF DeinitInOrder, Passes, Moved
<1>3. ASSUME NEW m \in Msg, TakeDescriptor(m) PROVE DeinitInOrder'
    <2>1. UNCHANGED <<sched, owner, queue>>
        BY <1>3, TakePasses DEF Passes
    <2> QED
        BY <1>3, <2>1, WorkerStays DEF DeinitInOrder
<1>4. ASSUME NEW m \in Msg, Fire(m) PROVE DeinitInOrder'
    <2>1. UNCHANGED <<sched, owner, queue>>
        BY <1>4, FirePasses, Zenon DEF Passes
    <2> QED
        BY <1>4, <2>1, WorkerStays DEF DeinitInOrder
<1>5. ASSUME NEW m \in Msg, CanFire(m) PROVE DeinitInOrder'
    <2>1. UNCHANGED <<sched, owner, queue>>
        BY <1>5, CanFirePasses, Zenon DEF Passes
    <2> QED
        BY <1>5, <2>1, WorkerStays DEF DeinitInOrder
<1>6. ASSUME NEW m \in Msg, Call(m) \/ Return(m) PROVE DeinitInOrder'
    <2>1. UNCHANGED <<sched, owner, queue>>
        BY <1>6, CallPasses DEF Passes
    <2> QED
        BY <1>6, <2>1, WorkerStays DEF DeinitInOrder
<1>7. ASSUME NEW m \in Msg, NEW needAnswer \in BOOLEAN, Answer(m, needAnswer) PROVE DeinitInOrder'
    <2>1. UNCHANGED <<sched, owner, queue>>
        BY <1>7, AnswerPasses, Zenon DEF Passes
    <2> QED
        BY <1>7, <2>1, WorkerStays DEF DeinitInOrder
<1>8. ASSUME NEW m \in Msg, NEW n \in Msg, NEW a \in Action, SubCommand(m, n, a) PROVE DeinitInOrder'
    BY <1>8, SubCommandBears, DispatcherAssumption
       DEF DeinitInOrder, Born, domain, descriptors
<1>9. ASSUME NEW m \in Msg, NEW kind \in Kinds, NEW a \in Action, Submit(m, kind, a) PROVE DeinitInOrder'
    BY <1>9, SubmitBears, DispatcherAssumption
       DEF DeinitInOrder, Born, domain, descriptors
<1>10. ASSUME NEW a \in Action, RegisterAction(a) PROVE DeinitInOrder'
    BY <1>10, DispatcherAssumption
       DEF DeinitInOrder, RegisterAction, Starts, NoOwner, descriptors, TypeOK
<1>11. ASSUME NEW a \in Action, DeregisterAction(a) PROVE DeinitInOrder'
    BY <1>11, DispatcherAssumption
       DEF DeinitInOrder, DeregisterAction, Starts, descriptors
<1>12. CASE Deinit
    BY <1>12, DispatcherAssumption
       DEF DeinitInOrder, Deinit, Starts, descriptors
<1>13. CASE Pop
    BY <1>13, PopMoves, DispatcherAssumption
       DEF DeinitInOrder, Pop, descriptors, TypeOK
<1>14. CASE WorkerEnds
    BY <1>14, DispatcherAssumption
       DEF DeinitInOrder, WorkerEnds, descriptors
<1>15. CASE SetDispatcher
    BY <1>15, DispatcherAssumption
       DEF DeinitInOrder, SetDispatcher, OwnerAt, OwnerGoes, NoOwner, descriptors, TypeOK
<1>16. CASE SetDisabled
    BY <1>16, DispatcherAssumption
       DEF DeinitInOrder, SetDisabled, OwnerAt, OwnerGoes, descriptors, TypeOK
<1>17. CASE Erase
    BY <1>17, DispatcherAssumption
       DEF DeinitInOrder, Erase, OwnerAt, OwnerGoes, NoOwner, descriptors, TypeOK
<1>18. CASE Clear
    BY <1>18, ClearDrops, DispatcherAssumption
       DEF DeinitInOrder, Clear, OwnerAt, OwnerGoes, descriptors, TypeOK
<1>19. CASE Drain
    BY <1>19, DispatcherAssumption
       DEF DeinitInOrder, Drain, OwnerAt, OwnerGoes, descriptors, TypeOK
<1>20. CASE Join
    BY <1>20, DispatcherAssumption
       DEF DeinitInOrder, Join, OwnerAt, OwnerGoes, descriptors, TypeOK
<1>21. CASE Dispose
    BY <1>21, DispatcherAssumption
       DEF DeinitInOrder, Dispose, OwnerAt, OwnerGoes, NoOwner, descriptors, TypeOK
<1>22. CASE UNCHANGED vars
    BY <1>22 DEF DeinitInOrder, vars
<1> QED
    BY <1>1, <1>2, <1>3, <1>4, <1>5, <1>6, <1>7, <1>8, <1>9, <1>10, <1>11, <1>12, <1>13, <1>14, <1>15, <1>16, <1>17, <1>18, <1>19, <1>20, <1>21, <1>22
       DEF Next, Seeks

\* A step that accepts nothing and takes nothing leaves the queue matched.
LEMMA QueueKept ==
    ASSUME TypeOK, QueueMatches, UNCHANGED queue,
           \A k \in Msg : msg'[k].pc = "queued" <=> msg[k].pc = "queued"
    PROVE  QueueMatches'
<1>1. \A i \in 1 .. Len(queue) : queue[i] \in Msg
    BY DEF TypeOK
<1> QED
    BY <1>1 DEF QueueMatches, QueuedIsInQueue, QueueIsQueued, QueuedOnce

\* push() and the pop of the worker keep the queue and what became of the messages in step.
LEMMA StepQueue ==
    ASSUME TypeOK, Named, QueueMatches, [Next]_vars
    PROVE  QueueMatches'
<1>1. ASSUME NEW m \in Msg, Seeks(m) PROVE QueueMatches'
    <2>1. \A k \in Msg : msg'[k].pc = "queued" <=> msg[k].pc = "queued"
        BY <1>1, SeekPasses DEF Passes, Moved, Looking, Looked
    <2> QED
        BY <1>1, <2>1, SeekPasses, QueueKept
<1>2. ASSUME NEW m \in Msg, Push(m) PROVE QueueMatches'
    <2>1. CASE queue' = queue /\ msg'[m].pc # "queued"
        <3>1. \A k \in Msg : msg'[k].pc = "queued" <=> msg[k].pc = "queued"
            BY <1>2, <2>1, PushPasses DEF Passes, Moved
        <3> QED
            BY <2>1, <3>1, QueueKept
    <2>2. CASE queue' = Append(queue, m)
        <3>1. queue \in Seq(Msg) /\ msg[m].pc = "checked"
            BY <1>2, PushPasses DEF TypeOK, Passes
        <3>2. Moved(m, "queued")
            <4>1. queue' # queue
                BY <2>2, <3>1
            <4>2. Goto(m, "queued")
                BY <1>2, <4>1, ZenonT(40) DEF Push, UsesDestroyed
            <4> QED
                BY <4>2, GotoMoves DEF Place
        <3>3. /\ Len(queue') = Len(queue) + 1 /\ Len(queue) \in Nat /\ queue'[Len(queue) + 1] = m
              /\ \A i \in 1 .. Len(queue) : queue'[i] = queue[i] /\ queue[i] \in Msg /\ queue[i] # m
            BY <2>2, <3>1 DEF QueueMatches, QueueIsQueued
        <3>4. QueuedOnce'
            BY <3>3 DEF QueueMatches, QueuedOnce
        <3>5. QueueIsQueued'
            BY <3>2, <3>3 DEF QueueMatches, QueueIsQueued, Moved
        <3>6. QueuedIsInQueue'
            <4>1. SUFFICES ASSUME NEW k \in Msg, msg'[k].pc = "queued"
                           PROVE  \E i \in 1 .. Len(queue') : queue'[i] = k
                BY DEF QueuedIsInQueue
            <4>2. CASE k = m
                BY <3>3, <4>2
            <4>3. CASE k # m
                BY <3>2, <3>3, <4>1, <4>3 DEF QueueMatches, QueuedIsInQueue, Moved
            <4> QED
                BY <4>2, <4>3
        <3> QED
            BY <3>4, <3>5, <3>6 DEF QueueMatches
    <2> QED
        BY <1>2, <2>1, <2>2, PushPasses
<1>3. ASSUME NEW m \in Msg, TakeDescriptor(m) PROVE QueueMatches'
    <2>1. \A k \in Msg : msg'[k].pc = "queued" <=> msg[k].pc = "queued"
        BY <1>3, TakePasses DEF Passes, Moved
    <2> QED
        BY <1>3, <2>1, TakePasses, QueueKept
<1>4. ASSUME NEW m \in Msg, Fire(m) PROVE QueueMatches'
    <2>1. \A k \in Msg : msg'[k].pc = "queued" <=> msg[k].pc = "queued"
        BY <1>4, FirePasses, Zenon DEF Passes, Moved
    <2> QED
        BY <1>4, <2>1, FirePasses, QueueKept, Zenon
<1>5. ASSUME NEW m \in Msg, CanFire(m) PROVE QueueMatches'
    <2>1. \A k \in Msg : msg'[k].pc = "queued" <=> msg[k].pc = "queued"
        BY <1>5, CanFirePasses, ZenonT(40) DEF Passes, Moved
    <2> QED
        BY <1>5, <2>1, CanFirePasses, QueueKept, Zenon
<1>6. ASSUME NEW m \in Msg, Call(m) \/ Return(m) PROVE QueueMatches'
    <2>1. \A k \in Msg : msg'[k].pc = "queued" <=> msg[k].pc = "queued"
        BY <1>6, CallPasses DEF Passes, Moved
    <2> QED
        BY <1>6, <2>1, CallPasses, QueueKept
<1>7. ASSUME NEW m \in Msg, NEW needAnswer \in BOOLEAN, Answer(m, needAnswer) PROVE QueueMatches'
    <2>1. \A k \in Msg : msg'[k].pc = "queued" <=> msg[k].pc = "queued"
        BY <1>7, AnswerPasses, Zenon DEF Passes, Moved
    <2> QED
        BY <1>7, <2>1, AnswerPasses, QueueKept, Zenon
<1>8. ASSUME NEW m \in Msg, NEW n \in Msg, NEW a \in Action, SubCommand(m, n, a) PROVE QueueMatches'
    <2>1. \A k \in Msg : msg'[k].pc = "queued" <=> msg[k].pc = "queued"
        BY <1>8, SubCommandBears DEF Born
    <2> QED
        BY <1>8, <2>1, SubCommandBears, QueueKept
<1>9. ASSUME NEW m \in Msg, NEW kind \in Kinds, NEW a \in Action, Submit(m, kind, a) PROVE QueueMatches'
    <2>1. \A k \in Msg : msg'[k].pc = "queued" <=> msg[k].pc = "queued"
        BY <1>9, SubmitBears DEF Born
    <2> QED
        BY <1>9, <2>1, SubmitBears, QueueKept
<1>10. ASSUME NEW a \in Action, RegisterAction(a) PROVE QueueMatches'
    BY <1>10
       DEF QueueMatches, QueuedIsInQueue, QueueIsQueued, QueuedOnce, RegisterAction, Starts, NoOwner, descriptors
<1>11. ASSUME NEW a \in Action, DeregisterAction(a) PROVE QueueMatches'
    BY <1>11
       DEF QueueMatches, QueuedIsInQueue, QueueIsQueued, QueuedOnce, DeregisterAction, Starts, descriptors
<1>12. CASE Deinit
    BY <1>12
       DEF QueueMatches, QueuedIsInQueue, QueueIsQueued, QueuedOnce, Deinit, Starts, descriptors
<1>13. CASE Pop
    <2>1. queue \in Seq(Msg) /\ queue # <<>> /\ queue' = Tail(queue)
        BY <1>13, PopMoves DEF TypeOK, QueueMatches
    <2>2. Len(queue') = Len(queue) - 1 /\ \A i \in 1 .. Len(queue') : queue'[i] = queue[i + 1] /\ i + 1 \in 1 .. Len(queue)
        BY <2>1
    <2>3. Head(queue) = queue[1] /\ 1 \in 1 .. Len(queue) /\ Len(queue) \in Nat
        BY <2>1
    <2>4. Moved(queue[1], "popped")
        BY <1>13, <2>3, PopMoves DEF QueueMatches
    <2>5. QueuedOnce'
        BY <2>2, <2>3 DEF QueueMatches, QueuedOnce
    <2>6. QueueIsQueued'
        <3>1. \A i \in 1 .. Len(queue') : queue'[i] # queue[1] /\ queue'[i] \in Msg
            BY <2>1, <2>2, <2>3 DEF QueueMatches, QueuedOnce
        <3> QED
            BY <2>2, <2>4, <3>1 DEF QueueMatches, QueueIsQueued, Moved
    <2>7. QueuedIsInQueue'
        <3>1. SUFFICES ASSUME NEW k \in Msg, msg'[k].pc = "queued"
                       PROVE  \E i \in 1 .. Len(queue') : queue'[i] = k
            BY DEF QueuedIsInQueue
        <3>2. k # queue[1] /\ msg[k].pc = "queued"
            BY <2>4, <3>1 DEF Moved
        <3>3. PICK i \in 1 .. Len(queue) : queue[i] = k
            BY <3>2 DEF QueueMatches, QueuedIsInQueue
        <3>4. i - 1 \in 1 .. Len(queue') /\ queue'[i - 1] = k
            BY <2>2, <2>3, <3>2, <3>3
        <3> QED
            BY <3>4
    <2> QED
        BY <2>5, <2>6, <2>7 DEF QueueMatches
<1>14. CASE WorkerEnds
    BY <1>14
       DEF QueueMatches, QueuedIsInQueue, QueueIsQueued, QueuedOnce, WorkerEnds, descriptors
<1>15. CASE SetDispatcher
    BY <1>15
       DEF QueueMatches, QueuedIsInQueue, QueueIsQueued, QueuedOnce, SetDispatcher, OwnerAt, OwnerGoes, NoOwner, descriptors
<1>16. CASE SetDisabled
    BY <1>16
       DEF QueueMatches, QueuedIsInQueue, QueueIsQueued, QueuedOnce, SetDisabled, OwnerAt, OwnerGoes, descriptors
<1>17. CASE Erase
    BY <1>17
       DEF QueueMatches, QueuedIsInQueue, QueueIsQueued, QueuedOnce, Erase, OwnerAt, OwnerGoes, NoOwner, descriptors
<1>18. CASE Clear
    BY <1>18, ClearDrops
       DEF QueueMatches, QueuedIsInQueue, QueueIsQueued, QueuedOnce, Clear, OwnerAt, OwnerGoes, descriptors
<1>19. CASE Drain
    BY <1>19
       DEF QueueMatches, QueuedIsInQueue, QueueIsQueued, QueuedOnce, Drain, OwnerAt, OwnerGoes, descriptors
<1>20. CASE Join
    BY <1>20
       DEF QueueMatches, QueuedIsInQueue, QueueIsQueued, QueuedOnce, Join, OwnerAt, OwnerGoes, descriptors
<1>21. CASE Dispose
    BY <1>21
       DEF QueueMatches, QueuedIsInQueue, QueueIsQueued, QueuedOnce, Dispose, OwnerAt, OwnerGoes, NoOwner, descriptors
<1>22. CASE UNCHANGED vars
    BY <1>22 DEF QueueMatches, QueuedIsInQueue, QueueIsQueued, QueuedOnce, vars
<1> QED
    BY <1>1, <1>2, <1>3, <1>4, <1>5, <1>6, <1>7, <1>8, <1>9, <1>10, <1>11, <1>12, <1>13, <1>14, <1>15, <1>16, <1>17, <1>18, <1>19, <1>20, <1>21, <1>22, SMTT(40)
       DEF Next, Seeks

-----------------------------------------------------------------------------
(* The theorems.                                                           *)

\* The dispatcher starts with no domain, no thread and no message.
LEMMA InitHolds == Init => IInv
<1> SUFFICES ASSUME Init PROVE IInv
    OBVIOUS
<1>1. New("none", "none") \in Message /\ New("none", "none").pc = "none"
    BY DispatcherAssumption DEF New, Message, Place, Generation
<1>2. msg \in [Msg -> Message] /\ \A m \in Msg : msg[m].pc = "none"
    BY <1>1 DEF Init
<1>3. TypeOK
    BY <1>2, DispatcherAssumption DEF Init, TypeOK, Generation, NoOwner, OwnerPlace
<1>4. Counted /\ EraseDisabled /\ FiredIsHeld /\ DeinitInOrder
    BY DEF Init, Counted, EraseDisabled, FiredIsHeld, DeinitInOrder, NoOwner
<1>5. Named /\ TakenIsRegistered /\ EnteredIsEnabled
    BY <1>2 DEF Init, Named, NoOwner, TakenIsRegistered, Taken, EnteredIsEnabled, Entered
<1>6. QueueMatches
    BY <1>2 DEF Init, QueueMatches, QueuedIsInQueue, QueueIsQueued, QueuedOnce
<1> QED
    BY <1>3, <1>4, <1>5, <1>6 DEF IInv

\* Every step of submitters, worker and owner keeps the invariant.
LEMMA NextHolds == IInv /\ [Next]_vars => IInv'
BY StepTypes, StepCounts, StepNames, StepErase, StepFired, StepTaken, StepEntered, StepQueue, StepDeinit
   DEF IInv, QueueMatches

\* The state of the dispatcher, its domain and its queue stays well formed, and push()
\* never lets the queue past one element over its limit.
THEOREM DispatcherTypes == Spec => []TypeOK
<1>1. IInv => TypeOK
    BY DEF IInv
<1> QED
    BY <1>1, InitHolds, NextHolds, PTL DEF Spec

\* However submissions, the worker and the registration calls interleave, a handler is
\* called only while deregisterAction() has not taken its action away.
THEOREM CallsAreEnabled == Spec => []CalledWhileEnabled
<1>1. IInv => CalledWhileEnabled
    BY DEF IInv, EnteredIsEnabled, Entered, TakenIsRegistered, Taken, CalledWhileEnabled
<1> QED
    BY <1>1, InitHolds, NextHolds, PTL DEF Spec

\* However pushes race the deinit() of the scheduler, an accepted message never lies in
\* a queue whose thread has ended or whose scheduler is gone.
THEOREM QueuesAreServed == Spec => []QueuedHasAWorker
<1>1. IInv => QueuedHasAWorker
    <2> SUFFICES ASSUME IInv, NEW m \in Msg, msg[m].pc = "queued"
                 PROVE  sched.live /\ worker \notin {"none", "ended"}
        BY DEF QueuedHasAWorker
    <2>1. queue # <<>>
        BY DEF IInv, QueueMatches, QueuedIsInQueue
    <2> QED
        BY <2>1 DEF IInv, DeinitInOrder
<1> QED
    BY <1>1, InitHolds, NextHolds, PTL DEF Spec

===============================================================================
