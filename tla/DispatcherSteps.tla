---------------------------- MODULE DispatcherSteps ----------------------------
(***************************************************************************)
(* The part of the dispatcher's invariant that is about action descriptors *)
(* is kept by every step.  It rests on the read lock of the descriptor:    *)
(* `fired' is set only under it and only while `enabled', so it is false   *)
(* whenever setEnabled(false) is granted the write lock.                   *)
(***************************************************************************)
EXTENDS DispatcherInvariant

\* Messages and the calls of the owner carry the action they are about.
LEMMA StepNames ==
    ASSUME TypeOK, QueueIsQueued, Named, [Next]_vars
    PROVE  Named'
<1>1. ASSUME NEW m \in Msg, Seeks(m) PROVE Named'
    BY <1>1, SeekPasses
       DEF Named, Passes, Moved, Looking
<1>2. ASSUME NEW m \in Msg, Push(m) PROVE Named'
    BY <1>2, PushPasses
       DEF Named, Passes, Moved
<1>3. ASSUME NEW m \in Msg, TakeDescriptor(m) PROVE Named'
    BY <1>3, TakePasses
       DEF Named, Passes, Moved
<1>4. ASSUME NEW m \in Msg, Fire(m) PROVE Named'
    BY <1>4, FirePasses, Zenon
       DEF Named, Passes, Moved
<1>5. ASSUME NEW m \in Msg, CanFire(m) PROVE Named'
    BY <1>5, CanFirePasses, Zenon
       DEF Named, Passes, Moved
<1>6. ASSUME NEW m \in Msg, Call(m) \/ Return(m) PROVE Named'
    BY <1>6, CallPasses
       DEF Named, Passes, Moved
<1>7. ASSUME NEW m \in Msg, NEW needAnswer \in BOOLEAN, Answer(m, needAnswer) PROVE Named'
    BY <1>7, AnswerPasses, ZenonT(40)
       DEF Named, Passes, Moved
<1>8. ASSUME NEW m \in Msg, NEW n \in Msg, NEW a \in Action, SubCommand(m, n, a) PROVE Named'
    BY <1>8, SubCommandBears
       DEF Named, Born, domain, descriptors
<1>9. ASSUME NEW m \in Msg, NEW kind \in Kinds, NEW a \in Action, Submit(m, kind, a) PROVE Named'
    BY <1>9, SubmitBears
       DEF Named, Born, domain, descriptors
<1>10. ASSUME NEW a \in Action, RegisterAction(a) PROVE Named'
    BY <1>10
       DEF Named, RegisterAction, Starts, NoOwner, descriptors, TypeOK
<1>11. ASSUME NEW a \in Action, DeregisterAction(a) PROVE Named'
    BY <1>11
       DEF Named, DeregisterAction, Starts, descriptors
<1>12. CASE Deinit
    BY <1>12
       DEF Named, Deinit, Starts, descriptors
<1>13. CASE Pop
    BY <1>13, PopMoves
       DEF Named, Pop, descriptors, Moved
<1>14. CASE WorkerEnds
    BY <1>14
       DEF Named, WorkerEnds, descriptors
<1>15. CASE SetDispatcher
    BY <1>15
       DEF Named, SetDispatcher, OwnerAt, OwnerGoes, NoOwner, descriptors
<1>16. CASE SetDisabled
    BY <1>16
       DEF Named, SetDisabled, OwnerAt, OwnerGoes, descriptors, TypeOK, OwnerPlace
<1>17. CASE Erase
    BY <1>17
       DEF Named, Erase, OwnerAt, OwnerGoes, NoOwner, descriptors, TypeOK
<1>18. CASE Clear
    BY <1>18, ClearDrops
       DEF Named, Clear, OwnerAt, OwnerGoes, descriptors
<1>19. CASE Drain
    BY <1>19
       DEF Named, Drain, OwnerAt, OwnerGoes, descriptors
<1>20. CASE Join
    BY <1>20
       DEF Named, Join, OwnerAt, OwnerGoes, descriptors
<1>21. CASE Dispose
    BY <1>21
       DEF Named, Dispose, OwnerAt, OwnerGoes, NoOwner, descriptors
<1>22. CASE UNCHANGED vars
    BY <1>22 DEF Named, vars
<1> QED
    BY <1>1, <1>2, <1>3, <1>4, <1>5, <1>6, <1>7, <1>8, <1>9, <1>10, <1>11, <1>12, <1>13, <1>14, <1>15, <1>16, <1>17, <1>18, <1>19, <1>20, <1>21, <1>22
       DEF Next, Seeks

\* Between setEnabled(false) and the erasure nobody enables the action.
LEMMA StepErase ==
    ASSUME TypeOK, QueueIsQueued, Named, EraseDisabled, [Next]_vars
    PROVE  EraseDisabled'
<1>1. ASSUME NEW m \in Msg, Seeks(m) PROVE EraseDisabled'
    BY <1>1, SeekPasses
       DEF EraseDisabled, Passes, Moved
<1>2. ASSUME NEW m \in Msg, Push(m) PROVE EraseDisabled'
    BY <1>2, PushPasses
       DEF EraseDisabled, Passes, Moved
<1>3. ASSUME NEW m \in Msg, TakeDescriptor(m) PROVE EraseDisabled'
    BY <1>3, TakePasses
       DEF EraseDisabled, Passes, Moved
<1>4. ASSUME NEW m \in Msg, Fire(m) PROVE EraseDisabled'
    BY <1>4, FirePasses, Zenon
       DEF EraseDisabled, Passes, Moved
<1>5. ASSUME NEW m \in Msg, CanFire(m) PROVE EraseDisabled'
    BY <1>5, CanFirePasses, ZenonT(40)
       DEF EraseDisabled, Passes, Moved
<1>6. ASSUME NEW m \in Msg, Call(m) \/ Return(m) PROVE EraseDisabled'
    BY <1>6, CallPasses
       DEF EraseDisabled, Passes, Moved
<1>7. ASSUME NEW m \in Msg, NEW needAnswer \in BOOLEAN, Answer(m, needAnswer) PROVE EraseDisabled'
    BY <1>7, AnswerPasses, ZenonT(40)
       DEF EraseDisabled, Passes, Moved
<1>8. ASSUME NEW m \in Msg, NEW n \in Msg, NEW a \in Action, SubCommand(m, n, a) PROVE EraseDisabled'
    BY <1>8, SubCommandBears
       DEF EraseDisabled, Born, domain, descriptors
<1>9. ASSUME NEW m \in Msg, NEW kind \in Kinds, NEW a \in Action, Submit(m, kind, a) PROVE EraseDisabled'
    BY <1>9, SubmitBears
       DEF EraseDisabled, Born, domain, descriptors
<1>10. ASSUME NEW a \in Action, RegisterAction(a) PROVE EraseDisabled'
    BY <1>10
       DEF EraseDisabled, RegisterAction, Starts, NoOwner, descriptors
<1>11. ASSUME NEW a \in Action, DeregisterAction(a) PROVE EraseDisabled'
    BY <1>11
       DEF EraseDisabled, DeregisterAction, Starts, descriptors
<1>12. CASE Deinit
    BY <1>12
       DEF EraseDisabled, Deinit, Starts, descriptors
<1>13. CASE Pop
    BY <1>13, PopMoves
       DEF EraseDisabled, Pop, descriptors
<1>14. CASE WorkerEnds
    BY <1>14
       DEF EraseDisabled, WorkerEnds, descriptors
<1>15. CASE SetDispatcher
    BY <1>15
       DEF EraseDisabled, SetDispatcher, OwnerAt, OwnerGoes, NoOwner, descriptors
<1>16. CASE SetDisabled
    BY <1>16
       DEF EraseDisabled, SetDisabled, OwnerAt, OwnerGoes, descriptors, TypeOK, Named
<1>17. CASE Erase
    BY <1>17
       DEF EraseDisabled, Erase, OwnerAt, OwnerGoes, NoOwner, descriptors, TypeOK
<1>18. CASE Clear
    BY <1>18, ClearDrops
       DEF EraseDisabled, Clear, OwnerAt, OwnerGoes, descriptors
<1>19. CASE Drain
    BY <1>19
       DEF EraseDisabled, Drain, OwnerAt, OwnerGoes, descriptors
<1>20. CASE Join
    BY <1>20
       DEF EraseDisabled, Join, OwnerAt, OwnerGoes, descriptors
<1>21. CASE Dispose
    BY <1>21
       DEF EraseDisabled, Dispose, OwnerAt, OwnerGoes, NoOwner, descriptors
<1>22. CASE UNCHANGED vars
    BY <1>22 DEF EraseDisabled, vars
<1> QED
    BY <1>1, <1>2, <1>3, <1>4, <1>5, <1>6, <1>7, <1>8, <1>9, <1>10, <1>11, <1>12, <1>13, <1>14, <1>15, <1>16, <1>17, <1>18, <1>19, <1>20, <1>21, <1>22
       DEF Next, Seeks

\* fired is set and reset under the read lock, which keeps setEnabled(false) out.
LEMMA StepFired ==
    ASSUME TypeOK, QueueIsQueued, Named, FiredIsHeld, [Next]_vars
    PROVE  FiredIsHeld'
<1>1. ASSUME NEW m \in Msg, Seeks(m) PROVE FiredIsHeld'
    BY <1>1, SeekPasses
       DEF FiredIsHeld, Holds, HoldsReadLock, Passes, Moved, Looking, Looked
<1>2. ASSUME NEW m \in Msg, Push(m) PROVE FiredIsHeld'
    BY <1>2, PushPasses
       DEF FiredIsHeld, Holds, HoldsReadLock, Passes, Moved
<1>3. ASSUME NEW m \in Msg, TakeDescriptor(m) PROVE FiredIsHeld'
    BY <1>3, TakePasses
       DEF FiredIsHeld, Holds, HoldsReadLock, Passes, Moved
<1>4. ASSUME NEW m \in Msg, Fire(m) PROVE FiredIsHeld'
    BY <1>4, FirePasses
       DEF FiredIsHeld, Holds, HoldsReadLock, Passes, Moved, TypeOK, Named, SetFired
<1>5. ASSUME NEW m \in Msg, CanFire(m) PROVE FiredIsHeld'
    BY <1>5, CanFirePasses
       DEF FiredIsHeld, Holds, HoldsReadLock, Passes, Moved, TypeOK, Named, SetFired
<1>6. ASSUME NEW m \in Msg, Call(m) \/ Return(m) PROVE FiredIsHeld'
    BY <1>6, CallPasses
       DEF FiredIsHeld, Holds, HoldsReadLock, Passes, Moved
<1>7. ASSUME NEW m \in Msg, NEW needAnswer \in BOOLEAN, Answer(m, needAnswer) PROVE FiredIsHeld'
    <2>1. CASE msg' = msg /\ UNCHANGED fired
        BY <1>7, <2>1, AnswerPasses DEF FiredIsHeld, Holds, HoldsReadLock, Passes
    <2>2. CASE Moved(m, "called") /\ SetFired(msg[m].action, FALSE)
        <3>1. UNCHANGED enabled
            BY <1>7, AnswerPasses, Zenon DEF Passes
        <3>2. fired' = [fired EXCEPT ![msg[m].action] = FALSE]
            BY <2>2, Zenon DEF SetFired
        <3>3. \A a \in Action : fired'[a] => fired[a] /\ a # msg[m].action
            BY <3>2 DEF TypeOK
        <3> QED
            BY <2>2, <3>1, <3>3 DEF FiredIsHeld, Holds, HoldsReadLock, Moved
    <2> QED
        BY <1>7, <2>1, <2>2, AnswerPasses, Zenon
<1>8. ASSUME NEW m \in Msg, NEW n \in Msg, NEW a \in Action, SubCommand(m, n, a) PROVE FiredIsHeld'
    BY <1>8, SubCommandBears
       DEF FiredIsHeld, Holds, HoldsReadLock, Born, domain, descriptors
<1>9. ASSUME NEW m \in Msg, NEW kind \in Kinds, NEW a \in Action, Submit(m, kind, a) PROVE FiredIsHeld'
    BY <1>9, SubmitBears
       DEF FiredIsHeld, Holds, HoldsReadLock, Born, domain, descriptors
<1>10. ASSUME NEW a \in Action, RegisterAction(a) PROVE FiredIsHeld'
    BY <1>10
       DEF FiredIsHeld, Holds, HoldsReadLock, RegisterAction, Starts, NoOwner, descriptors, TypeOK
<1>11. ASSUME NEW a \in Action, DeregisterAction(a) PROVE FiredIsHeld'
    BY <1>11
       DEF FiredIsHeld, Holds, HoldsReadLock, DeregisterAction, Starts, descriptors
<1>12. CASE Deinit
    BY <1>12
       DEF FiredIsHeld, Holds, HoldsReadLock, Deinit, Starts, descriptors
<1>13. CASE Pop
    BY <1>13, PopMoves
       DEF FiredIsHeld, Holds, HoldsReadLock, Pop, descriptors, Moved, TypeOK
<1>14. CASE WorkerEnds
    BY <1>14
       DEF FiredIsHeld, Holds, HoldsReadLock, WorkerEnds, descriptors
<1>15. CASE SetDispatcher
    BY <1>15
       DEF FiredIsHeld, Holds, HoldsReadLock, SetDispatcher, OwnerAt, OwnerGoes, NoOwner, descriptors
<1>16. CASE SetDisabled
    BY <1>16
       DEF FiredIsHeld, Holds, HoldsReadLock, SetDisabled, OwnerAt, OwnerGoes, descriptors, TypeOK, Named
<1>17. CASE Erase
    BY <1>17
       DEF FiredIsHeld, Holds, HoldsReadLock, Erase, OwnerAt, OwnerGoes, NoOwner, descriptors
<1>18. CASE Clear
    BY <1>18, ClearDrops
       DEF FiredIsHeld, Holds, HoldsReadLock, Clear, OwnerAt, OwnerGoes, descriptors
<1>19. CASE Drain
    BY <1>19
       DEF FiredIsHeld, Holds, HoldsReadLock, Drain, OwnerAt, OwnerGoes, descriptors
<1>20. CASE Join
    BY <1>20
       DEF FiredIsHeld, Holds, HoldsReadLock, Join, OwnerAt, OwnerGoes, descriptors
<1>21. CASE Dispose
    BY <1>21
       DEF FiredIsHeld, Holds, HoldsReadLock, Dispose, OwnerAt, OwnerGoes, NoOwner, descriptors
<1>22. CASE UNCHANGED vars
    BY <1>22 DEF FiredIsHeld, Holds, HoldsReadLock, vars
<1> QED
    BY <1>1, <1>2, <1>3, <1>4, <1>5, <1>6, <1>7, <1>8, <1>9, <1>10, <1>11, <1>12, <1>13, <1>14, <1>15, <1>16, <1>17, <1>18, <1>19, <1>20, <1>21, <1>22
       DEF Next, Seeks

\* deregisterAction() disables a descriptor before it leaves the domain.
LEMMA StepTaken ==
    ASSUME TypeOK, QueueIsQueued, Named, EraseDisabled, TakenIsRegistered, [Next]_vars
    PROVE  TakenIsRegistered'
<1>1. ASSUME NEW m \in Msg, Seeks(m) PROVE TakenIsRegistered'
    BY <1>1, SeekPasses
       DEF TakenIsRegistered, Taken, Passes, Moved, Looked
<1>2. ASSUME NEW m \in Msg, Push(m) PROVE TakenIsRegistered'
    <2>1. UNCHANGED <<registered, enabled>>
        BY <1>2, PushPasses DEF Passes
    <2>2. msg' = msg \/ \E p \in {"refused", "queued"} : Moved(m, p)
        BY <1>2, PushPasses DEF Passes
    <2> QED
        BY <2>1, <2>2 DEF TakenIsRegistered, Taken, Moved
<1>3. ASSUME NEW m \in Msg, TakeDescriptor(m) PROVE TakenIsRegistered'
    <2>1. UNCHANGED <<registered, enabled>>
        BY <1>3, TakePasses DEF Passes
    <2>2. msg' = msg \/ Moved(m, "locking")
        BY <1>3, TakePasses DEF Passes
    <2>3. msg' = msg \/ msg[m].action \in registered
        BY <1>3, TakePasses
    <2> QED
        BY <2>1, <2>2, <2>3 DEF TakenIsRegistered, Taken, Moved
<1>4. ASSUME NEW m \in Msg, Fire(m) PROVE TakenIsRegistered'
    <2>1. UNCHANGED <<registered, enabled>>
        BY <1>4, FirePasses, Zenon DEF Passes
    <2>2. Moved(m, "fire") /\ msg[m].pc = "locking"
        BY <1>4, FirePasses, Zenon DEF Passes
    <2> QED
        BY <2>1, <2>2 DEF TakenIsRegistered, Taken, Moved
<1>5. ASSUME NEW m \in Msg, CanFire(m) PROVE TakenIsRegistered'
    <2>1. UNCHANGED <<registered, enabled>>
        BY <1>5, CanFirePasses, Zenon DEF Passes
    <2>2. msg[m].pc = "fire" /\ (Moved(m, "call") \/ Moved(m, "dropped"))
        BY <1>5, CanFirePasses, Zenon DEF Passes
    <2> QED
        BY <2>1, <2>2 DEF TakenIsRegistered, Taken, Moved
<1>6. ASSUME NEW m \in Msg, Call(m) \/ Return(m) PROVE TakenIsRegistered'
    BY <1>6, CallPasses
       DEF TakenIsRegistered, Taken, Passes, Moved
<1>7. ASSUME NEW m \in Msg, NEW needAnswer \in BOOLEAN, Answer(m, needAnswer) PROVE TakenIsRegistered'
    <2>1. CASE msg' = msg
        BY <1>7, <2>1, AnswerPasses, Zenon DEF TakenIsRegistered, Passes
    <2>2. CASE Moved(m, "called")
        <3>1. UNCHANGED <<registered, enabled>>
            BY <1>7, AnswerPasses, ZenonT(40) DEF Passes
        <3> QED
            BY <2>2, <3>1 DEF TakenIsRegistered, Taken, Moved
    <2> QED
        BY <1>7, <2>1, <2>2, AnswerPasses, Zenon
<1>8. ASSUME NEW m \in Msg, NEW n \in Msg, NEW a \in Action, SubCommand(m, n, a) PROVE TakenIsRegistered'
    BY <1>8, SubCommandBears
       DEF TakenIsRegistered, Taken, Born, domain, descriptors
<1>9. ASSUME NEW m \in Msg, NEW kind \in Kinds, NEW a \in Action, Submit(m, kind, a) PROVE TakenIsRegistered'
    BY <1>9, SubmitBears
       DEF TakenIsRegistered, Taken, Born, domain, descriptors
<1>10. ASSUME NEW a \in Action, RegisterAction(a) PROVE TakenIsRegistered'
    BY <1>10
       DEF TakenIsRegistered, Taken, RegisterAction, Starts, NoOwner, descriptors, TypeOK, Named
<1>11. ASSUME NEW a \in Action, DeregisterAction(a) PROVE TakenIsRegistered'
    BY <1>11
       DEF TakenIsRegistered, Taken, DeregisterAction, Starts, descriptors
<1>12. CASE Deinit
    BY <1>12
       DEF TakenIsRegistered, Taken, Deinit, Starts, descriptors
<1>13. CASE Pop
    BY <1>13, PopMoves
       DEF TakenIsRegistered, Taken, Pop, descriptors, Moved
<1>14. CASE WorkerEnds
    BY <1>14
       DEF TakenIsRegistered, Taken, WorkerEnds, descriptors
<1>15. CASE SetDispatcher
    BY <1>15
       DEF TakenIsRegistered, Taken, SetDispatcher, OwnerAt, OwnerGoes, NoOwner, descriptors
<1>16. CASE SetDisabled
    BY <1>16
       DEF TakenIsRegistered, Taken, SetDisabled, OwnerAt, OwnerGoes, descriptors, TypeOK, Named
<1>17. CASE Erase
    BY <1>17
       DEF TakenIsRegistered, Taken, Erase, OwnerAt, OwnerGoes, NoOwner, descriptors, TypeOK, Named, EraseDisabled
<1>18. CASE Clear
    BY <1>18, ClearDrops
       DEF TakenIsRegistered, Taken, Clear, OwnerAt, OwnerGoes, descriptors
<1>19. CASE Drain
    BY <1>19
       DEF TakenIsRegistered, Taken, Drain, OwnerAt, OwnerGoes, descriptors
<1>20. CASE Join
    BY <1>20
       DEF TakenIsRegistered, Taken, Join, OwnerAt, OwnerGoes, descriptors
<1>21. CASE Dispose
    BY <1>21
       DEF TakenIsRegistered, Taken, Dispose, OwnerAt, OwnerGoes, NoOwner, descriptors
<1>22. CASE UNCHANGED vars
    BY <1>22 DEF TakenIsRegistered, Taken, vars
<1> QED
    BY <1>1, <1>2, <1>3, <1>4, <1>5, <1>6, <1>7, <1>8, <1>9, <1>10, <1>11, <1>12, <1>13, <1>14, <1>15, <1>16, <1>17, <1>18, <1>19, <1>20, <1>21, <1>22
       DEF Next, Seeks

\* Whoever saw fired keeps the read lock until the answer is out.
LEMMA StepEntered ==
    ASSUME TypeOK, QueueIsQueued, Named, FiredIsHeld, EnteredIsEnabled, [Next]_vars
    PROVE  EnteredIsEnabled'
<1>1. ASSUME NEW m \in Msg, Seeks(m) PROVE EnteredIsEnabled'
    BY <1>1, SeekPasses
       DEF EnteredIsEnabled, Entered, Passes, Moved, Looked
<1>2. ASSUME NEW m \in Msg, Push(m) PROVE EnteredIsEnabled'
    <2>1. UNCHANGED enabled
        BY <1>2, PushPasses DEF Passes
    <2>2. msg' = msg \/ \E p \in {"refused", "queued"} : Moved(m, p)
        BY <1>2, PushPasses DEF Passes
    <2> QED
        BY <2>1, <2>2 DEF EnteredIsEnabled, Entered, Moved
<1>3. ASSUME NEW m \in Msg, TakeDescriptor(m) PROVE EnteredIsEnabled'
    <2>1. UNCHANGED enabled
        BY <1>3, TakePasses DEF Passes
    <2>2. msg' = msg \/ Moved(m, "locking")
        BY <1>3, TakePasses DEF Passes
    <2> QED
        BY <2>1, <2>2 DEF EnteredIsEnabled, Entered, Moved
<1>4. ASSUME NEW m \in Msg, Fire(m) PROVE EnteredIsEnabled'
    <2>1. UNCHANGED enabled
        BY <1>4, FirePasses, Zenon DEF Passes
    <2>2. Moved(m, "fire") /\ msg[m].pc = "locking"
        BY <1>4, FirePasses, Zenon DEF Passes
    <2> QED
        BY <2>1, <2>2 DEF EnteredIsEnabled, Entered, Moved
<1>5. ASSUME NEW m \in Msg, CanFire(m) PROVE EnteredIsEnabled'
    <2>0. UNCHANGED enabled
        BY <1>5, CanFirePasses, Zenon DEF Passes
    <2>1. msg[m].action \in Action
        BY <1>5, CanFirePasses, ZenonT(40) DEF Named, Passes
    <2>2. CASE fired[msg[m].action] /\ Moved(m, "call")
        <3>1. enabled[msg[m].action]
            BY <2>1, <2>2 DEF FiredIsHeld
        <3> QED
            BY <2>0, <2>2, <3>1 DEF EnteredIsEnabled, Entered, Moved
    <2>3. CASE Moved(m, "dropped")
        BY <2>0, <2>3 DEF EnteredIsEnabled, Entered, Moved
    <2> QED
        BY <1>5, <2>2, <2>3, CanFirePasses, Zenon
<1>6. ASSUME NEW m \in Msg, Call(m) \/ Return(m) PROVE EnteredIsEnabled'
    BY <1>6, CallPasses
       DEF EnteredIsEnabled, Entered, Passes, Moved
<1>7. ASSUME NEW m \in Msg, NEW needAnswer \in BOOLEAN, Answer(m, needAnswer) PROVE EnteredIsEnabled'
    BY <1>7, AnswerPasses, ZenonT(40)
       DEF EnteredIsEnabled, Entered, Passes, Moved
<1>8. ASSUME NEW m \in Msg, NEW n \in Msg, NEW a \in Action, SubCommand(m, n, a) PROVE EnteredIsEnabled'
    BY <1>8, SubCommandBears
       DEF EnteredIsEnabled, Entered, Born, domain, descriptors
<1>9. ASSUME NEW m \in Msg, NEW kind \in Kinds, NEW a \in Action, Submit(m, kind, a) PROVE EnteredIsEnabled'
    BY <1>9, SubmitBears
       DEF EnteredIsEnabled, Entered, Born, domain, descriptors
<1>10. ASSUME NEW a \in Action, RegisterAction(a) PROVE EnteredIsEnabled'
    BY <1>10
       DEF EnteredIsEnabled, Entered, RegisterAction, Starts, NoOwner, descriptors, TypeOK, Named
<1>11. ASSUME NEW a \in Action, DeregisterAction(a) PROVE EnteredIsEnabled'
    BY <1>11
       DEF EnteredIsEnabled, Entered, DeregisterAction, Starts, descriptors
<1>12. CASE Deinit
    BY <1>12
       DEF EnteredIsEnabled, Entered, Deinit, Starts, descriptors
<1>13. CASE Pop
    BY <1>13, PopMoves
       DEF EnteredIsEnabled, Entered, Pop, descriptors, Moved
<1>14. CASE WorkerEnds
    BY <1>14
       DEF EnteredIsEnabled, Entered, WorkerEnds, descriptors
<1>15. CASE SetDispatcher
    BY <1>15
       DEF EnteredIsEnabled, Entered, SetDispatcher, OwnerAt, OwnerGoes, NoOwner, descriptors
<1>16. CASE SetDisabled
    BY <1>16
       DEF EnteredIsEnabled, Entered, SetDisabled, OwnerAt, OwnerGoes, descriptors, TypeOK, Named, HoldsReadLock
<1>17. CASE Erase
    BY <1>17
       DEF EnteredIsEnabled, Entered, Erase, OwnerAt, OwnerGoes, NoOwner, descriptors
<1>18. CASE Clear
    BY <1>18, ClearDrops
       DEF EnteredIsEnabled, Entered, Clear, OwnerAt, OwnerGoes, descriptors
<1>19. CASE Drain
    BY <1>19
       DEF EnteredIsEnabled, Entered, Drain, OwnerAt, OwnerGoes, descriptors
<1>20. CASE Join
    BY <1>20
       DEF EnteredIsEnabled, Entered, Join, OwnerAt, OwnerGoes, descriptors
<1>21. CASE Dispose
    BY <1>21
       DEF EnteredIsEnabled, Entered, Dispose, OwnerAt, OwnerGoes, NoOwner, descriptors
<1>22. CASE UNCHANGED vars
    BY <1>22 DEF EnteredIsEnabled, Entered, vars
<1> QED
    BY <1>1, <1>2, <1>3, <1>4, <1>5, <1>6, <1>7, <1>8, <1>9, <1>10, <1>11, <1>12, <1>13, <1>14, <1>15, <1>16, <1>17, <1>18, <1>19, <1>20, <1>21, <1>22
       DEF Next, Seeks
===============================================================================
