-------------------------- MODULE DispatcherInvariant --------------------------
(***************************************************************************)
(* The inductive invariant of DefaultCommandDispatcher, and what its steps *)
(* do to a message, as lemmas that the proofs of the invariant share.      *)
(***************************************************************************)
EXTENDS DefaultCommandDispatcher, TLAPS

\* Generations count the calls that built them.
Counted == das <= sched.gen /\ sched.gen <= ownerCalls

\* A message has its action, and the owner's call its own.
Named ==
    /\ \A m \in Msg : msg[m].pc # "none" => msg[m].action \in Action
    /\ owner.pc \in {"disable", "erase"} => owner.action \in Action

Holds(m, a) == HoldsReadLock(m) /\ msg[m].action = a

\* deregisterAction() erases an action that it has disabled.
EraseDisabled == owner.pc = "erase" => ~enabled[owner.action]

\* An action is fired under its read lock, while it is enabled.
FiredIsHeld == \A a \in Action : fired[a] => enabled[a] /\ \E m \in Msg : Holds(m, a)

Taken == {"locking", "fire", "call", "calling", "returned", "sub"}
Entered == {"call", "calling", "returned", "sub"}

\* A descriptor that was taken and is still enabled is still registered.
TakenIsRegistered ==
    \A m \in Msg : msg[m].pc \in Taken /\ enabled[msg[m].action] => msg[m].action \in registered

\* Who got past setFired(true) keeps the action enabled.
EnteredIsEnabled == \A m \in Msg : msg[m].pc \in Entered => enabled[msg[m].action]

\* The queue holds the accepted messages, each once.
QueuedIsInQueue == \A m \in Msg : msg[m].pc = "queued" => \E i \in 1 .. Len(queue) : queue[i] = m
QueueIsQueued == \A i \in 1 .. Len(queue) : msg[queue[i]].pc = "queued"
QueuedOnce == \A i, j \in 1 .. Len(queue) : queue[i] = queue[j] => i = j
QueueMatches == QueuedIsInQueue /\ QueueIsQueued /\ QueuedOnce

\* The end of a scheduler: in_deinit over an empty queue, then its thread, then itself.
DeinitInOrder ==
    /\ sched.in_deinit => queue = <<>>
    /\ owner.pc \in {"join", "dispose"} => sched.in_deinit
    /\ sched.live /\ ~sched.in_deinit => worker \notin {"none", "ended"}
    /\ queue # <<>> => sched.live

IInv == /\ TypeOK /\ Counted /\ Named
        /\ EraseDisabled /\ FiredIsHeld /\ TakenIsRegistered /\ EnteredIsEnabled
        /\ QueueMatches /\ DeinitInOrder

-----------------------------------------------------------------------------
(* What the steps of a message do to it, once for all invariants.          *)

\* m is at p, and nothing else is known of any message to have changed.
Moved(m, p) ==
    /\ msg' \in [Msg -> Message]
    /\ \A n \in Msg : /\ msg'[n].action = msg[n].action
                      /\ msg'[n].pc = IF n = m THEN p ELSE msg[n].pc

\* m was at one of from and is at one of to, unless the process has just ended.
Passes(m, from, to) ==
    /\ msg[m].pc \in from
    /\ msg' = msg \/ \E p \in to : Moved(m, p)
    /\ UNCHANGED <<das, sched, registered, enabled, owner, ownerCalls>>

Looking == {"new", "counted", "found", "popped"}
Looked == {"refused", "counted", "found", "checked", "has", "dropped"}
Seeks(m) == FindDomain(m) \/ TakeScheduler(m) \/ CheckAction(m) \/ LookUp(m)

\* The assignment of one place leaves every other message, and every action, alone.
LEMMA GotoMoves ==
    ASSUME TypeOK, NEW m \in Msg, NEW p \in Place, Goto(m, p)
    PROVE  Moved(m, p)
<1>1. msg \in [Msg -> Message]
    BY DEF TypeOK
<1>2. msg' = [msg EXCEPT ![m] = [msg[m] EXCEPT !.pc = p]]
    BY DEF Goto
<1>3. [msg[m] EXCEPT !.pc = p] \in Message
    BY <1>1 DEF Message
<1>4. msg' \in [Msg -> Message]
    BY <1>1, <1>2, <1>3
<1>5. \A n \in Msg : msg'[n] = IF n = m THEN [msg[m] EXCEPT !.pc = p] ELSE msg[n]
    BY <1>1, <1>2
<1>6. [msg[m] EXCEPT !.pc = p].pc = p /\ [msg[m] EXCEPT !.pc = p].action = msg[m].action
    BY <1>1 DEF Message
<1> QED
    BY <1>4, <1>5, <1>6, Zenon DEF Moved

\* A message on its way to an action touches neither descriptors nor the queue.
LEMMA SeekPasses ==
    ASSUME TypeOK, NEW m \in Msg, Seeks(m)
    PROVE  Passes(m, Looking, Looked) /\ UNCHANGED <<queue, fired>>
<1>1. CASE FindDomain(m)
    BY <1>1, GotoMoves DEF FindDomain, At, Passes, Looking, Looked, Place, domain, descriptors
<1>2. CASE TakeScheduler(m)
    <2>1. CASE das = 0
        BY <1>2, <2>1, Zenon DEF TakeScheduler, At, Passes, Looking, domain, descriptors
    <2>2. CASE das # 0
        <3>1. msg' = [msg EXCEPT ![m].pc = "found", ![m].gen = das]
            BY <1>2, <2>2 DEF TakeScheduler
        <3>2. Moved(m, "found")
            <4> DEFINE found == [msg[m] EXCEPT !.pc = "found", !.gen = das]
            <4>1. msg \in [Msg -> Message] /\ das \in Generation
                BY DEF TypeOK
            <4>2. found \in Message /\ found.pc = "found" /\ found.action = msg[m].action
                BY <4>1, ZenonT(40) DEF Message, Place
            <4>3. msg' = [msg EXCEPT ![m] = found]
                BY <3>1, <4>1, Zenon DEF Message
            <4> HIDE DEF found
            <4> QED
                BY <4>1, <4>2, <4>3 DEF Moved
        <3> QED
            BY <1>2, <3>2, Zenon DEF TakeScheduler, At, Passes, Looking, Looked, domain, descriptors
    <2> QED
        BY <2>1, <2>2
<1>3. CASE CheckAction(m)
    <2>1. CASE Destroyed(m) /\ UsesDestroyed(m)
        BY <1>3, <2>1, Zenon DEF CheckAction, At, UsesDestroyed, Passes, Looking, domain, descriptors
    <2>2. CASE ~(Destroyed(m) /\ UsesDestroyed(m))
        <3>1. PICK p \in {"refused", "checked", "has"} : Goto(m, p)
            BY <1>3, <2>2 DEF CheckAction
        <3>2. Moved(m, p)
            BY <3>1, GotoMoves DEF Place
        <3> QED
            BY <1>3, <2>2, <3>2 DEF CheckAction, At, Passes, Looking, Looked, domain, descriptors
    <2> QED
        BY <2>1, <2>2
<1>4. CASE LookUp(m)
    <2>1. PICK p \in {"has", "dropped"} : Goto(m, p)
        BY <1>4 DEF LookUp, Leaves
    <2>2. Moved(m, p)
        BY <2>1, GotoMoves DEF Place
    <2> QED
        BY <1>4, <2>2 DEF LookUp, Leaves, At, Passes, Looking, Looked, domain, descriptors
<1> QED
    BY <1>1, <1>2, <1>3, <1>4 DEF Seeks

\* push() leaves the message refused, or accepted at the end of the queue of a
\* scheduler that is not being deinitialized.
LEMMA PushPasses ==
    ASSUME TypeOK, NEW m \in Msg, Push(m)
    PROVE  /\ Passes(m, {"checked"}, {"refused", "queued"})
           /\ UNCHANGED <<fired, worker>>
           /\ \/ queue' = queue /\ msg'[m].pc # "queued"
              \/ /\ queue' = Append(queue, m) /\ Len(queue) <= MAX_ELEMENT_IN_QUEUE
                 /\ sched.live /\ ~sched.in_deinit
<1>1. CASE Destroyed(m) /\ UsesDestroyed(m)
    BY <1>1, Zenon DEF Push, At, UsesDestroyed, Passes, domain, descriptors
<1>2. CASE ~(Destroyed(m) /\ UsesDestroyed(m))
    <2>1. ~Destroyed(m) /\ UNCHANGED <<domain, descriptors>> /\ msg[m].pc = "checked"
        BY <1>2 DEF Push, At
    <2>2. CASE sched.in_deinit \/ QueueFull
        <3>1. Moved(m, "refused") /\ queue' = queue
            BY <1>2, <2>2, GotoMoves DEF Push, Place
        <3> QED
            BY <2>1, <3>1 DEF Moved, Passes, domain, descriptors
    <2>3. CASE ~(sched.in_deinit \/ QueueFull)
        <3>1. Moved(m, "queued") /\ queue' = Append(queue, m)
            BY <1>2, <2>3, GotoMoves DEF Push, Place
        <3>2. Len(queue) <= MAX_ELEMENT_IN_QUEUE
            BY <2>3, DispatcherAssumption DEF QueueFull, TypeOK
        <3> QED
            BY <2>1, <2>3, <3>1, <3>2 DEF Passes, Destroyed, domain, descriptors
    <2> QED
        BY <2>2, <2>3
<1> QED
    BY <1>1, <1>2

\* The descriptor that is taken is one of the domain.
LEMMA TakePasses ==
    ASSUME TypeOK, NEW m \in Msg, TakeDescriptor(m)
    PROVE  /\ Passes(m, {"has"}, {"locking"})
           /\ UNCHANGED <<fired, worker, queue>>
           /\ msg' = msg \/ msg[m].action \in registered
<1>1. CASE Goto(m, "locking") /\ msg[m].action \in registered /\ UNCHANGED <<queue, crashed>>
    <2>1. Moved(m, "locking")
        BY <1>1, GotoMoves DEF Place
    <2> QED
        BY <1>1, <2>1 DEF TakeDescriptor, At, Passes, domain, descriptors
<1>2. CASE UNCHANGED <<msg, queue>>
    BY <1>2, Zenon DEF TakeDescriptor, At, Passes, domain, descriptors
<1> QED
    BY <1>1, <1>2, Zenon DEF TakeDescriptor, UsesDestroyed

\* setFired(true) and the test of what it returns, under the read lock.
LEMMA FirePasses ==
    ASSUME TypeOK, NEW m \in Msg, Fire(m)
    PROVE  /\ Passes(m, {"locking"}, {"fire"}) /\ Moved(m, "fire")
           /\ UNCHANGED <<worker, queue>>
           /\ SetFired(msg[m].action, TRUE)
<1>1. Moved(m, "fire")
    BY GotoMoves DEF Fire, Place
<1> QED
    BY <1>1, Zenon DEF Fire, At, Passes, domain

\* Only a caller that sees fired goes on; another leaves it false.
LEMMA CanFirePasses ==
    ASSUME TypeOK, Named, NEW m \in Msg, CanFire(m)
    PROVE  /\ Passes(m, {"fire"}, {"call", "dropped"})
           /\ UNCHANGED queue
           /\ \/ fired[msg[m].action] /\ Moved(m, "call") /\ UNCHANGED fired
              \/ /\ ~fired[msg[m].action] /\ Moved(m, "dropped")
                 /\ UNCHANGED fired \/ SetFired(msg[m].action, FALSE)
<1>1. CASE Goto(m, "call") /\ fired[msg[m].action] /\ UNCHANGED <<domain, queue, fired>>
    <2>1. Moved(m, "call")
        BY <1>1, GotoMoves DEF Place
    <2> QED
        BY <1>1, <2>1 DEF CanFire, At, Passes, domain
<1>2. CASE ~fired[msg[m].action] /\ Leaves(m, "dropped")
    <2>1. Moved(m, "dropped")
        BY <1>2, GotoMoves DEF Leaves, Place
    <2>2. UNCHANGED fired \/ SetFired(msg[m].action, FALSE)
        BY <1>2, Zenon DEF CanFire
    <2> QED
        BY <1>2, <2>1, <2>2, Zenon DEF CanFire, At, Passes, Leaves
<1> QED
    BY <1>1, <1>2, ZenonT(40) DEF CanFire

\* A caller of the handler, and the handler's return, change places only.
LEMMA CallPasses ==
    ASSUME TypeOK, NEW m \in Msg, Call(m) \/ Return(m)
    PROVE  /\ Passes(m, {"call", "calling"}, {"calling", "returned"})
           /\ UNCHANGED <<fired, worker, queue>>
<1>1. CASE Call(m)
    BY <1>1, GotoMoves DEF Call, At, Passes, Place, domain, descriptors
<1>2. CASE Return(m)
    BY <1>2, GotoMoves DEF Return, At, Passes, Place, domain, descriptors
<1> QED
    BY <1>1, <1>2

\* With the answer the caller gives up fired and the read lock.
LEMMA AnswerPasses ==
    ASSUME TypeOK, NEW m \in Msg, NEW needAnswer \in BOOLEAN, Answer(m, needAnswer)
    PROVE  /\ Passes(m, {"returned", "sub"}, {"called"})
           /\ UNCHANGED queue
           /\ \/ msg' = msg /\ UNCHANGED fired
              \/ Moved(m, "called") /\ SetFired(msg[m].action, FALSE)
<1>1. CASE needAnswer /\ ~sched.dispatcher
    BY <1>1, Zenon DEF Answer, At, Passes, domain
<1>2. CASE ~(needAnswer /\ ~sched.dispatcher)
    <2>1. SetFired(msg[m].action, FALSE) /\ Leaves(m, "called")
        BY <1>2, Zenon DEF Answer
    <2>2. Moved(m, "called")
        BY <2>1, GotoMoves DEF Leaves, Place
    <2> QED
        BY <2>1, <2>2, Zenon DEF Answer, At, Passes, Leaves
<1> QED
    BY <1>1, <1>2, Zenon

\* n starts as a message for a, while m, if it is another one, goes to p.
Born(n, a, m, p) ==
    /\ msg[n].pc = "none"
    /\ msg' \in [Msg -> Message]
    /\ \A k \in Msg :
          /\ msg'[k].pc = IF k = n THEN "new" ELSE IF k = m THEN p ELSE msg[k].pc
          /\ msg'[k].action = IF k = n THEN a ELSE msg[k].action

\* A submitted message is new, whoever had its place: nobody.
LEMMA SubmitBears ==
    ASSUME TypeOK, NEW m \in Msg, NEW kind \in Kinds, NEW a \in Action, Submit(m, kind, a)
    PROVE  Born(m, a, m, "new") /\ UNCHANGED <<domain, descriptors, queue>>
<1> DEFINE born == [New(kind, a) EXCEPT !.pc = "new"]
<1>1. born \in Message /\ born.pc = "new" /\ born.action = a
    BY DispatcherAssumption DEF New, Message, Place, Generation
<1>2. msg \in [Msg -> Message] /\ msg' = [msg EXCEPT ![m] = born]
    BY DEF TypeOK, Submit
<1>3. msg[m].pc = "none" /\ UNCHANGED <<domain, descriptors, queue>>
    BY DEF Submit, At
<1> HIDE DEF born
<1> QED
    BY <1>1, <1>2, <1>3 DEF Born

\* The sub command is a new message; its parent keeps the read lock.
LEMMA SubCommandBears ==
    ASSUME TypeOK, NEW m \in Msg, NEW n \in Msg, NEW a \in Action, SubCommand(m, n, a)
    PROVE  /\ msg[m].pc = "returned"
           /\ UNCHANGED <<domain, descriptors, queue>>
           /\ msg' = msg \/ Born(n, a, m, "sub")
<1>0. msg[m].pc = "returned" /\ msg[n].pc = "none" /\ UNCHANGED <<domain, descriptors, queue>>
    BY Zenon DEF SubCommand, At
<1>1. CASE sched.dispatcher
    <2> DEFINE born == [New("dispatch", a) EXCEPT !.pc = "new"]
               parent == [[msg[m] EXCEPT !.pc = "sub"] EXCEPT !.sub = n]
    <2>1. msg \in [Msg -> Message] /\ m # n
        BY <1>0 DEF TypeOK
    <2>2. born \in Message /\ born.pc = "new" /\ born.action = a
        BY DispatcherAssumption DEF New, Message, Place, Generation, Kinds
    <2>3. parent \in Message /\ parent.pc = "sub" /\ parent.action = msg[m].action
        <3> DEFINE waits == [msg[m] EXCEPT !.pc = "sub"]
        <3>1. msg[m] \in Message
            BY <2>1
        <3>2. waits \in Message /\ waits.pc = "sub" /\ waits.action = msg[m].action
            BY <3>1 DEF Message, Place
        <3>3. parent = [waits EXCEPT !.sub = n]
            OBVIOUS
        <3> HIDE DEF waits
        <3> QED
            BY <3>2, <3>3, Zenon DEF Message
    <2>4. msg' = [[msg EXCEPT ![m] = parent] EXCEPT ![n] = born]
        BY <1>1, <2>1, ZenonT(40) DEF SubCommand, Message
    <2> HIDE DEF born, parent
    <2> QED
        BY <1>0, <2>1, <2>2, <2>3, <2>4 DEF Born
<1>2. CASE ~sched.dispatcher
    BY <1>0, <1>2, Zenon DEF SubCommand
<1> QED
    BY <1>0, <1>1, <1>2

\* The worker takes the head of the queue.
LEMMA PopMoves ==
    ASSUME TypeOK, QueueIsQueued, Pop
    PROVE  /\ Head(queue) \in Msg /\ msg[Head(queue)].pc = "queued" /\ Moved(Head(queue), "popped")
           /\ queue # <<>> /\ queue' = Tail(queue) /\ worker' = Head(queue)
<1>1. Head(queue) \in Msg /\ msg[Head(queue)].pc = "queued"
    BY DEF Pop, TypeOK, QueueIsQueued
<1> QED
    BY <1>1, GotoMoves DEF Pop, Place

\* clear() drops what is queued and nothing else.
LEMMA ClearDrops ==
    ASSUME TypeOK, Clear
    PROVE  /\ msg' \in [Msg -> Message]
           /\ \A m \in Msg : /\ msg'[m].action = msg[m].action
                             /\ msg'[m].pc = IF msg[m].pc = "queued" THEN "dropped" ELSE msg[m].pc
<1>1. msg \in [Msg -> Message]
    BY DEF TypeOK
<1>2. \A m \in Msg : LET dropped == [msg[m] EXCEPT !.pc = "dropped"]
                     IN  /\ dropped \in Message
                         /\ dropped.pc = "dropped" /\ dropped.action = msg[m].action
    BY <1>1 DEF Message, Place
<1>3. msg' = [m \in Msg |-> IF msg[m].pc = "queued" THEN [msg[m] EXCEPT !.pc = "dropped"] ELSE msg[m]]
    BY DEF Clear
<1> QED
    BY <1>1, <1>2, <1>3
===============================================================================
