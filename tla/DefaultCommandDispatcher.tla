---------------------- MODULE DefaultCommandDispatcher ----------------------
(***************************************************************************)
(* The RPC command dispatcher of a node: DefaultCommandDispatcher, the     *)
(* DomainActionsScheduler it keeps for a domain, the CObjectProcessingQueue *)
(* and worker thread under it, and the action descriptors they call.       *)
(*                                                                         *)
(* One domain is modelled; every action is declared by an instance of its  *)
(* own, as the dispatcher's own echoTest and checkDomain are.  Every       *)
(* message is submitted by a thread of its own, either through             *)
(* dispatchCommand ("dispatch": it is queued and the worker calls the      *)
(* action) or through executeCommandSync ("sync": the submitting thread    *)
(* calls it).  One owner thread registers and deregisters actions: those   *)
(* calls hold das_map_mutex from end to end.  dispatchCommand and          *)
(* executeCommandSync read das_map without it, so each of their accesses   *)
(* is a step.  A null or destroyed object that is used ends the process    *)
(* (crashed).                                                              *)
(***************************************************************************)
EXTENDS Naturals, Sequences, FiniteSets

CONSTANTS
    Msg,                    \* the messages submitted
    Action,                 \* the action descriptors of the domain
    Checking,               \* those whose handler calls hasDomain() (checkDomain)
    MAX_ELEMENT_IN_QUEUE,   \* CObjectProcessingQueue_MAX_ELEMENT_IN_QUEUE
    MaxOwnerCalls           \* bound: calls of the owner thread

ASSUME DispatcherAssumption ==
    /\ Checking \subseteq Action
    /\ Msg \cap {"none", "idle", "ended"} = {}
    /\ MAX_ELEMENT_IN_QUEUE \in Nat
    /\ MaxOwnerCalls \in Nat

VARIABLES
    das,         \* das_map's entry: the generation of a scheduler, 0 when absent
    sched,       \* the scheduler last built, with the flags of its queue
    queue,       \* its buffer_queue
    worker,      \* its thread: "none", "idle", "ended" or the message it serves
    registered,  \* actionDescriptionsMap of the domain
    enabled,     \* of every action descriptor
    fired,       \* of every action descriptor
    msg,         \* how far every message has come
    owner,       \* the registration call in progress
    ownerCalls,
    crashed

vars == <<das, sched, queue, worker, registered, enabled, fired, msg, owner, ownerCalls, crashed>>

domain == <<das, sched, worker, registered, owner, ownerCalls>>
descriptors == <<enabled, fired>>

Kinds == {"dispatch", "sync"}
New(kind, a) == [pc |-> "none", kind |-> kind, action |-> a, gen |-> 0, sub |-> "none"]
NoOwner == [pc |-> "idle", kind |-> "none", action |-> "none"]

Init ==
    /\ das = 0
    /\ sched = [gen |-> 0, live |-> FALSE, armed |-> FALSE, in_deinit |-> FALSE, dispatcher |-> FALSE]
    /\ queue = <<>>
    /\ worker = "none"
    /\ registered = {}
    /\ enabled = [a \in Action |-> TRUE]
    /\ fired = [a \in Action |-> FALSE]
    /\ msg = [m \in Msg |-> New("none", "none")]
    /\ owner = NoOwner
    /\ ownerCalls = 0
    /\ crashed = "no"

-----------------------------------------------------------------------------
(* Submission: das_map.count(), das_map[], the scheduler's own checks, the  *)
(* queue.                                                                   *)

At(m, pc) == crashed = "no" /\ msg[m].pc = pc
Goto(m, pc) == msg' = [msg EXCEPT ![m].pc = pc]
Crash(why) == crashed' = why

Submit(m, kind, a) ==
    /\ At(m, "none")
    /\ msg' = [msg EXCEPT ![m] = [New(kind, a) EXCEPT !.pc = "new"]]
    /\ UNCHANGED <<domain, descriptors, queue, crashed>>

FindDomain(m) ==
    /\ At(m, "new")
    /\ Goto(m, IF das = 0 THEN "refused" ELSE "counted")
    /\ UNCHANGED <<domain, descriptors, queue, crashed>>

\* operator[] builds a null entry for a domain erased since count().
TakeScheduler(m) ==
    /\ At(m, "counted")
    /\ IF das = 0 THEN Crash("null scheduler") /\ UNCHANGED msg
       ELSE msg' = [msg EXCEPT ![m].pc = "found", ![m].gen = das] /\ UNCHANGED crashed
    /\ UNCHANGED <<domain, descriptors, queue>>

Destroyed(m) == ~sched.live \/ msg[m].gen # sched.gen
UsesDestroyed(m) == Crash("destroyed scheduler") /\ UNCHANGED <<msg, queue>>

\* push() throws when not armed, both calls refuse an action that is not there.
CheckAction(m) ==
    /\ At(m, "found")
    /\ \/ Destroyed(m) /\ UsesDestroyed(m)
       \/ /\ ~Destroyed(m)
          /\ LET ok == /\ msg[m].kind = "dispatch" => sched.armed
                       /\ msg[m].action \in registered
             IN  Goto(m, IF ~ok THEN "refused"
                         ELSE IF msg[m].kind = "dispatch" THEN "checked" ELSE "has")
          /\ UNCHANGED <<queue, crashed>>
    /\ UNCHANGED <<domain, descriptors>>

QueueFull_OffByOne == Len(queue) > MAX_ELEMENT_IN_QUEUE + 1

QueueFull == Len(queue) > MAX_ELEMENT_IN_QUEUE

Push(m) ==
    /\ At(m, "checked")
    /\ \/ Destroyed(m) /\ UsesDestroyed(m)
       \/ /\ ~Destroyed(m)
          /\ IF sched.in_deinit \/ QueueFull
             THEN Goto(m, "refused") /\ UNCHANGED queue
             ELSE Goto(m, "queued") /\ queue' = Append(queue, m)
          /\ UNCHANGED crashed
    /\ UNCHANGED <<domain, descriptors>>

-----------------------------------------------------------------------------
(* The worker thread, and the call of an action on whichever thread does it. *)

Pop ==
    /\ crashed = "no"
    /\ worker = "idle"
    /\ queue # <<>>
    /\ worker' = Head(queue)
    /\ queue' = Tail(queue)
    /\ Goto(Head(queue), "popped")
    /\ UNCHANGED <<das, sched, registered, owner, ownerCalls, descriptors, crashed>>

WorkerEnds ==
    /\ crashed = "no"
    /\ worker = "idle"
    /\ sched.in_deinit
    /\ worker' = "ended"
    /\ UNCHANGED <<das, sched, registered, owner, ownerCalls, descriptors, queue, msg, crashed>>

Leaves_Stuck(m, pc) ==
    /\ Goto(m, pc)
    /\ worker' = IF worker = m /\ pc # "dropped" THEN "idle" ELSE worker
    /\ UNCHANGED <<das, sched, registered, owner, ownerCalls, queue>>

\* The thread serving m is done with it and, if it is the worker, loops.
Leaves(m, pc) ==
    /\ Goto(m, pc)
    /\ worker' = IF worker = m THEN "idle" ELSE worker
    /\ UNCHANGED <<das, sched, registered, owner, ownerCalls, queue>>

\* processBufferElement() looks the action up again: nobody is told when it is gone.
LookUp(m) ==
    /\ At(m, "popped")
    /\ IF msg[m].action \in registered
       THEN Goto(m, "has") /\ UNCHANGED <<domain, queue>>
       ELSE Leaves(m, "dropped")
    /\ UNCHANGED <<descriptors, crashed>>

\* actionDescriptionsMap[] builds a null descriptor for an action erased since.
\* A synchronous caller reaches it through a scheduler that may be gone; the worker
\* is joined before its scheduler goes.
TakeDescriptor(m) ==
    /\ At(m, "has")
    /\ \/ msg[m].kind = "sync" /\ Destroyed(m) /\ UsesDestroyed(m)
       \/ /\ ~(msg[m].kind = "sync" /\ Destroyed(m))
          /\ IF msg[m].action \in registered
             THEN Goto(m, "locking") /\ UNCHANGED crashed
             ELSE Crash("null action") /\ UNCHANGED msg
          /\ UNCHANGED queue
    /\ UNCHANGED <<domain, descriptors>>

HoldsReadLock(m) == msg[m].pc \in {"fire", "call", "calling", "returned", "sub"}
WriterWaits(a) == owner.pc = "disable" /\ owner.action = a

SetFired_Always(a, f) == fired' = [fired EXCEPT ![a] = f]

SetFired(a, f) == fired' = [fired EXCEPT ![a] = f /\ enabled[a]]

\* The read lock, shared with every other caller, and the write of setFired(true).
Fire(m) ==
    /\ At(m, "locking")
    /\ ~WriterWaits(msg[m].action)
    /\ SetFired(msg[m].action, TRUE)
    /\ Goto(m, "fire")
    /\ UNCHANGED <<domain, enabled, queue, crashed>>

\* setFired() returns the member another caller may have written in between.
CanFire(m) ==
    /\ At(m, "fire")
    /\ \/ fired[msg[m].action] /\ Goto(m, "call") /\ UNCHANGED <<domain, queue, fired>>
       \/ /\ ~fired[msg[m].action]
          /\ IF msg[m].kind = "sync" THEN SetFired(msg[m].action, FALSE) ELSE UNCHANGED fired
          /\ Leaves(m, "dropped")
    /\ UNCHANGED <<enabled, crashed>>

\* An action that is not shared is called by one thread at a time.
Call(m) ==
    /\ At(m, "call")
    /\ \A n \in Msg : ~(msg[n].pc = "calling" /\ msg[n].action = msg[m].action)
    /\ Goto(m, "calling")
    /\ UNCHANGED <<domain, descriptors, queue, crashed>>

HoldsDasLock_Deinit == owner.kind \in {"deregister", "deinit"} \/ owner.pc = "bind"

HoldsDasLock == owner.kind = "deregister" \/ owner.pc = "bind"

\* The handler returns or throws; checkDomain() reads das_map under its mutex first.
Return(m) ==
    /\ At(m, "calling")
    /\ msg[m].action \in Checking => ~HoldsDasLock
    /\ Goto(m, "returned")
    /\ UNCHANGED <<domain, descriptors, queue, crashed>>

\* The worker dispatches the sub command n of m, on its own thread.
SubCommand(m, n, a) ==
    /\ At(m, "returned") /\ worker = m
    /\ msg[n].pc = "none"
    /\ IF sched.dispatcher
       THEN /\ msg' = [msg EXCEPT ![m].pc = "sub", ![m].sub = n,
                                  ![n] = [New("dispatch", a) EXCEPT !.pc = "new"]]
            /\ UNCHANGED crashed
       ELSE Crash("null dispatcher") /\ UNCHANGED msg
    /\ UNCHANGED <<domain, descriptors, queue>>

SubDispatched(m) == msg[msg[m].sub].pc \notin {"new", "counted", "found", "checked"}

\* The worker sends the answer, when one is asked for, through its dispatcher; the
\* action is no more fired.
Answer(m, needAnswer) ==
    /\ At(m, "returned") \/ (At(m, "sub") /\ SubDispatched(m))
    /\ needAnswer => worker = m
    /\ IF needAnswer /\ ~sched.dispatcher
       THEN Crash("null dispatcher") /\ UNCHANGED <<msg, domain, queue, fired>>
       ELSE /\ SetFired(msg[m].action, FALSE)
            /\ Leaves(m, "called")
            /\ UNCHANGED crashed
    /\ UNCHANGED enabled

-----------------------------------------------------------------------------
(* registerAction, deregisterAction and deinit.                             *)

Starts(kind, a, pc) ==
    /\ crashed = "no"
    /\ owner.pc = "idle"
    /\ ownerCalls < MaxOwnerCalls
    /\ owner' = IF pc = "idle" THEN NoOwner ELSE [pc |-> pc, kind |-> kind, action |-> a]
    /\ ownerCalls' = ownerCalls + 1

OwnerAt(pc) == crashed = "no" /\ owner.pc = pc
OwnerGoes(pc) == owner' = IF pc = "idle" THEN NoOwner ELSE [owner EXCEPT !.pc = pc]

\* The action enters the domain and, for a new domain, a scheduler enters das_map
\* with its thread running: setDispatcher() comes after.
RegisterAction(a) ==
    /\ a \notin registered
    /\ \A m \in Msg : ~(HoldsReadLock(m) /\ msg[m].action = a)
    /\ registered' = registered \cup {a}
    /\ enabled' = [enabled EXCEPT ![a] = TRUE]
    /\ IF das = 0
       THEN /\ Starts("register", a, "bind")
            /\ das' = sched.gen + 1
            /\ sched' = [gen |-> sched.gen + 1, live |-> TRUE, armed |-> TRUE,
                         in_deinit |-> FALSE, dispatcher |-> FALSE]
            /\ worker' = "idle"
       ELSE /\ Starts("register", a, "idle")
            /\ UNCHANGED <<das, sched, worker>>
    /\ UNCHANGED <<queue, fired, msg, crashed>>

SetDispatcher ==
    /\ OwnerAt("bind")
    /\ sched' = [sched EXCEPT !.dispatcher = TRUE]
    /\ OwnerGoes("idle")
    /\ UNCHANGED <<das, queue, worker, registered, descriptors, msg, ownerCalls, crashed>>

DeregisterAction(a) ==
    /\ a \in registered
    /\ Starts("deregister", a, "disable")
    /\ UNCHANGED <<das, sched, queue, worker, registered, descriptors, msg, crashed>>

\* setEnabled(false) takes the write lock: it waits for whoever is calling.
SetDisabled ==
    /\ OwnerAt("disable")
    /\ \A m \in Msg : ~(HoldsReadLock(m) /\ msg[m].action = owner.action)
    /\ enabled' = [enabled EXCEPT ![owner.action] = FALSE]
    /\ OwnerGoes("erase")
    /\ UNCHANGED <<das, sched, queue, worker, registered, fired, msg, ownerCalls, crashed>>

\* With its last action the domain leaves das_map and its scheduler is deinitialized.
Erase ==
    /\ OwnerAt("erase")
    /\ registered' = registered \ {owner.action}
    /\ IF registered' = {}
       THEN das' = 0 /\ OwnerGoes("clear")
       ELSE UNCHANGED das /\ OwnerGoes("idle")
    /\ UNCHANGED <<sched, queue, worker, descriptors, msg, ownerCalls, crashed>>

Deinit ==
    /\ das # 0
    /\ Starts("deinit", "none", "clear")
    /\ UNCHANGED <<das, sched, queue, worker, registered, descriptors, msg, crashed>>

Clear ==
    /\ OwnerAt("clear")
    /\ msg' = [m \in Msg |-> IF msg[m].pc = "queued" THEN [msg[m] EXCEPT !.pc = "dropped"] ELSE msg[m]]
    /\ queue' = <<>>
    /\ OwnerGoes("drain")
    /\ UNCHANGED <<das, sched, worker, registered, descriptors, ownerCalls, crashed>>

Drain_NoWait ==
    /\ OwnerAt("drain")
    /\ sched' = [sched EXCEPT !.in_deinit = TRUE]
    /\ OwnerGoes("join")
    /\ UNCHANGED <<das, queue, worker, registered, descriptors, msg, ownerCalls, crashed>>

\* The queue is seen empty and in_deinit set under one hold of qMutex.
Drain ==
    /\ OwnerAt("drain")
    /\ queue = <<>>
    /\ sched' = [sched EXCEPT !.in_deinit = TRUE]
    /\ OwnerGoes("join")
    /\ UNCHANGED <<das, queue, worker, registered, descriptors, msg, ownerCalls, crashed>>

Join ==
    /\ OwnerAt("join")
    /\ worker = "ended"
    /\ sched' = [sched EXCEPT !.armed = FALSE]
    /\ worker' = "none"
    /\ OwnerGoes("dispose")
    /\ UNCHANGED <<das, queue, registered, descriptors, msg, ownerCalls, crashed>>

\* The last reference goes; after deinit() the dispatcher serves nobody.
Dispose ==
    /\ OwnerAt("dispose")
    /\ das' = 0
    /\ sched' = [sched EXCEPT !.live = FALSE]
    /\ OwnerGoes(IF owner.kind = "deinit" THEN "gone" ELSE "idle")
    /\ UNCHANGED <<queue, worker, registered, descriptors, msg, ownerCalls, crashed>>

-----------------------------------------------------------------------------
Serve(m) ==
    \/ FindDomain(m) \/ TakeScheduler(m) \/ CheckAction(m) \/ Push(m)
    \/ LookUp(m) \/ TakeDescriptor(m) \/ Fire(m) \/ CanFire(m) \/ Call(m) \/ Return(m)
    \/ \E needAnswer \in BOOLEAN : Answer(m, needAnswer)

Working == Pop \/ WorkerEnds

Owning == SetDispatcher \/ SetDisabled \/ Erase \/ Clear \/ Drain \/ Join \/ Dispose

Next ==
    \/ \E m \in Msg : FindDomain(m)
    \/ \E m \in Msg : TakeScheduler(m)
    \/ \E m \in Msg : CheckAction(m)
    \/ \E m \in Msg : Push(m)
    \/ \E m \in Msg : LookUp(m)
    \/ \E m \in Msg : TakeDescriptor(m)
    \/ \E m \in Msg : Fire(m)
    \/ \E m \in Msg : CanFire(m)
    \/ \E m \in Msg : Call(m)
    \/ \E m \in Msg : Return(m)
    \/ \E m, n \in Msg, a \in Action : SubCommand(m, n, a)
    \/ \E m \in Msg, needAnswer \in BOOLEAN : Answer(m, needAnswer)
    \/ \E m \in Msg, kind \in Kinds, a \in Action : Submit(m, kind, a)
    \/ \E a \in Action : RegisterAction(a)
    \/ \E a \in Action : DeregisterAction(a)
    \/ Deinit
    \/ Pop
    \/ WorkerEnds
    \/ SetDispatcher
    \/ SetDisabled
    \/ Erase
    \/ Clear
    \/ Drain
    \/ Join
    \/ Dispose

\* Every thread in the middle of a call is scheduled; nobody has to start one.
Fairness ==
    /\ \A m \in Msg : WF_vars(Serve(m))
    /\ WF_vars(Working)
    /\ WF_vars(Owning)

Spec == Init /\ [][Next]_vars
FairSpec == Spec /\ Fairness

-----------------------------------------------------------------------------
Place == {"none", "new", "counted", "found", "checked", "queued", "popped", "has", "locking",
          "fire", "call", "calling", "returned", "sub", "refused", "dropped", "called"}
OwnerPlace == {"idle", "bind", "disable", "erase", "clear", "drain", "join", "dispose", "gone"}
Generation == 0 .. MaxOwnerCalls
Message == [pc : Place, kind : Kinds \cup {"none"}, action : Action \cup {"none"},
            gen : Generation, sub : Msg \cup {"none"}]

\* The dispatcher's state is well formed; the queue may hold one element more than
\* CObjectProcessingQueue_MAX_ELEMENT_IN_QUEUE, since push() compares with ">".
TypeOK ==
    /\ das \in Generation
    /\ sched \in [gen : Generation, live : BOOLEAN, armed : BOOLEAN, in_deinit : BOOLEAN,
                  dispatcher : BOOLEAN]
    /\ queue \in Seq(Msg) /\ Len(queue) <= MAX_ELEMENT_IN_QUEUE + 1
    /\ worker \in {"none", "idle", "ended"} \cup Msg
    /\ registered \subseteq Action
    /\ enabled \in [Action -> BOOLEAN] /\ fired \in [Action -> BOOLEAN]
    /\ msg \in [Msg -> Message]
    /\ owner \in [pc : OwnerPlace, kind : {"none", "register", "deregister", "deinit"},
                  action : Action \cup {"none"}]
    /\ ownerCalls \in 0 .. MaxOwnerCalls

\* The handler of an action runs only while the action is in its domain and enabled:
\* deregisterAction() returns once nobody is inside the object that declared it, and
\* a caller that took the descriptor before does not get in after.
CalledWhileEnabled ==
    \A m \in Msg : msg[m].pc = "calling" => msg[m].action \in registered /\ enabled[msg[m].action]

\* A message that push() accepted is in the queue of a scheduler whose thread has not
\* ended: deinit() leaves nothing behind in a queue nobody serves.
QueuedHasAWorker ==
    \A m \in Msg : msg[m].pc = "queued" => sched.live /\ worker \notin {"none", "ended"}

\* The owner waits for a call of checkDomain, which waits for the das_map_mutex the
\* owner holds: deregistering checkDomain while it runs, as stop() may, never ends.
WaitForEachOther ==
    /\ owner.pc = "disable" /\ owner.action \in Checking
    /\ \E m \in Msg : msg[m].pc = "calling" /\ msg[m].action = owner.action

\* A message accepted by dispatchCommand() is called or dropped in the end, whatever
\* is registered and deregistered meanwhile, except for that deadlock.
AcceptedIsServed ==
    \A m \in Msg : msg[m].pc = "queued" ~>
        (msg[m].pc \in {"called", "dropped"} \/ crashed # "no" \/ WaitForEachOther)

\* registerAction(), deregisterAction() and deinit() return, except for that deadlock.
OwnerReturns ==
    owner.pc # "idle" ~> (owner.pc \in {"idle", "gone"} \/ crashed # "no" \/ WaitForEachOther)

\* "submit the action(Thread Safe)": no submission meets a null or destroyed object.
SubmitIsThreadSafe ==
    crashed \notin {"null scheduler", "destroyed scheduler", "null action"}
=============================================================================
