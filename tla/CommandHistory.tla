--------------------------- MODULE CommandHistory ---------------------------
(***************************************************************************)
(* The history of command states that BatchCommandExecutor keeps for its   *)
(* clients: a queue of states in order of submission and a map from        *)
(* command id to state, fed by the events of the sandboxes, capped by a    *)
(* timer, flushed and read.                                                *)
(*                                                                         *)
(* The sandboxes (execution channels) appear by their events only, in the  *)
(* order that CommandLifecycle guarantees (EventsInOrder).  Each numbers   *)
(* its own commands from 1.  A command is <<channel, id>>, and names the   *)
(* CommandState object made for it too: queue and map hold shared pointers *)
(* to the same objects.                                                    *)
(*                                                                         *)
(* command_state_rwmutex is held for upgrade by flushCommandStates() over  *)
(* its whole loop, where events that only take it shared still come in.    *)
(***************************************************************************)
EXTENDS Integers, Sequences, FiniteSets, SequencesExt, CommandEvents

CONSTANTS
    Channel,          \* the execution channels
    MaxCmd,           \* bound on the commands of a channel
    MaxSize           \* command_state_queue_max_size

ASSUME SizeAssumption == MaxSize \in Nat \ {0} /\ MaxCmd \in Nat

Id == 1 .. MaxCmd
Command == Channel \X Id
NoCommand == <<>>
IdOf(c) == c[2]

VARIABLES
    serviceState,     \* of the executor: "START" or "STOP"
    sequence_id,      \* command_sequence_id of each sandbox
    fired,            \* the last event that a sandbox fired for a command
    submitting,       \* command whose submission has not returned
    queue,            \* command_state_queue
    map,              \* command_state_fast_access_map
    last_event,       \* of each CommandState
    flushing,         \* flushCommandStates() is in its loop
    waiter            \* a client in waitOnCommandID()

history == <<queue, map, last_event>>
sandboxes == <<sequence_id, fired>>
vars == <<serviceState, sandboxes, submitting, history, flushing, waiter>>

Ended(e) == e \in Left

Init ==
    /\ serviceState = "START"
    /\ sequence_id = [ch \in Channel |-> 0]
    /\ fired = [c \in Command |-> "none"]
    /\ submitting = NoCommand
    /\ queue = <<>>
    /\ map = [i \in Id |-> NoCommand]
    /\ last_event = [c \in Command |-> "none"]
    /\ flushing = FALSE
    /\ waiter = [cmd |-> NoCommand, result |-> "none"]

\* std::map::insert(): an entry that is present stays.
Inserted(i, c) ==
    IF map[i] = NoCommand THEN [map EXCEPT ![i] = c] ELSE map

AddCommandState(c) ==
    /\ last_event' = [last_event EXCEPT ![c] = "QUEUED"]
    /\ queue' = Append(queue, c)
    /\ map' = Inserted(IdOf(c), c)

\* The counter stays.
AddCommandID_Same(ch) == UNCHANGED sequence_id

AddCommandID(ch) == sequence_id' = [sequence_id EXCEPT ![ch] = @ + 1]

\* submitCommand() holds sandbox_map_mutex; enqueueCommand() gives the id and
\* fires EVT_QUEUED before the command can run.
SubmitCommand(ch) ==
    /\ serviceState = "START"
    /\ submitting = NoCommand
    /\ ~flushing
    /\ sequence_id[ch] < MaxCmd
    /\ LET c == <<ch, sequence_id[ch] + 1>> IN
          /\ AddCommandID(ch)
          /\ fired' = [fired EXCEPT ![c] = "QUEUED"]
          /\ submitting' = c
          /\ AddCommandState(c)
    /\ UNCHANGED <<serviceState, flushing, waiter>>

\* submitCommand() reads the id from the command and returns.
ReportId ==
    /\ submitting # NoCommand
    /\ submitting' = NoCommand
    /\ UNCHANGED <<serviceState, sequence_id, fired, history, flushing, waiter>>

\* Fatal faults are not recorded.
HandleCommandEvent_NoFatal(c, e) ==
    LET s == map[IdOf(c)] IN
    last_event' = IF s = NoCommand \/ e = "FATAL_FAULT" THEN last_event
                                   ELSE [last_event EXCEPT ![s] = e]

\* handleCommandEvent(), for all events but EVT_QUEUED: the state is looked up
\* by id, under the shared lock.
HandleCommandEvent(c, e) ==
    LET s == map[IdOf(c)] IN
    last_event' = IF s = NoCommand THEN last_event
                                   ELSE [last_event EXCEPT ![s] = e]

CommandEvent(c) ==
    /\ fired[c] \in Live
    /\ \E e \in Follows(fired[c]) :
          /\ e \in {"RUNNING", "PAUSED"} => serviceState = "START"
          /\ fired' = [fired EXCEPT ![c] = e]
          /\ HandleCommandEvent(c, e)
    /\ UNCHANGED <<serviceState, sequence_id, submitting, queue, map,
                   flushing, waiter>>

StartExecutor ==
    /\ serviceState = "STOP"
    /\ serviceState' = "START"
    /\ UNCHANGED <<sandboxes, submitting, history, flushing, waiter>>

\* stop() removes the timer; what the history holds stays.
StopExecutor ==
    /\ serviceState = "START" /\ submitting = NoCommand
    /\ serviceState' = "STOP"
    /\ UNCHANGED <<sandboxes, submitting, history, flushing, waiter>>

\* The number of ended states among the first p of the queue.
EndedUpTo(p) == Cardinality({i \in 1 .. p : Ended(last_event[queue[i]])})

\* How far the loop of capCommanaQueue() pops: until the queue is short enough
\* or empty.
CapScan ==
    LET n == Len(queue) - MaxSize
        enough == {p \in 1 .. Len(queue) : EndedUpTo(p) = n}
    IN  IF enough = {} THEN Len(queue) ELSE CHOOSE p \in enough : \A q \in enough : p <= q

\* Commands that have not ended are dropped too.
CapQueue_AnyState == SubSeq(queue, Len(queue) - MaxSize + 1, Len(queue))

\* What is kept is pushed again at the front, one by one.
CapQueue ==
    LET Kept(c) == ~Ended(last_event[c])
    IN  Reverse(SelectSeq(SubSeq(queue, 1, CapScan), Kept))
           \o SubSeq(queue, CapScan + 1, Len(queue))

\* The map keeps the states that the queue drops.
Erased_Nothing(S) == map

Erased(S) == [i \in Id |-> IF \E c \in S : IdOf(c) = i THEN NoCommand ELSE map[i]]

\* capCommanaQueue(), called by the timer.
Timeout ==
    /\ serviceState = "START"
    /\ ~flushing
    /\ Len(queue) > MaxSize
    /\ LET dropped == {queue[i] : i \in {j \in 1 .. CapScan : Ended(last_event[queue[j]])}}
       IN  map' = Erased(dropped)
    /\ queue' = CapQueue
    /\ UNCHANGED <<serviceState, sandboxes, submitting, last_event, flushing, waiter>>

FlushBegin ==
    /\ ~flushing
    /\ flushing' = TRUE
    /\ UNCHANGED <<serviceState, sandboxes, submitting, history, waiter>>

\* One turn of the loop of flushCommandStates().
FlushStep ==
    /\ flushing
    /\ IF queue # <<>> /\ Ended(last_event[Last(queue)])
       THEN /\ map' = Erased({Last(queue)})
            /\ queue' = Front(queue)
            /\ UNCHANGED <<last_event, flushing>>
       ELSE /\ flushing' = FALSE
            /\ UNCHANGED history
    /\ UNCHANGED <<serviceState, sandboxes, submitting, waiter>>

\* A client calls waitOnCommandID() for a command that it has submitted.
WaitBegin ==
    /\ waiter.result # "waiting"
    /\ \E c \in Command :
          /\ fired[c] # "none" /\ submitting # c
          /\ waiter' = [cmd |-> c, result |-> "waiting"]
    /\ UNCHANGED <<serviceState, sandboxes, submitting, history, flushing>>

\* A command that the history does not know counts as completed.
WaitPoll_GoneIsDone ==
    /\ waiter.result = "waiting"
    /\ map[IdOf(waiter.cmd)] = NoCommand
    /\ waiter' = [waiter EXCEPT !.result = "true"]
    /\ UNCHANGED <<serviceState, sandboxes, submitting, history, flushing>>

\* The loop goes on when the command was killed.
WaitPoll_NoKilled ==
    /\ waiter.result = "waiting"
    /\ LET s == map[IdOf(waiter.cmd)] IN
          \/ /\ s = NoCommand
             /\ waiter' = [waiter EXCEPT !.result = "false"]
          \/ /\ s # NoCommand
             /\ last_event[s] \in {"COMPLETED", "FAULT"}
             /\ waiter' = [waiter EXCEPT !.result =
                              IF last_event[s] = "COMPLETED" THEN "true" ELSE "false"]
    /\ UNCHANGED <<serviceState, sandboxes, submitting, history, flushing>>

\* One turn of its loop: the state is copied under the shared lock.
WaitPoll ==
    /\ waiter.result = "waiting"
    /\ LET s == map[IdOf(waiter.cmd)] IN
          \/ /\ s = NoCommand
             /\ waiter' = [waiter EXCEPT !.result = "false"]
          \/ /\ s # NoCommand
             /\ last_event[s] \in {"COMPLETED", "FAULT", "KILLED"}
             /\ waiter' = [waiter EXCEPT !.result =
                              IF last_event[s] = "COMPLETED" THEN "true" ELSE "false"]
    /\ UNCHANGED <<serviceState, sandboxes, submitting, history, flushing>>

Next ==
    \/ \E ch \in Channel : SubmitCommand(ch)
    \/ ReportId
    \/ \E c \in Command : CommandEvent(c)
    \/ StartExecutor
    \/ StopExecutor
    \/ Timeout
    \/ FlushBegin
    \/ FlushStep
    \/ WaitBegin
    \/ WaitPoll

Spec == Init /\ [][Next]_vars

\* The timer fires while the executor is started, the loops of a flush and of a
\* waiting client go on.
FairSpec ==
    /\ Spec
    /\ WF_vars(Timeout)
    /\ WF_vars(FlushStep)
    /\ WF_vars(WaitPoll)

(***************************************************************************)
(* Properties.                                                             *)
(***************************************************************************)
\* The types; and the ids that addCommandID() has given are those of the
\* commands that exist, from 1 without gaps.
TypeOK ==
    /\ \A c \in Command : fired[c] # "none" <=> IdOf(c) <= sequence_id[c[1]]
    /\ serviceState \in {"START", "STOP"}
    /\ sequence_id \in [Channel -> 0 .. MaxCmd]
    /\ fired \in [Command -> {"none"} \cup Live \cup Left]
    /\ submitting \in Command \cup {NoCommand}
    /\ queue \in Seq(Command)
    /\ map \in [Id -> Command \cup {NoCommand}]
    /\ last_event \in [Command -> {"none"} \cup Live \cup Left]
    /\ flushing \in BOOLEAN
    /\ waiter \in [cmd : Command \cup {NoCommand},
                   result : {"none", "waiting", "true", "false"}]

\* A command that has not ended is in the history under its id, with the last
\* event fired for it, whatever capCommanaQueue() and flushCommandStates() drop
\* meanwhile.
LiveIsKnown ==
    \A c \in Command : fired[c] \in Live =>
        /\ map[IdOf(c)] = c
        /\ last_event[c] = fired[c]
        /\ Contains(queue, c)

\* The queue and the map hold the same states, once each: a state that only one
\* of them holds would never be dropped, or never found.
QueueAndMapAgree ==
    /\ IsInjective(queue)
    /\ \A c \in Command : Contains(queue, c) <=> map[IdOf(c)] = c

\* waitOnCommandID() says that a command completed only if it did.
WaitIsTruthful == waiter.result = "true" => fired[waiter.cmd] = "COMPLETED"

\* Once all commands have ended and the executor stays started, the cap brings
\* the history within its maximum size for good.
HistoryShrinks ==
    <>[](serviceState = "START" /\ \A c \in Command : fired[c] \notin Live)
        => <>[](Len(queue) <= MaxSize)

\* waitOnCommandID() returns once the command has completed, faulted or was
\* killed; a command that ended with a fatal fault or was dequeued is not among
\* the ends it tests.
WaitReturns ==
    (waiter.result = "waiting" /\ fired[waiter.cmd] \in {"COMPLETED", "FAULT", "KILLED"})
        ~> waiter.result # "waiting"
=============================================================================
