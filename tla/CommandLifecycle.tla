-------------------------- MODULE CommandLifecycle --------------------------
(***************************************************************************)
(* What the batch command sandbox promises to the clients that submit      *)
(* commands and follow their events (BatchCommandEventType): one command   *)
(* runs at a time, a command that is preempted resumes when the one that   *)
(* preempted it has left, last paused first, and a command that has left   *)
(* never comes back.                                                       *)
(***************************************************************************)
EXTENDS Integers, Sequences, CommandEvents

CONSTANT Cmd            \* the ids of the commands, from 1

VARIABLES status,       \* the last event of each command
          paused        \* the paused commands, the last one at the end

lvars == <<status, paused>>

Gone == Left \ {"DEQUEUE"}

Running == {c \in Cmd : status[c] = "RUNNING"}
Queued == {c \in Cmd : status[c] = "QUEUED"}

LInit == status = [c \in Cmd |-> "none"] /\ paused = <<>>

\* Ids are given in order.
Submit ==
    \E c \in Cmd :
        /\ status[c] = "none"
        /\ \A d \in Cmd : d < c => status[d] # "none"
        /\ status' = [status EXCEPT ![c] = "QUEUED"]
        /\ UNCHANGED paused

\* A queued command starts on an idle sandbox.
StartQueued ==
    \E d \in Queued :
        /\ Running = {} /\ paused = <<>>
        /\ status' = [status EXCEPT ![d] = "RUNNING"]
        /\ UNCHANGED paused

\* A queued command preempts the running one.
Preempt ==
    \E c \in Running, d \in Queued :
        /\ status' = [status EXCEPT ![c] = "PAUSED", ![d] = "RUNNING"]
        /\ paused' = Append(paused, c)

\* A queued command takes the place of the running one, which leaves.
Replace ==
    \E c \in Running, d \in Queued, e \in Gone :
        /\ status' = [status EXCEPT ![c] = e, ![d] = "RUNNING"]
        /\ UNCHANGED paused

\* The running command leaves and the one paused last resumes.
Resume ==
    /\ paused # <<>>
    /\ \E c \in Running, e \in Gone :
          status' = [status EXCEPT ![c] = e, ![paused[Len(paused)]] = "RUNNING"]
    /\ paused' = SubSeq(paused, 1, Len(paused) - 1)

\* The running command leaves an idle sandbox.
Leave ==
    /\ paused = <<>>
    /\ \E c \in Running, e \in Gone : status' = [status EXCEPT ![c] = e]
    /\ UNCHANGED paused

\* All the queued commands are removed.
ClearQueue ==
    /\ status' = [c \in Cmd |-> IF status[c] = "QUEUED" THEN "DEQUEUE"
                                                        ELSE status[c]]
    /\ UNCHANGED paused

\* All the commands that have not left are killed.
KillAll ==
    /\ status' = [c \in Cmd |-> IF status[c] \in {"QUEUED", "RUNNING", "PAUSED"}
                                THEN "KILLED" ELSE status[c]]
    /\ paused' = <<>>

LNext == \/ Submit \/ StartQueued \/ Preempt \/ Replace \/ Resume \/ Leave
         \/ ClearQueue \/ KillAll

LSpec == LInit /\ [][LNext]_lvars

(***************************************************************************)
(* Properties.                                                             *)
(***************************************************************************)
\* The events of one command come in the order of Follows, whatever happens
\* to the others: what handleCommandEvent() of the executor relies on when it
\* keeps only the last event of a command.
EventsInOrder ==
    [][\A c \in Cmd : status'[c] # status[c] => status'[c] \in Follows(status[c])]_lvars
=============================================================================
