--------------------------- MODULE CommandEvents ---------------------------
(***************************************************************************)
(* The events that a sandbox fires for a command (BatchCommandEventType)   *)
(* and their order in the life of one command.  EVT_WAITING is never       *)
(* fired.  "none" is a command that has not been submitted.                *)
(***************************************************************************)

Live == {"QUEUED", "RUNNING", "PAUSED"}
Left == {"COMPLETED", "FAULT", "FATAL_FAULT", "KILLED", "DEQUEUE"}

\* The events that may follow event e of the same command.
Follows(e) ==
    {f \in Live \cup Left :
        \/ e = "none" /\ f = "QUEUED"
        \/ e = "QUEUED" /\ f \in {"RUNNING", "KILLED", "DEQUEUE"}
        \/ e = "RUNNING" /\ f \notin {"QUEUED", "RUNNING", "DEQUEUE"}
        \/ e = "PAUSED" /\ f \in {"RUNNING", "KILLED"}}
=============================================================================
