----------------------- MODULE MCBatchCommandSandbox -----------------------
(* Command classes for model checking BatchCommandSandbox.                 *)
EXTENDS BatchCommandSandbox

\* One class for each submission rule; one of them only has setHandler.
MCRules ==
    {[rule |-> "NORMAL", mask |-> Handler, priority |-> 50],
     [rule |-> "KILL", mask |-> Handler, priority |-> 60],
     [rule |-> "STACK", mask |-> {"Set"}, priority |-> 50]}

\* A class that preempts and one that kills, for deeper stacks.
MCStack ==
    {[rule |-> "STACK", mask |-> Handler, priority |-> 50],
     [rule |-> "KILL", mask |-> {"Set"}, priority |-> 60]}

\* One class, that preempts, for the requests of the clients.
MCOne == {[rule |-> "STACK", mask |-> {"Set", "Acquisition"}, priority |-> 50]}
=============================================================================
