--------------------------- MODULE WaitSemaphore ---------------------------
(***************************************************************************)
(* chaos::WaitSemaphore, the signalling primitive of the framework, as a   *)
(* value: the flag `answered' and whether the one thread that waits is     *)
(* blocked on the condition variable.  wait() reads and clears `answered'  *)
(* without the mutex, so a waiting thread takes three separate steps:      *)
(*   test   while(!answered)               Answered(s)                     *)
(*   block  lock; condition.wait(lock)     Block(s)                        *)
(*   clear  answered = false               Clear(s)                        *)
(* unlock() sets the flag and notifies under the mutex, in one step.  A    *)
(* thread that has tested the flag and not yet blocked is not notified.    *)
(***************************************************************************)

\* The state of a semaphore.
Semaphore == [answered : BOOLEAN, blocked : BOOLEAN]

\* A new semaphore.
NewSemaphore == [answered |-> FALSE, blocked |-> FALSE]

\* unlock(): the flag is set and the blocked thread, if any, is notified.
Unlock(s) == [answered |-> TRUE, blocked |-> FALSE]

\* The test of the loop of wait().
Answered(s) == s.answered

\* The body of the loop of wait(): the thread blocks whatever the flag says.
Block(s) == [s EXCEPT !.blocked = TRUE]

\* The condition variable wakes the thread without a notification.
SpuriousWakeup(s) == [s EXCEPT !.blocked = FALSE]

\* The last statements of wait(), wait(ms) and waitUSec(us).
Clear(s) == [s EXCEPT !.answered = FALSE]

\* The thread sleeps on a semaphore that has been unlocked after its test.
LostWakeup(s) == s.blocked /\ s.answered
=============================================================================
