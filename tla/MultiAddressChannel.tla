------------------------- MODULE MultiAddressChannel -------------------------
(***************************************************************************)
(* A channel that sends each request to one of several servers             *)
(* (MultiAddressMessageChannel), the futures its clients wait on           *)
(* (MultiAddressMessageRequestFuture over MessageRequestFuture) and the    *)
(* servers, over the table of URLHAServiceFeeder.                          *)
(*                                                                         *)
(* The owner of an "mds" channel (MDSMessageChannel) evicts dead servers   *)
(* and asks for new ones from the timer thread, by a request of its own;   *)
(* the owner of an "api" channel (ApiProxyManager) does neither, and       *)
(* empties and refills its list.                                           *)
(*                                                                         *)
(* A server goes down and up; an answer may come after the caller stopped  *)
(* waiting for it, or more than once.  A request sent to a server that is  *)
(* down comes back as a submission error; one that was lost with its       *)
(* server is given up when FutureHelper purges its promise.                *)
(***************************************************************************)
EXTENDS URLHAServiceFeeder

CONSTANTS
    Client,
    Evicting,           \* the values of auto_eviction_url: TRUE "mds", FALSE "api"
    Nodes,              \* the URLs given to the constructor
    SameServerRetry,    \* waits repeated on one server, 3 in the code
    NORMAL_NUMBER_OF_ENDPOINT,
    MaxCalls,           \* bound on the calls of each client
    MaxDown,            \* bound on the failures of the servers
    Endless,            \* whether answers come too late without end, which they do while
    MaxQueued,          \* fewer entries than this wait for a check, or else
    MaxDelays,          \* bound on the answers that come too late, or again
    MaxRetryQueue,      \* bound on retry_queue
    MaxRequests,        \* bound on the requests in flight
    MaxOwnerCalls       \* bound on addNode(), removeNode() and removeAllNode()

ASSUME ChannelAssumption == "timer" \notin Client /\ MaxRequests \in Nat \ {0}

VARIABLES
    up,                 \* URL -> BOOLEAN
    msgs,               \* requests at the servers, [id, url]
    call,               \* Caller -> its call of the channel
    clearing,           \* the owner is inside removeAllNode()
    downs, delays, calls, ownerCalls

ownerVars == <<clearing, ownerCalls>>
vars == <<feederVars, auto_eviction_url, up, msgs, call, ownerVars, downs, delays, calls>>
bounds == <<downs, calls, ownerVars>>

\* The timer thread calls the channel too.
Caller == Client \cup {"timer"}

\* at: where the call is; service: what getService() returned; id, answer, by:
\* current_future; url: last_used_address; retry: retry_on_same_server.
NoCall == [at |-> "idle", service |-> Null, id |-> 0, answer |-> "none", by |-> "none",
           url |-> "none", retry |-> 0]

Symmetry == Permutations(Client)

Init ==
    /\ FeederInit(SetToSeq(Nodes))
    /\ auto_eviction_url \in Evicting
    /\ up = [u \in URL |-> TRUE]
    /\ msgs = {}
    /\ call = [c \in Caller |-> NoCall]
    /\ clearing = FALSE
    /\ downs = 0 /\ delays = 0 /\ ownerCalls = 0
    /\ calls = [c \in Client |-> 0]

-----------------------------------------------------------------------------
(* The servers and what they send back. *)

\* An answer or an echo is too late.
Delay ==
    IF Endless THEN Len(retry_queue) < MaxQueued /\ UNCHANGED delays
    ELSE delays < MaxDelays /\ delays' = delays + 1

\* A server that stops may take the requests it holds with it.
Down(u) ==
    /\ up[u] /\ downs < MaxDown
    /\ up' = [up EXCEPT ![u] = FALSE]
    /\ downs' = downs + 1
    /\ msgs' \in {msgs, {m \in msgs : m.url # u}}
    /\ UNCHANGED <<feederVars, call, delays, calls, ownerVars>>

Up(u) ==
    /\ ~up[u]
    /\ up' = [up EXCEPT ![u] = TRUE]
    /\ UNCHANGED <<feederVars, msgs, call, delays, bounds>>

\* setDataForPromiseID(): an answer that finds no promise, or one that was set, is dropped.
Resolved(id, answer, by) ==
    [c \in Caller |-> IF call[c].id = id /\ call[c].answer = "pending"
                      THEN [call[c] EXCEPT !.answer = answer, !.by = by] ELSE call[c]]

\* The answer of the server, which may come again, or the one RpcClient makes up when it
\* cannot reach it.
Response(m) ==
    /\ \/ msgs' = msgs \ {m} /\ UNCHANGED delays
       \/ up[m.url] /\ ~Endless /\ Delay /\ UNCHANGED msgs
    /\ call' = Resolved(m.id, IF up[m.url] THEN "remote" ELSE "local", m.url)
    /\ UNCHANGED <<feederVars, up, bounds>>

\* An answer may also never come, or find its promise purged by
\* FutureHelper::timeout(); waiting on a broken promise fails like a timeout.
Lost(m) ==
    /\ Delay
    /\ msgs' = msgs \ {m}
    /\ UNCHANGED <<feederVars, up, call, bounds>>

-----------------------------------------------------------------------------
(* A caller: sendRequestWithFuture(), then wait() until it returns. *)

Becomes(c, s) == call' = [call EXCEPT ![c] = s]

\* _sendRequestWithFuture() up to getService(); what the call becomes when there
\* is no server.
Pick(c, otherwise) ==
    /\ GetService
    /\ Becomes(c, IF Service = Null THEN otherwise
                  ELSE [call[c] EXCEPT !.at = "send", !.service = Service])
    /\ UNCHANGED <<checker, crashed, up, msgs, delays, downs, ownerVars>>

Request(c) ==
    /\ call[c].at = "idle" /\ calls[c] < MaxCalls
    /\ Pick(c, [call[c] EXCEPT !.at = "again"])
    /\ calls' = [calls EXCEPT ![c] = @ + 1]

\* wait() without a future, or after the server of its future went offline:
\* with no server it returns, and getError() is EC_RPC_REQUEST_FUTURE_NOT_AVAILABLE.
Again(c) ==
    /\ call[c].at = "again"
    /\ Pick(c, NoCall)
    /\ UNCHANGED calls

\* Mutant: promises_counter is not incremented.
NewPromiseId_Same == 1

\* An id that no request in flight has: the code counts, and goes round after 2^32.
Outstanding == {m.id : m \in msgs} \cup {call[c].id : c \in Caller}
Free == 1 .. MaxRequests \ Outstanding
NewPromiseId == Min(Free)

Send(c) ==
    LET url == allocated[call[c].service]
    IN /\ call[c].at = "send"
       /\ Free # {}
       /\ Becomes(c, [NoCall EXCEPT !.at = "wait", !.id = NewPromiseId, !.answer = "pending",
                                    !.url = url, !.retry = call[c].retry])
       /\ msgs' = msgs \cup {[id |-> NewPromiseId, url |-> url]}
       /\ UNCHANGED <<feederVars, up, delays, bounds>>

\* The service read by Send or by the timer thread was disposed of in between:
\* its memory may still hold the address, or the process ends.
UseAfterDispose ==
    /\ \/ \E c \in Caller : call[c].at = "send" /\ call[c].service \notin InUse
       \/ checker.at = "check" /\ checker.service # Null /\ checker.service \notin InUse
    /\ crashed' = "disposed service"
    /\ UNCHANGED <<table, retry_queue, respawned_queue, checker, up, msgs,
                   call, delays, bounds>>

Answered(c) ==
    /\ call[c].at = "wait" /\ call[c].answer = "remote"
    /\ Becomes(c, IF c = "timer" THEN [NoCall EXCEPT !.at = "told"] ELSE NoCall)
    /\ UNCHANGED <<feederVars, up, msgs, delays, bounds>>

\* setURLAsOffline(last_used_address), which throws out of wait() when the
\* server has been evicted or removed meanwhile.
GiveUp(c) ==
    /\ IF call[c].url \in DOMAIN left_map
       THEN /\ Len(retry_queue) < MaxRetryQueue
            /\ SetURLAsOffline(call[c].url)
            /\ Becomes(c, [NoCall EXCEPT !.at = "again", !.retry = call[c].retry])
       ELSE UNCHANGED <<table, retry_queue, respawned_queue>> /\ Becomes(c, NoCall)
    /\ UNCHANGED <<checker, crashed>>

SubmissionError(c) ==
    /\ call[c].at = "wait" /\ call[c].answer = "local"
    /\ GiveUp(c)
    /\ UNCHANGED <<up, msgs, delays, bounds>>

\* Mutant: the waits on one server are not counted.
WaitFails_Forever(c) ==
    /\ call[c].at = "wait" /\ call[c].answer = "pending"
    /\ UNCHANGED vars

\* MessageRequestFuture::wait() returns false: the answer is too slow, or there is none.
\* retry_other_server, which should end the loop, is never counted.
OnItsWay(c) == \E m \in msgs : m.id = call[c].id

WaitFails(c) ==
    /\ call[c].at = "wait" /\ call[c].answer = "pending"
    /\ IF OnItsWay(c) THEN Delay ELSE UNCHANGED delays
    /\ IF call[c].retry < SameServerRetry
       THEN Becomes(c, [call[c] EXCEPT !.retry = @ + 1]) /\ UNCHANGED feederVars
       ELSE GiveUp(c)
    /\ UNCHANGED <<up, msgs, bounds>>

-----------------------------------------------------------------------------
(* The timer of the channel and its owner. *)

Others == <<up, msgs, call, downs, calls>>

\* serviceOnlineCheck() sends an echo to the address of the service.
Verdict ==
    /\ checker.at = "check"
    /\ IF checker.service = Null
       THEN /\ crashed' = "null service"
            /\ UNCHANGED <<table, retry_queue, respawned_queue, checker, delays>>
       ELSE IF up[allocated[checker.service]]
       THEN (Alive /\ UNCHANGED delays) \/ (Dead /\ Delay)
       ELSE Dead /\ UNCHANGED delays
    /\ UNCHANGED <<Others, ownerVars>>

\* manageResource(): an "mds" channel with another number of servers than it should have
\* asks one of them for addresses, and the timer thread waits for the answer.
NumberIsNormal == Cardinality(DOMAIN left_map) = NORMAL_NUMBER_OF_ENDPOINT

ManageResource ==
    /\ auto_eviction_url /\ checker.at = "idle" /\ call["timer"].at = "idle"
    /\ ~NumberIsNormal
    /\ Pick("timer", [NoCall EXCEPT !.at = "again"])
    /\ UNCHANGED calls

\* It adds those it does not have: as many as it lacks, or all when it has too many.
ManageAdds(u) ==
    /\ call["timer"].at = "told"
    /\ ~NumberIsNormal
    /\ u \notin DOMAIN left_map
    /\ AddURL(u)
    /\ UNCHANGED <<retry_queue, respawned_queue, checker, crashed, Others, delays, ownerVars>>

ManageEnds ==
    /\ call["timer"].at = "told"
    /\ Becomes("timer", NoCall)
    /\ UNCHANGED <<feederVars, up, msgs, delays, bounds>>

OwnerCall ==
    /\ ~auto_eviction_url /\ ~clearing
    /\ ownerCalls < MaxOwnerCalls /\ ownerCalls' = ownerCalls + 1

\* The address may be in the list already.
AddNode(u) ==
    /\ OwnerCall
    /\ AddURL(u)
    /\ UNCHANGED <<retry_queue, respawned_queue, checker, crashed, Others, delays, clearing>>

RemoveNode(u) ==
    /\ OwnerCall
    /\ u \in DOMAIN left_map
    /\ RemoveURL(left_map[u])
    /\ UNCHANGED <<retry_queue, respawned_queue, checker, crashed, Others, delays, clearing>>

\* clear() takes no lock: others may come between its two parts.
RemoveAllNode ==
    /\ OwnerCall
    /\ ClearServices
    /\ clearing' = TRUE
    /\ UNCHANGED <<retry_queue, respawned_queue, checker, crashed, Others, delays>>

RemoveAllEnds ==
    /\ clearing
    /\ ClearOnline
    /\ clearing' = FALSE
    /\ UNCHANGED <<retry_queue, respawned_queue, checker, crashed, Others, delays, ownerCalls>>

-----------------------------------------------------------------------------
Check ==
    /\ Timeout \/ LoopEnds \/ UnlockThrows \/ NotDue \/ Due
    /\ call["timer"].at = "idle"
    /\ UNCHANGED <<Others, delays, ownerVars>>

Proceed(c) == Again(c) \/ Send(c) \/ Answered(c) \/ SubmissionError(c) \/ WaitFails(c)

Next ==
    /\ \/ \E u \in URL : Down(u) \/ Up(u) \/ ManageAdds(u) \/ AddNode(u) \/ RemoveNode(u)
       \/ \E m \in msgs : Response(m) \/ Lost(m)
       \/ \E c \in Client : Request(c)
       \/ \E c \in Caller : Proceed(c)
       \/ UseAfterDispose \/ Check \/ Verdict \/ ManageResource \/ ManageEnds
       \/ RemoveAllNode \/ RemoveAllEnds
    /\ crashed = "no" /\ UNCHANGED auto_eviction_url

Spec == Init /\ [][Next]_vars

\* The timer thread runs and time passes: every tick looks at the retry queue before
\* anything else, and an entry that is looked at again and again is due at some
\* point.  A caller that can go on does, and a request a server holds is answered.
DueAt(i) == More /\ Head(retry_queue).index = i /\ Due

Running(A) == crashed = "no" /\ A /\ UNCHANGED auto_eviction_url

ByTimer(A) == Running(A /\ call["timer"].at = "idle" /\ UNCHANGED <<Others, delays, ownerVars>>)

Fairness ==
    /\ SF_vars(ByTimer(Timeout))
    /\ WF_vars(ByTimer(LoopEnds \/ UnlockThrows))
    /\ WF_vars(Running(Verdict))
    /\ \A i \in Slot : SF_vars(ByTimer(DueAt(i)))
    /\ \A c \in Caller : WF_vars(Running(Proceed(c)))
    /\ WF_vars(Running(ManageEnds))
    /\ \A id \in 1 .. MaxRequests : WF_vars(Running(\E m \in msgs : m.id = id /\ Response(m)))

FairSpec == Spec /\ Fairness

-----------------------------------------------------------------------------
\* The values the members take.  No index is twice in the online set.
TypeOK ==
    /\ allocated \in Seq(URL) /\ Len(allocated) <= MaxService
    /\ service_list \in [Slot -> 0 .. Len(allocated)]
    /\ set_urls_online \in Seq(Slot) /\ IsInjective(set_urls_online)
    /\ DOMAIN left_map \subseteq URL /\ DOMAIN right_map \subseteq Slot
    /\ retry_queue \in Seq(Retry) /\ respawned_queue \in Seq(Slot)
    /\ \A c \in Caller : /\ call[c].at \in {"idle", "again", "send", "wait", "told"}
                        /\ call[c].retry \in 0 .. SameServerRetry
    /\ crashed \in {"no", "lock_error", "null service", "disposed service"}

Checked(i) == checker.at = "check" /\ checker.sri.index = i
Awaited(i) ==
    \/ Contains(respawned_queue, i)
    \/ \E k \in DOMAIN retry_queue : retry_queue[k].index = i
    \/ Checked(i)

\* A server of the list that is not online is on its way back: whatever the
\* clients, the timer and the owner do to the list at once, none falls out of
\* setURLAsOffline(), checkForAliveService() and getService().
NoServerForgotten ==
    crashed = "no" => \A i \in Slot \ available_url :
                        Contains(set_urls_online, i) \/ Awaited(i)

\* wait() ends with the answer of the server the request was last sent to, never
\* with the late one of a server given up before.
AnswerIsOwn ==
    \A c \in Caller : call[c].answer = "remote" => call[c].by = call[c].url

\* What keeps wait() from its answer: a server stops, or an answer or the echo of a
\* server that is up is too slow.
Trouble ==
    \/ \E u \in URL : up[u] /\ ~up'[u]
    \/ \E m \in msgs : Lost(m)
    \/ \E c \in Caller : OnItsWay(c) /\ WaitFails(c)
    \/ checker.at = "check" /\ checker.service # Null /\ up[allocated[checker.service]] /\ Dead

TroubleEnds == <>[][~Trouble]_vars

\* wait() returns, with an answer, for want of a server or with an exception, once
\* servers stop failing and answers stop being late, however often they were before.
\* While they are, it need not: the limit on other servers is never reached, and a
\* server that is slow and answers the echo is tried again and again.  A list that the
\* owner changes meanwhile is another matter: clear() keeps the old addresses, and a
\* refilled list can keep wait() on a server it cannot set offline.
WaitEnds ==
    TroubleEnds =>
       \A c \in Caller :
          call[c].at # "idle" ~> (call[c].at = "idle" \/ crashed # "no" \/ ownerCalls > 0)

Back(i) == Contains(set_urls_online, i) \/ Contains(respawned_queue, i)
Silent(o) == o \in InUse /\ ~auto_eviction_url /\ ~up[allocated[o]]

\* A server that is offline comes back if it answers the echo of the timer; if it
\* does not, an "mds" channel evicts it in the end: however often servers failed and
\* the echo was late before, once they stop.
OfflineEnds ==
    TroubleEnds =>
       \A o \in 1 .. MaxService :
          o \in InUse ~> \/ crashed # "no" \/ o \notin InUse \/ Silent(o)
                        \/ \E i \in Slot : service_list[i] = o /\ Back(i)
=============================================================================
