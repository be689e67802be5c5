------------------------- MODULE URLHAServiceFeeder -------------------------
(***************************************************************************)
(* The table of servers behind a multi address channel (URLServiceFeeder)  *)
(* and its high availability layer (URLHAServiceFeeder): a server declared *)
(* offline leaves the online set and waits in retry_queue; a timer thread  *)
(* (checkForAliveService) tests the waiting ones, moves those that answer  *)
(* to respawned_queue and evicts those that stay silent; the next          *)
(* getService() puts the respawned ones online again.                      *)
(*                                                                         *)
(* Every operation of the table is one step, since it holds                *)
(* mutex_internal, except clear(), which takes no lock and is two.         *)
(* Between two iterations the timer thread holds mutex_queue.  The model   *)
(* lets the others in there: they append to retry_queue and empty          *)
(* respawned_queue, which commutes with the pop that follows.              *)
(***************************************************************************)
EXTENDS Naturals, Sequences, FiniteSets, SequencesExt

CONSTANTS
    URL,
    MaxService,         \* bound on the services ever allocated
    MaxRetryForDead     \* max_service_retry_for_dead

VARIABLES
    allocated,          \* the URL of every service ever allocated
    service_list,       \* index -> service in use, or Null
    set_urls_online,    \* indexes by round robin position
    left_map,           \* mapping_url_index, URL -> index
    right_map,          \* mapping_url_index, index -> URL
    retry_queue,        \* of [index, times]
    respawned_queue,
    auto_eviction_url,
    checker,            \* the timer thread
    crashed             \* "no", or what ended the process

table == <<allocated, service_list, set_urls_online, left_map, right_map>>
feederVars == <<table, retry_queue, respawned_queue, checker, crashed>>

Null == 0
Slot == 0 .. MaxService - 1
Retry == [index : Slot, times : 0 .. MaxRetryForDead - 1]

available_url == {i \in Slot : service_list[i] = Null}
InUse == Range(service_list) \ {Null}

\* Mutant: a container that does not look whether the index is there.
Inserted_Again(online, i) == Append(online, i)

\* The table is a container with a unique index: inserting what is there does
\* nothing.  What is inserted gets the last round robin position.
Inserted(online, i) == IF Contains(online, i) THEN online ELSE Append(online, i)

Without(f, x) == Restrict(f, DOMAIN f \ {x})

\* The container as the constructor of the channel leaves it.
FeederInit(urls) ==
    /\ allocated = urls
    /\ service_list = [i \in Slot |-> IF i < Len(urls) THEN i + 1 ELSE Null]
    /\ set_urls_online = [k \in DOMAIN urls |-> k - 1]
    /\ left_map = [u \in Range(urls) |-> (CHOOSE k \in DOMAIN urls : urls[k] = u) - 1]
    /\ right_map = [i \in {k - 1 : k \in DOMAIN urls} |-> urls[i + 1]]
    /\ retry_queue = <<>>
    /\ respawned_queue = <<>>
    /\ checker = [at |-> "idle"]
    /\ crashed = "no"

-----------------------------------------------------------------------------
\* std::map::insert(), like @@, keeps the entry that is there.
AddURL(u) ==
    /\ Len(allocated) < MaxService
    /\ LET i == Min(available_url)
       IN /\ service_list' = [service_list EXCEPT ![i] = Len(allocated) + 1]
          /\ set_urls_online' = Inserted(set_urls_online, i)
          /\ left_map' = left_map @@ (u :> i)
          /\ right_map' = right_map @@ (i :> u)
    /\ allocated' = Append(allocated, u)

\* Only checkForAliveService() and removeNode() remove, and both dispose.
\* retry_queue and respawned_queue keep the index.
RemoveURL(i) ==
    /\ service_list' = [service_list EXCEPT ![i] = Null]
    /\ set_urls_online' = Remove(set_urls_online, i)
    /\ IF i \in DOMAIN right_map
       THEN /\ left_map' = Without(left_map, right_map[i])
            /\ right_map' = Without(right_map, i)
       ELSE UNCHANGED <<left_map, right_map>>
    /\ UNCHANGED allocated

\* clear() disposes of the services and then empties the online set, where getService()
\* may meet an index without a service.  The mapping and the queues are left alone.
ClearServices ==
    /\ service_list' = [i \in Slot |-> Null]
    /\ UNCHANGED <<allocated, set_urls_online, left_map, right_map>>

ClearOnline ==
    /\ set_urls_online' = <<>>
    /\ UNCHANGED <<allocated, service_list, left_map, right_map>>

\* The entry of u is there: getIndexFromURL() throws otherwise.
SetURLAsOffline(u) ==
    LET i == left_map[u]
    IN /\ u \in DOMAIN left_map
       /\ set_urls_online' = Remove(set_urls_online, i)
       /\ retry_queue' = Append(retry_queue, [index |-> i, times |-> 0])
       /\ UNCHANGED <<allocated, service_list, left_map, right_map, respawned_queue>>

\* The service the caller gets, Null when nothing is online.
Respawned == FoldLeft(Inserted, set_urls_online, respawned_queue)
Service == IF Respawned = <<>> THEN Null ELSE service_list[Head(Respawned)]

GetService ==
    /\ set_urls_online' = IF Respawned = <<>> THEN <<>>
                          ELSE Append(Tail(Respawned), Head(Respawned))
    /\ respawned_queue' = <<>>
    /\ UNCHANGED <<allocated, service_list, left_map, right_map, retry_queue>>

-----------------------------------------------------------------------------
(* checkForAliveService(), on the timer thread.  With nothing to retry it does *)
(* nothing.                                                                    *)

Timeout ==
    /\ checker.at = "idle" /\ retry_queue # <<>>
    /\ checker' = [at |-> "loop", max_element |-> Len(retry_queue), owns |-> TRUE]
    /\ UNCHANGED <<table, retry_queue, respawned_queue, crashed>>

More == checker.at = "loop" /\ retry_queue # <<>> /\ checker.max_element > 0

LoopEnds ==
    /\ checker.at = "loop" /\ ~More
    /\ checker' = [at |-> "idle"]
    /\ UNCHANGED <<table, retry_queue, respawned_queue, crashed>>

\* After an eviction the loop goes on without the mutex: the next unlock()
\* throws, and nothing catches on the timer thread.
UnlockThrows ==
    /\ More /\ ~checker.owns
    /\ crashed' = "lock_error"
    /\ retry_queue' = Tail(retry_queue)
    /\ UNCHANGED <<table, respawned_queue, checker>>

NotDue ==
    /\ More /\ checker.owns
    /\ retry_queue' = Append(Tail(retry_queue), Head(retry_queue))
    /\ checker' = [checker EXCEPT !.max_element = @ - 1]
    /\ UNCHANGED <<table, respawned_queue, crashed>>

\* Mutant: the count starts again at every check.
CountedRetry_Restarted(times) == 1

\* retry_times matters to the eviction, modulo max_service_retry_for_dead.
CountedRetry(times) == IF auto_eviction_url THEN (times + 1) % MaxRetryForDead ELSE 0

Due ==
    /\ More /\ checker.owns
    /\ LET sri == Head(retry_queue)
       IN checker' = [at |-> "check", max_element |-> checker.max_element - 1,
                      sri |-> [sri EXCEPT !.times = CountedRetry(@)],
                      service |-> service_list[sri.index]]
    /\ retry_queue' = Tail(retry_queue)
    /\ UNCHANGED <<table, respawned_queue, crashed>>

Resumes(owns) == checker' = [at |-> "loop", max_element |-> checker.max_element, owns |-> owns]

Alive ==
    /\ respawned_queue' = Append(respawned_queue, checker.sri.index)
    /\ Resumes(TRUE)
    /\ UNCHANGED <<table, retry_queue, crashed>>

Evict ==
    /\ RemoveURL(checker.sri.index)
    /\ Resumes(FALSE)
    /\ UNCHANGED <<retry_queue, respawned_queue, crashed>>

\* Mutant: not put back into retry_queue.
StillOffline_Dropped ==
    /\ Resumes(TRUE)
    /\ UNCHANGED <<table, retry_queue, respawned_queue, crashed>>

StillOffline ==
    /\ retry_queue' = Append(retry_queue, checker.sri)
    /\ Resumes(TRUE)
    /\ UNCHANGED <<table, respawned_queue, crashed>>

Dead ==
    IF auto_eviction_url /\ checker.sri.times = 0 THEN Evict ELSE StillOffline
=============================================================================
