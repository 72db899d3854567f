--------------------------- MODULE EventDebouncer ---------------------------
(***************************************************************************)
(* The debouncer of protocol events (lib/metadata/event-debouncer.js).     *)
(*                                                                         *)
(* Schema and topology events arrive one by one.  Each asks for a refresh  *)
(* (its handler) and gets a promise.  The debouncer keeps one queue and    *)
(* one timer that every new event moves; when the timer fires, or when an  *)
(* event asks to be processed now, the queue is detached and one handler   *)
(* per scope is run: a full refresh supersedes everything queued, a        *)
(* keyspace refresh supersedes the events of its keyspace.                 *)
(*                                                                         *)
(* The handlers of full and keyspace refreshes are asynchronous, so        *)
(* events arrive while earlier refreshes are still running.  The order of  *)
(* callbacks within a queue is not observable through their promises, so   *)
(* a queue holds sets of events.  Each event is received once.  A timer is *)
(* named by the event that armed it; how long the delay is is not          *)
(* modelled: an armed timer may fire at any later moment.                  *)
(***************************************************************************)
EXTENDS FiniteSets, Naturals

CONSTANTS
    Events,     \* the events that may arrive
    Keyspaces,  \* the keyspaces that they may be about
    None        \* null / undefined

VARIABLES
    scope,      \* what each received event asks for, None before it arrives
    queue,      \* this._queue
    timeout,    \* this._timeout
    timers,     \* the timers that Node holds armed
    jobs,       \* the asynchronous handlers that are running
    outcome,    \* how each event's callback was invoked last
    calls,      \* how many times each event's callback was invoked
    fresh       \* the events that a refresh started after their arrival covers

vars == <<scope, queue, timeout, timers, jobs, outcome, calls, fresh>>

(* { all }, { keyspace } and { keyspace, cqlObject } events. *)
Scopes == [kind : {"all"}, keyspace : {None}]
            \cup [kind : {"keyspace", "object"}, keyspace : Keyspaces]

Queues == [mainEvent : Events \cup {None},
           callbacks : SUBSET Events,
           keyspaces : [Keyspaces -> [mainEvent : Events \cup {None},
                                      events : SUBSET Events]]]

Jobs == [handler : Events, callbacks : SUBSET Events]

ASSUME NoneIsNothingElse == None \notin Events \cup Keyspaces \cup Scopes \cup Queues

(* The state invariant of the JavaScript object and of its environment:    *)
(* every field holds a value of its kind, and a callback is invoked at     *)
(* most once, so that its promise reports the outcome it was settled with. *)
TypeOK ==
    /\ scope \in [Events -> Scopes \cup {None}]
    /\ queue \in Queues \cup {None}
    /\ timeout \in Events \cup {None}
    /\ timers \subseteq Events
    /\ jobs \subseteq Jobs
    /\ outcome \in [Events -> {"pending", "ok", "error", "shutdown"}]
    /\ calls \in [Events -> 0..1]
    /\ fresh \subseteq Events

Init ==
    /\ scope = [e \in Events |-> None]
    /\ queue = None
    /\ timeout = None
    /\ timers = {}
    /\ jobs = {}
    /\ outcome = [e \in Events |-> "pending"]
    /\ calls = [e \in Events |-> 0]
    /\ fresh = {}

-----------------------------------------------------------------------------

EmptyQueue ==
    [mainEvent |-> None,
     callbacks |-> {},
     keyspaces |-> [k \in Keyspaces |-> [mainEvent |-> None, events |-> {}]]]

(* Faulty: any event of a keyspace is taken for a refresh of all of it. *)
WithKeyspaceEvent_NoObjectCheck(entry, e, s) ==
    [mainEvent |-> e, events |-> entry.events \cup {e}]

(* The event is added to its keyspace's entry; one without a cqlObject is  *)
(* a refresh of the keyspace and supersedes the entry's other events.      *)
WithKeyspaceEvent(entry, e, s) ==
    [mainEvent |-> IF s.kind = "keyspace" THEN e ELSE entry.mainEvent,
     events |-> entry.events \cup {e}]

(* The event that supersedes the whole queue, after s has been received. *)
MainEvent(q, e, s) == IF s.kind = "all" THEN e ELSE q.mainEvent

(* The keyspace entries are only kept up while no full refresh is queued. *)
KeyspaceEntries(q, e, s) ==
    IF MainEvent(q, e, s) # None
    THEN q.keyspaces
    ELSE [q.keyspaces EXCEPT ![s.keyspace] = WithKeyspaceEvent(@, e, s)]

(* eventReceived up to the slide of the delay: every event leaves its      *)
(* callback.                                                               *)
Enqueued(q, e, s) ==
    [mainEvent |-> MainEvent(q, e, s),
     callbacks |-> q.callbacks \cup {e},
     keyspaces |-> KeyspaceEntries(q, e, s)]

(* The keyspaces of a detached queue for which one handler runs. *)
Refreshed(q) == {k \in Keyspaces : q.keyspaces[k].mainEvent # None}

(* The asynchronous handlers that processQueue starts, each with the       *)
(* callbacks it invokes when it settles.  utils.each starts the keyspaces  *)
(* one after the other without waiting.                                    *)
StartedJobs(q) ==
    IF q.mainEvent # None
    THEN {[handler |-> q.mainEvent, callbacks |-> q.callbacks]}
    ELSE {[handler |-> q.keyspaces[k].mainEvent,
           callbacks |-> q.keyspaces[k].events] : k \in Refreshed(q)}

(* The events whose own handler processQueue calls synchronously. *)
HandledNow(q) ==
    IF q.mainEvent # None THEN {}
    ELSE UNION {q.keyspaces[k].events : k \in Keyspaces \ Refreshed(q)}

(* The received events, sc being their scopes, that a run of the handler   *)
(* of event h brings up to date.                                           *)
CoveredBy(h, sc) ==
    {e \in Events :
        /\ sc[e] # None
        /\ \/ h = e
           \/ sc[h].kind = "all"
           \/ sc[h].kind = "keyspace" /\ sc[e].keyspace = sc[h].keyspace}

Invoke(es, how) ==
    /\ outcome' = [e \in Events |-> IF e \in es THEN how ELSE outcome[e]]
    /\ calls' = [e \in Events |-> IF e \in es THEN calls[e] + 1 ELSE calls[e]]

(* processQueue on a detached queue, with the scopes received so far. *)
ProcessQueue(q, sc) ==
    /\ jobs' = jobs \cup StartedJobs(q)
    /\ Invoke(HandledNow(q), "ok")
    /\ fresh' = fresh \cup HandledNow(q)
                      \cup UNION {CoveredBy(j.handler, sc) : j \in StartedJobs(q)}

(* process() of _slideDelay: the queue is detached before it is processed. *)
Process(q, sc) ==
    /\ queue' = None
    /\ timeout' = None
    /\ ProcessQueue(q, sc)

(* Faulty: the previous timer is left armed. *)
SlideDelay_NoClear(e) ==
    /\ timeout' = e
    /\ timers' = timers \cup {e}

(* _slideDelay with a delay: a new timer is armed, the previous cleared. *)
SlideDelay(e) ==
    /\ timeout' = e
    /\ timers' = (timers \ {timeout}) \cup {e}

(* eventReceived(event, processNow). *)
EventReceived(e, s, processNow) ==
    LET q == Enqueued(IF queue = None THEN EmptyQueue ELSE queue, e, s)
        received == [scope EXCEPT ![e] = s]
    IN  /\ scope[e] = None
        /\ scope' = received
        /\ \/ /\ processNow
              /\ timers' = timers \ {timeout}
              /\ Process(q, received)
           \/ /\ ~processNow
              /\ queue' = q
              /\ SlideDelay(e)
              /\ UNCHANGED <<jobs, outcome, calls, fresh>>

(* An armed timer runs process().  A queue that is gone by then would make *)
(* processQueue(null) throw; TimerServesQueue says that it never is.       *)
TimerFires(t) ==
    /\ t \in timers
    /\ queue # None
    /\ timers' = timers \ {t}
    /\ Process(queue, scope)
    /\ UNCHANGED scope

(* Faulty: a failed refresh does not invoke the callbacks. *)
HandlerSettles_NoError(j, how) ==
    /\ j \in jobs
    /\ jobs' = jobs \ {j}
    /\ Invoke(IF how = "error" THEN {} ELSE j.callbacks, how)
    /\ UNCHANGED <<scope, queue, timeout, timers, fresh>>

(* The promise of an asynchronous handler settles: all callbacks of its    *)
(* scope are invoked with its error, if any.                               *)
HandlerSettles(j, how) ==
    /\ j \in jobs
    /\ jobs' = jobs \ {j}
    /\ Invoke(j.callbacks, how)
    /\ UNCHANGED <<scope, queue, timeout, timers, fresh>>

(* shutdown(): a no-op without a queue.  Running handlers are left alone   *)
(* and the debouncer keeps accepting events.                               *)
Shutdown ==
    /\ queue # None
    /\ Invoke(queue.callbacks, "shutdown")
    /\ queue' = None
    /\ timers' = timers \ {timeout}
    /\ timeout' = None
    /\ UNCHANGED <<scope, jobs, fresh>>

Next ==
    \/ \E e \in Events, s \in Scopes, now \in BOOLEAN : EventReceived(e, s, now)
    \/ \E t \in Events : TimerFires(t)
    \/ \E j \in jobs, how \in {"ok", "error"} : HandlerSettles(j, how)
    \/ Shutdown

(* Node fires armed timers, and the handlers of refreshes settle. *)
Fairness ==
    /\ WF_vars(\E t \in Events : TimerFires(t))
    /\ WF_vars(\E j \in jobs, how \in {"ok", "error"} : HandlerSettles(j, how))

Spec == Init /\ [][Next]_vars /\ Fairness

-----------------------------------------------------------------------------

Received == {e \in Events : scope[e] # None}

(* The queue and the timer live and die together: a queue always has       *)
(* exactly one armed timer, the one that this._timeout holds, so no queue  *)
(* is forgotten; and no timer is armed without a queue, so that no         *)
(* process() meets the null queue that an earlier one, an immediate event  *)
(* or shutdown left behind.                                                *)
TimerServesQueue ==
    timers = IF queue = None THEN {} ELSE {timeout}

(* No callback is lost or shared: a received event that has not been       *)
(* answered is held by the queue or by exactly one running handler, and an *)
(* answered one by none.                                                   *)
CallbackHeldOnce ==
    \A e \in Received :
        LET queued == queue # None /\ e \in queue.callbacks
            held == {j \in jobs : e \in j.callbacks}
        IN  IF calls[e] > 0
            THEN ~queued /\ held = {}
            ELSE IF queued THEN held = {} ELSE \E j \in jobs : held = {j}

(* Nobody who waits for an event is forgotten: every callback is held      *)
(* once, and the queue that holds callbacks has its timer.                 *)
CallbacksServed == TimerServesQueue /\ CallbackHeldOnce

(* An event reported as handled was covered by a refresh that started      *)
(* after the event arrived: a full one, one of its keyspace or its own.    *)
(* Coalescing events never answers one with a refresh that may have read   *)
(* the schema before the change it announced.                              *)
AnswerIsFresh ==
    \A e \in Received : outcome[e] \in {"ok", "error"} => e \in fresh

(* Every received event is answered, however events, refreshes, failures   *)
(* and shutdowns interleave.                                               *)
EveryEventAnswered ==
    \A e \in Events : scope[e] # None ~> calls[e] > 0
=============================================================================
