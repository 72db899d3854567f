--------------------------- MODULE ClientLifecycle ---------------------------
(***************************************************************************)
(* The life of a Client (lib/client.js): connect(), the connection that    *)
(* execute(), eachRow(), stream() and batch() make implicitly, the use of  *)
(* the native session after an await, and shutdown().                      *)
(*                                                                         *)
(* JavaScript runs one piece of code at a time, so an action is the code   *)
(* between two awaits. What an await leaves open is who runs next: other   *)
(* calls on the same client start, and other continuations resume, while a *)
(* call is suspended.                                                      *)
(***************************************************************************)
EXTENDS Naturals

CONSTANTS
    Caller,         \* concurrent users of one client
    MaxOps,         \* bound: calls made by one caller
    MaxStatements   \* bound: distinct statements of one batch

ASSUME LifecycleAssumption == MaxOps \in Nat /\ MaxStatements \in Nat

VARIABLES
    connected,        \* client.connected
    connecting,       \* client.connecting
    isShuttingDown,   \* client.isShuttingDown
    session,          \* client.rustClient: NoSession or the number of the session
    pc,               \* where each caller's current call is suspended
    kind,             \* which method the call is
    left,             \* statements the call still has to prepare
    outcome,          \* how the caller's last call ended
    era,              \* history: what shutdown() had done when the call began
    shutdownReturned, \* history: some call of shutdown() has completed
    ops               \* calls begun per caller

client == <<connected, connecting, isShuttingDown, session>>
vars == <<client, pc, kind, left, outcome, era, shutdownReturned, ops>>

NoSession == 0

\* idle      no call in progress
\* creating  awaiting SessionWrapper.createSession
\* waiting   awaiting the "connected" event of somebody else's attempt
\* resolved  #connect() is fulfilled, its caller not yet resumed
\* rejected  #connect() is rejected, its caller not yet resumed
\* preparing awaiting rustClient.prepareStatement
\* executing awaiting the rustClient call that runs the statement or the batch
Suspended == {"creating", "waiting", "resolved", "rejected", "preparing", "executing"}
OnDatabase == {"preparing", "executing"}
Kind == {"connect", "execute", "batch", "prepare", "shutdown"}

Init ==
    /\ connected = FALSE
    /\ connecting = FALSE
    /\ isShuttingDown = FALSE
    /\ session = NoSession
    /\ pc = [c \in Caller |-> "idle"]
    /\ kind = [c \in Caller |-> "connect"]
    /\ left = [c \in Caller |-> 0]
    /\ outcome = [c \in Caller |-> "none"]
    /\ era = [c \in Caller |-> "before"]
    /\ shutdownReturned = FALSE
    /\ ops = [c \in Caller |-> 0]

-----------------------------------------------------------------------------
Goto(c, where) ==
    /\ pc' = [pc EXCEPT ![c] = where]
    /\ UNCHANGED outcome

Finish(c, how) ==
    /\ pc' = [pc EXCEPT ![c] = "idle"]
    /\ outcome' = [outcome EXCEPT ![c] = how]

\* A caller starts a call of method k that has n statements to prepare.
Begin(c, k, n) ==
    /\ pc[c] = "idle"
    /\ ops[c] < MaxOps
    /\ ops' = [ops EXCEPT ![c] = @ + 1]
    /\ kind' = [kind EXCEPT ![c] = k]
    /\ left' = [left EXCEPT ![c] = n]
    /\ era' = [era EXCEPT ![c] = CASE isShuttingDown   -> "afterEffect"
                                   [] ~isShuttingDown /\ shutdownReturned -> "afterCall"
                                   [] OTHER            -> "before"]

Stay == UNCHANGED <<kind, left, era, shutdownReturned, ops>>

\* Faulty: a second caller starts an attempt of its own while one is in progress.
EnterConnect_NoConnectingCheck(c) ==
    /\ UNCHANGED <<connected, isShuttingDown, session>>
    /\ \/ connected /\ Goto(c, "resolved") /\ UNCHANGED connecting
       \/ ~connected /\ isShuttingDown /\ Goto(c, "rejected") /\ UNCHANGED connecting
       \/ ~connected /\ ~isShuttingDown /\ Goto(c, "creating") /\ connecting' = TRUE

\* Faulty: a client that was shut down connects again.
EnterConnect_NoShutdownCheck(c) ==
    /\ UNCHANGED <<connected, isShuttingDown, session>>
    /\ \/ connected /\ Goto(c, "resolved") /\ UNCHANGED connecting
       \/ ~connected /\ connecting /\ Goto(c, "waiting") /\ UNCHANGED connecting
       \/ ~connected /\ ~connecting /\ Goto(c, "creating") /\ connecting' = TRUE

\* #connect(): up to its first await.
EnterConnect(c) ==
    /\ UNCHANGED <<connected, isShuttingDown, session>>
    /\ \/ connected /\ Goto(c, "resolved") /\ UNCHANGED connecting
       \/ ~connected /\ isShuttingDown /\ Goto(c, "rejected") /\ UNCHANGED connecting
       \/ /\ ~connected /\ ~isShuttingDown /\ connecting
          /\ Goto(c, "waiting")
          /\ UNCHANGED connecting
       \/ /\ ~connected /\ ~isShuttingDown /\ ~connecting
          /\ Goto(c, "creating")
          /\ connecting' = TRUE

\* The stage a query enters once connected: prepare what is not yet prepared,
\* then run.
Stage(n) == IF n > 0 THEN "preparing" ELSE "executing"

\* connect(callback): a connected client calls back at once, otherwise #connect().
BeginConnect(c) ==
    /\ Begin(c, "connect", 0)
    /\ UNCHANGED shutdownReturned
    /\ \/ connected /\ Finish(c, "ok") /\ UNCHANGED client
       \/ EnterConnect(c)

\* Faulty: the connection check is left to the caller.
BeginExecute_AssumeConnected(c, n) ==
    /\ Begin(c, "execute", n)
    /\ UNCHANGED shutdownReturned
    /\ Goto(c, Stage(n))
    /\ UNCHANGED client

\* execute() and every page of eachRow()/stream(): rustyExecute and #rustyPaged up
\* to their first await. Parameters that are not an array are refused first.
BeginExecute(c, n) ==
    /\ Begin(c, "execute", n)
    /\ UNCHANGED shutdownReturned
    /\ \/ Finish(c, "error") /\ UNCHANGED client
       \/ connected /\ Goto(c, Stage(n)) /\ UNCHANGED client
       \/ ~connected /\ EnterConnect(c)

\* batch(): #rustyBatch refuses a bad or empty array, then always awaits #connect().
BeginBatch(c, n) ==
    /\ Begin(c, "batch", n)
    /\ UNCHANGED shutdownReturned
    /\ \/ Finish(c, "error") /\ UNCHANGED client
       \/ EnterConnect(c)

\* prepareQuery() called directly (executeConcurrent does): there is no check, a
\* client that never connected has no rustClient to call.
BeginPrepare(c) ==
    /\ Begin(c, "prepare", 1)
    /\ UNCHANGED <<client, shutdownReturned>>
    /\ \/ session = NoSession /\ Finish(c, "typeError")
       \/ session # NoSession /\ Goto(c, "preparing")

\* Faulty: shutdown() forgets to mark the client.
BeginShutdown_NoMark(c) ==
    /\ Begin(c, "shutdown", 0)
    /\ connected' = FALSE
    /\ UNCHANGED <<isShuttingDown, connecting, session>>
    /\ shutdownReturned' = TRUE
    /\ Finish(c, "ok")

\* shutdown(): a client that is not connected is left as it is. The branch that
\* waits for a connection in progress is behind that return and asks for a client
\* that is connected and connecting, which Handshake rules out.
BeginShutdown(c) ==
    /\ Begin(c, "shutdown", 0)
    /\ \/ ~connected /\ UNCHANGED <<connected, isShuttingDown>>
       \/ connected /\ connected' = FALSE /\ isShuttingDown' = TRUE
    /\ UNCHANGED <<connecting, session>>
    /\ shutdownReturned' = TRUE
    /\ Finish(c, "ok")

-----------------------------------------------------------------------------
\* emit("connected"): every listener's promise is settled, and the creator's.
Wake(c, where) ==
    pc' = [d \in Caller |-> IF d = c \/ pc[d] = "waiting" THEN where ELSE pc[d]]

\* Faulty: the event is not emitted: the waiters are forgotten.
CreateFails_NoEmit(c) ==
    /\ pc[c] = "creating"
    /\ connected' = FALSE
    /\ connecting' = FALSE
    /\ pc' = [pc EXCEPT ![c] = "rejected"]
    /\ UNCHANGED <<isShuttingDown, session, outcome>>
    /\ Stay

\* #connect() after createSession failed: reset, tell the waiters, throw.
CreateFails(c) ==
    /\ pc[c] = "creating"
    /\ connected' = FALSE
    /\ connecting' = FALSE
    /\ Wake(c, "rejected")
    /\ UNCHANGED <<isShuttingDown, session, outcome>>
    /\ Stay

\* #connect() after createSession succeeded.
CreateSucceeds(c) ==
    /\ pc[c] = "creating"
    /\ session' = session + 1
    /\ connected' = TRUE
    /\ connecting' = FALSE
    /\ Wake(c, "resolved")
    /\ UNCHANGED <<isShuttingDown, outcome>>
    /\ Stay

\* The code after "await this.#connect()": the end of connect(), or the first use
\* of the session. Options and parameters may turn out to be invalid here.
Resume(c) ==
    /\ pc[c] = "resolved"
    /\ \/ kind[c] = "connect" /\ Finish(c, "ok")
       \/ kind[c] # "connect" /\ Finish(c, "error")
       \/ kind[c] # "connect" /\ Goto(c, Stage(left[c]))
    /\ UNCHANGED client
    /\ Stay

Rethrow(c) ==
    /\ pc[c] = "rejected"
    /\ Finish(c, "error")
    /\ UNCHANGED client
    /\ Stay

\* prepareStatement is answered: prepareQuery() returns, or the query goes on with
\* its next statement (encodeParams may throw in between).
Prepared(c) ==
    /\ pc[c] = "preparing"
    /\ left' = [left EXCEPT ![c] = @ - 1]
    /\ \/ kind[c] = "prepare" /\ Finish(c, "ok")
       \/ kind[c] # "prepare" /\ Goto(c, Stage(left[c] - 1))
       \/ Finish(c, "error")
    /\ UNCHANGED <<client, kind, era, shutdownReturned, ops>>

\* The statement or the batch is answered.
Executed(c) ==
    /\ pc[c] = "executing"
    /\ \E how \in {"ok", "error"} : Finish(c, how)
    /\ UNCHANGED client
    /\ Stay

Call(c) ==
    \/ BeginConnect(c)
    \/ \E n \in 0 .. 1 : BeginExecute(c, n)
    \/ \E n \in 0 .. MaxStatements : BeginBatch(c, n)
    \/ BeginPrepare(c)
    \/ BeginShutdown(c)

Continue(c) ==
    \/ CreateFails(c)
    \/ CreateSucceeds(c)
    \/ Resume(c)
    \/ Rethrow(c)
    \/ Prepared(c)
    \/ Executed(c)

Next == \E c \in Caller : Call(c) \/ Continue(c)

\* Nobody has to make a call, but the native side answers every request (the Rust
\* driver bounds connecting and each request in time) and the event loop runs every
\* continuation.
Fairness == \A c \in Caller : WF_vars(Continue(c))

Spec == Init /\ [][Next]_vars /\ Fairness

-----------------------------------------------------------------------------
\* The fields of the client and of its callers hold values of their kinds; no call has
\* fewer than no statements left to prepare.
TypeOK ==
    /\ connected \in BOOLEAN
    /\ connecting \in BOOLEAN
    /\ isShuttingDown \in BOOLEAN
    /\ session \in Nat
    /\ pc \in [Caller -> Suspended \cup {"idle"}]
    /\ kind \in [Caller -> Kind]
    /\ left \in [Caller -> Nat]
    /\ outcome \in [Caller -> {"none", "ok", "error", "typeError"}]
    /\ era \in [Caller -> {"before", "afterCall", "afterEffect"}]
    /\ shutdownReturned \in BOOLEAN
    /\ ops \in [Caller -> 0 .. MaxOps]

\* connecting is TRUE exactly while one single createSession is outstanding, and
\* never together with connected or after a shutdown took effect: the guards of
\* #connect() keep concurrent calls from opening two sessions, and make the
\* "Shutting down while connecting" branch of #shutdown() dead code.
Handshake ==
    /\ connecting <=> \E c \in Caller : pc[c] = "creating"
    /\ \A c, d \in Caller : pc[c] = "creating" /\ pc[d] = "creating" => c = d
    /\ connecting => ~connected /\ ~isShuttingDown
    /\ isShuttingDown => ~connected

\* A caller waits for the "connected" event only while somebody is going to emit it.
NoLostWaiter == \A c \in Caller : pc[c] = "waiting" => connecting

\* All callers that find the client disconnected share one attempt to connect, and each
\* of them is told how it ended.
ConnectionShared == TypeOK /\ Handshake /\ NoLostWaiter

\* execute() and batch() never reach for rustClient before there is one, although
\* the check and the use are separated by awaits.
SessionBeforeUse ==
    \A c \in Caller :
        pc[c] \in OnDatabase \cup {"resolved"} => session # NoSession

\* Once a client has a session it keeps that session: a call that prepared on it
\* also executes on it.
SessionIsKept == [][session # NoSession => session' = session]_session

\* Once shutdown() took effect, a query that begins is never sent, and no call of
\* connect(), execute() or batch() that begins is fulfilled.
ShutdownIsFinal ==
    \A c \in Caller :
        era[c] = "afterEffect" /\ kind[c] \in {"connect", "execute", "batch"} =>
            /\ pc[c] \notin OnDatabase
            /\ pc[c] = "idle" => outcome[c] = "error"

\* What the documentation of shutdown() promises: queries that begin after
\* shutdown() has completed are not executed.
ShutdownPreventsNewQueries ==
    \A c \in Caller :
        era[c] # "before" /\ kind[c] \in {"execute", "batch"} => pc[c] # "executing"

\* Every call on the client is eventually answered.
EveryCallSettles == \A c \in Caller : pc[c] # "idle" ~> pc[c] = "idle"
=============================================================================
