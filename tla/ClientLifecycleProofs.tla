------------------------ MODULE ClientLifecycleProofs ------------------------
(***************************************************************************)
(* For every number of callers, calls and statements: concurrent calls     *)
(* never open a second session, never wait for an event nobody emits, never *)
(* use a session that is not there, and a shutdown that took effect is     *)
(* final.                                                                  *)
(***************************************************************************)
EXTENDS ClientLifecycle, TLAPS

\* A session exists exactly when the client is connected or was once shut down:
\* #connect() cannot be entered for a second time, so rustClient is set only once.
SessionState == session # NoSession <=> connected \/ isShuttingDown

\* A call awaits prepareStatement only for a statement it still has to prepare.
StatementsLeft == \A c \in Caller : pc[c] = "preparing" => left[c] > 0

\* ShutdownIsFinal with the one place where a late call can still be suspended.
LateCalls ==
    \A c \in Caller :
        era[c] = "afterEffect" =>
            /\ isShuttingDown
            /\ kind[c] \in {"connect", "execute", "batch"} =>
                  /\ pc[c] \in {"idle", "rejected"}
                  /\ pc[c] = "idle" => outcome[c] = "error"

IInv ==
    /\ TypeOK
    /\ Handshake
    /\ NoLostWaiter
    /\ SessionState
    /\ SessionBeforeUse
    /\ StatementsLeft
    /\ LateCalls

\* A client that was just made satisfies the invariant.
LEMMA InitInv == Init => IInv
  <1> SUFFICES ASSUME Init PROVE IInv
    OBVIOUS
  <1>1. TypeOK
    <2>1. /\ connected \in BOOLEAN /\ connecting \in BOOLEAN
          /\ isShuttingDown \in BOOLEAN /\ shutdownReturned \in BOOLEAN
      BY Zenon DEF Init
    <2>2. /\ session \in Nat
          /\ ops \in [Caller -> 0 .. MaxOps] /\ left \in [Caller -> Nat]
      BY LifecycleAssumption DEF Init, NoSession
    <2>3. /\ pc \in [Caller -> Suspended \cup {"idle"}]
          /\ kind \in [Caller -> Kind]
          /\ outcome \in [Caller -> {"none", "ok", "error", "typeError"}]
          /\ era \in [Caller -> {"before", "afterCall", "afterEffect"}]
      BY DEF Init, Kind
    <2> QED
      BY <2>1, <2>2, <2>3 DEF TypeOK
  <1>2. Handshake /\ NoLostWaiter /\ StatementsLeft /\ LateCalls
    BY DEF Init, Handshake, NoLostWaiter, StatementsLeft, LateCalls
  <1>3. SessionState /\ SessionBeforeUse
    BY DEF Init, SessionState, SessionBeforeUse, OnDatabase
  <1> QED
    BY <1>1, <1>2, <1>3 DEF IInv

\* The bookkeeping of a call that begins is well typed.
LEMMA BeginType ==
    ASSUME TypeOK, NEW c \in Caller, NEW k \in Kind, NEW n \in Nat, Begin(c, k, n)
    PROVE  /\ ops' \in [Caller -> 0 .. MaxOps]
           /\ kind' \in [Caller -> Kind]
           /\ left' \in [Caller -> Nat]
           /\ era' \in [Caller -> {"before", "afterCall", "afterEffect"}]
  <1>1. ops' \in [Caller -> 0 .. MaxOps]
    BY LifecycleAssumption DEF TypeOK, Begin
  <1>2. kind' \in [Caller -> Kind] /\ left' \in [Caller -> Nat]
    BY DEF TypeOK, Begin
  <1>3. era' \in [Caller -> {"before", "afterCall", "afterEffect"}]
    BY DEF TypeOK, Begin
  <1> QED
    BY <1>1, <1>2, <1>3

\* Types are kept.
LEMMA TypeOKStep ==
    ASSUME IInv, [Next]_vars
    PROVE  TypeOK'
  <1> USE LifecycleAssumption
      DEF IInv, TypeOK, StatementsLeft, Suspended, Kind, client, Goto,
          Finish
  <1>1. ASSUME NEW c \in Caller, BeginConnect(c)
        PROVE  TypeOK'
    BY <1>1, BeginType DEF BeginConnect, EnterConnect
  <1>2. ASSUME NEW c \in Caller, NEW n \in 0 .. 1, BeginExecute(c, n)
        PROVE  TypeOK'
    <2>1. n \in Nat
      BY <1>2
    <2> QED
      BY <1>2, <2>1, BeginType DEF BeginExecute, EnterConnect, Stage
  <1>3. ASSUME NEW c \in Caller, NEW n \in 0 .. MaxStatements,
               BeginBatch(c, n)
        PROVE  TypeOK'
    <2>1. n \in Nat
      BY <1>3
    <2> QED
      BY <1>3, <2>1, BeginType DEF BeginBatch, EnterConnect
  <1>4. ASSUME NEW c \in Caller, BeginPrepare(c)
        PROVE  TypeOK'
    BY <1>4, BeginType DEF BeginPrepare
  <1>5. ASSUME NEW c \in Caller, BeginShutdown(c)
        PROVE  TypeOK'
    BY <1>5, BeginType DEF BeginShutdown
  <1>6. ASSUME NEW c \in Caller, CreateFails(c)
        PROVE  TypeOK'
    BY <1>6 DEF CreateFails, Wake, Stay
  <1>7. ASSUME NEW c \in Caller, CreateSucceeds(c)
        PROVE  TypeOK'
    <2>1. session' \in Nat
      BY <1>7 DEF CreateSucceeds
    <2>2. connected' \in BOOLEAN /\ connecting' \in BOOLEAN
      BY <1>7, Zenon DEF CreateSucceeds
    <2>3. pc' \in [Caller -> Suspended \cup {"idle"}]
      BY <1>7 DEF CreateSucceeds, Wake
    <2> QED
      BY <1>7, <2>1, <2>2, <2>3 DEF CreateSucceeds, Stay
  <1>8. ASSUME NEW c \in Caller, Resume(c)
        PROVE  TypeOK'
    BY <1>8 DEF Resume, Stay, Stage
  <1>9. ASSUME NEW c \in Caller, Rethrow(c)
        PROVE  TypeOK'
    BY <1>9 DEF Rethrow, Stay
  <1>10. ASSUME NEW c \in Caller, Prepared(c)
        PROVE  TypeOK'
    BY <1>10 DEF Prepared, Stage
  <1>11. ASSUME NEW c \in Caller, Executed(c)
        PROVE  TypeOK'
    BY <1>11 DEF Executed, Stay
  <1>12. CASE UNCHANGED vars
    BY <1>12 DEF vars
  <1> QED
    BY <1>1, <1>2, <1>3, <1>4, <1>5, <1>6, <1>7, <1>8, <1>9, <1>10, <1>11, <1>12
    DEF Next, Call, Continue

\* Only one caller at a time gets past the guards of #connect().
LEMMA HandshakeStep ==
    ASSUME IInv, [Next]_vars
    PROVE  Handshake'
  <1> USE LifecycleAssumption
      DEF IInv, TypeOK, Handshake, client, Begin, Goto,
          Finish
  <1>1. ASSUME NEW c \in Caller, BeginConnect(c)
        PROVE  Handshake'
    BY <1>1 DEF BeginConnect, EnterConnect
  <1>2. ASSUME NEW c \in Caller, NEW n \in 0 .. 1, BeginExecute(c, n)
        PROVE  Handshake'
    BY <1>2 DEF BeginExecute, EnterConnect, Stage
  <1>3. ASSUME NEW c \in Caller, NEW n \in 0 .. MaxStatements,
               BeginBatch(c, n)
        PROVE  Handshake'
    BY <1>3 DEF BeginBatch, EnterConnect
  <1>4. ASSUME NEW c \in Caller, BeginPrepare(c)
        PROVE  Handshake'
    BY <1>4 DEF BeginPrepare
  <1>5. ASSUME NEW c \in Caller, BeginShutdown(c)
        PROVE  Handshake'
    BY <1>5 DEF BeginShutdown
  <1>6. ASSUME NEW c \in Caller, CreateFails(c)
        PROVE  Handshake'
    BY <1>6 DEF CreateFails, Wake, Stay
  <1>7. ASSUME NEW c \in Caller, CreateSucceeds(c)
        PROVE  Handshake'
    BY <1>7 DEF CreateSucceeds, Wake, Stay
  <1>8. ASSUME NEW c \in Caller, Resume(c)
        PROVE  Handshake'
    BY <1>8 DEF Resume, Stay, Stage
  <1>9. ASSUME NEW c \in Caller, Rethrow(c)
        PROVE  Handshake'
    BY <1>9 DEF Rethrow, Stay
  <1>10. ASSUME NEW c \in Caller, Prepared(c)
        PROVE  Handshake'
    BY <1>10 DEF Prepared, Stage
  <1>11. ASSUME NEW c \in Caller, Executed(c)
        PROVE  Handshake'
    BY <1>11 DEF Executed, Stay
  <1>12. CASE UNCHANGED vars
    BY <1>12 DEF vars
  <1> QED
    BY <1>1, <1>2, <1>3, <1>4, <1>5, <1>6, <1>7, <1>8, <1>9, <1>10, <1>11, <1>12
    DEF Next, Call, Continue

\* Whoever settles the attempt wakes everybody who waits for it.
LEMMA NoLostWaiterStep ==
    ASSUME IInv, [Next]_vars
    PROVE  NoLostWaiter'
  <1> USE LifecycleAssumption
      DEF IInv, TypeOK, Handshake, NoLostWaiter, client, Begin, Goto,
          Finish
  <1>1. ASSUME NEW c \in Caller, BeginConnect(c)
        PROVE  NoLostWaiter'
    BY <1>1 DEF BeginConnect, EnterConnect
  <1>2. ASSUME NEW c \in Caller, NEW n \in 0 .. 1, BeginExecute(c, n)
        PROVE  NoLostWaiter'
    BY <1>2 DEF BeginExecute, EnterConnect, Stage
  <1>3. ASSUME NEW c \in Caller, NEW n \in 0 .. MaxStatements,
               BeginBatch(c, n)
        PROVE  NoLostWaiter'
    BY <1>3 DEF BeginBatch, EnterConnect
  <1>4. ASSUME NEW c \in Caller, BeginPrepare(c)
        PROVE  NoLostWaiter'
    BY <1>4 DEF BeginPrepare
  <1>5. ASSUME NEW c \in Caller, BeginShutdown(c)
        PROVE  NoLostWaiter'
    BY <1>5 DEF BeginShutdown
  <1>6. ASSUME NEW c \in Caller, CreateFails(c)
        PROVE  NoLostWaiter'
    BY <1>6 DEF CreateFails, Wake, Stay
  <1>7. ASSUME NEW c \in Caller, CreateSucceeds(c)
        PROVE  NoLostWaiter'
    BY <1>7 DEF CreateSucceeds, Wake, Stay
  <1>8. ASSUME NEW c \in Caller, Resume(c)
        PROVE  NoLostWaiter'
    BY <1>8 DEF Resume, Stay, Stage
  <1>9. ASSUME NEW c \in Caller, Rethrow(c)
        PROVE  NoLostWaiter'
    BY <1>9 DEF Rethrow, Stay
  <1>10. ASSUME NEW c \in Caller, Prepared(c)
        PROVE  NoLostWaiter'
    BY <1>10 DEF Prepared, Stage
  <1>11. ASSUME NEW c \in Caller, Executed(c)
        PROVE  NoLostWaiter'
    BY <1>11 DEF Executed, Stay
  <1>12. CASE UNCHANGED vars
    BY <1>12 DEF vars
  <1> QED
    BY <1>1, <1>2, <1>3, <1>4, <1>5, <1>6, <1>7, <1>8, <1>9, <1>10, <1>11, <1>12
    DEF Next, Call, Continue

\* rustClient is set by the one attempt that succeeds.
LEMMA SessionStateStep ==
    ASSUME IInv, [Next]_vars
    PROVE  SessionState'
  <1> USE LifecycleAssumption
      DEF IInv, TypeOK, Handshake, SessionState, NoSession, client,
          Begin, Goto, Finish
  <1>1. ASSUME NEW c \in Caller, BeginConnect(c)
        PROVE  SessionState'
    BY <1>1 DEF BeginConnect, EnterConnect
  <1>2. ASSUME NEW c \in Caller, NEW n \in 0 .. 1, BeginExecute(c, n)
        PROVE  SessionState'
    BY <1>2 DEF BeginExecute, EnterConnect, Stage
  <1>3. ASSUME NEW c \in Caller, NEW n \in 0 .. MaxStatements,
               BeginBatch(c, n)
        PROVE  SessionState'
    BY <1>3 DEF BeginBatch, EnterConnect
  <1>4. ASSUME NEW c \in Caller, BeginPrepare(c)
        PROVE  SessionState'
    BY <1>4 DEF BeginPrepare
  <1>5. ASSUME NEW c \in Caller, BeginShutdown(c)
        PROVE  SessionState'
    BY <1>5 DEF BeginShutdown
  <1>6. ASSUME NEW c \in Caller, CreateFails(c)
        PROVE  SessionState'
    BY <1>6 DEF CreateFails, Wake, Stay
  <1>7. ASSUME NEW c \in Caller, CreateSucceeds(c)
        PROVE  SessionState'
    BY <1>7 DEF CreateSucceeds, Wake, Stay
  <1>8. ASSUME NEW c \in Caller, Resume(c)
        PROVE  SessionState'
    BY <1>8 DEF Resume, Stay, Stage
  <1>9. ASSUME NEW c \in Caller, Rethrow(c)
        PROVE  SessionState'
    BY <1>9 DEF Rethrow, Stay
  <1>10. ASSUME NEW c \in Caller, Prepared(c)
        PROVE  SessionState'
    BY <1>10 DEF Prepared, Stage
  <1>11. ASSUME NEW c \in Caller, Executed(c)
        PROVE  SessionState'
    BY <1>11 DEF Executed, Stay
  <1>12. CASE UNCHANGED vars
    BY <1>12 DEF vars
  <1> QED
    BY <1>1, <1>2, <1>3, <1>4, <1>5, <1>6, <1>7, <1>8, <1>9, <1>10, <1>11, <1>12
    DEF Next, Call, Continue

\* A call moves on only over a session.
LEMMA SessionBeforeUseStep ==
    ASSUME IInv, [Next]_vars
    PROVE  SessionBeforeUse'
  <1> USE LifecycleAssumption
      DEF IInv, TypeOK, SessionState, SessionBeforeUse, OnDatabase,
          NoSession, client, Begin, Goto, Finish
  <1>1. ASSUME NEW c \in Caller, BeginConnect(c)
        PROVE  SessionBeforeUse'
    BY <1>1 DEF BeginConnect, EnterConnect
  <1>2. ASSUME NEW c \in Caller, NEW n \in 0 .. 1, BeginExecute(c, n)
        PROVE  SessionBeforeUse'
    BY <1>2 DEF BeginExecute, EnterConnect, Stage
  <1>3. ASSUME NEW c \in Caller, NEW n \in 0 .. MaxStatements,
               BeginBatch(c, n)
        PROVE  SessionBeforeUse'
    BY <1>3 DEF BeginBatch, EnterConnect
  <1>4. ASSUME NEW c \in Caller, BeginPrepare(c)
        PROVE  SessionBeforeUse'
    BY <1>4 DEF BeginPrepare
  <1>5. ASSUME NEW c \in Caller, BeginShutdown(c)
        PROVE  SessionBeforeUse'
    BY <1>5 DEF BeginShutdown
  <1>6. ASSUME NEW c \in Caller, CreateFails(c)
        PROVE  SessionBeforeUse'
    BY <1>6 DEF CreateFails, Wake, Stay
  <1>7. ASSUME NEW c \in Caller, CreateSucceeds(c)
        PROVE  SessionBeforeUse'
    BY <1>7 DEF CreateSucceeds, Wake, Stay
  <1>8. ASSUME NEW c \in Caller, Resume(c)
        PROVE  SessionBeforeUse'
    BY <1>8 DEF Resume, Stay, Stage
  <1>9. ASSUME NEW c \in Caller, Rethrow(c)
        PROVE  SessionBeforeUse'
    BY <1>9 DEF Rethrow, Stay
  <1>10. ASSUME NEW c \in Caller, Prepared(c)
        PROVE  SessionBeforeUse'
    BY <1>10 DEF Prepared, Stage
  <1>11. ASSUME NEW c \in Caller, Executed(c)
        PROVE  SessionBeforeUse'
    BY <1>11 DEF Executed, Stay
  <1>12. CASE UNCHANGED vars
    BY <1>12 DEF vars
  <1> QED
    BY <1>1, <1>2, <1>3, <1>4, <1>5, <1>6, <1>7, <1>8, <1>9, <1>10, <1>11, <1>12
    DEF Next, Call, Continue

\* A call prepares only what it still has to prepare.
LEMMA StatementsLeftStep ==
    ASSUME IInv, [Next]_vars
    PROVE  StatementsLeft'
  <1> USE LifecycleAssumption
      DEF IInv, TypeOK, StatementsLeft, client, Begin, Goto,
          Finish
  <1>1. ASSUME NEW c \in Caller, BeginConnect(c)
        PROVE  StatementsLeft'
    BY <1>1 DEF BeginConnect, EnterConnect
  <1>2. ASSUME NEW c \in Caller, NEW n \in 0 .. 1, BeginExecute(c, n)
        PROVE  StatementsLeft'
    BY <1>2 DEF BeginExecute, EnterConnect, Stage
  <1>3. ASSUME NEW c \in Caller, NEW n \in 0 .. MaxStatements,
               BeginBatch(c, n)
        PROVE  StatementsLeft'
    BY <1>3 DEF BeginBatch, EnterConnect
  <1>4. ASSUME NEW c \in Caller, BeginPrepare(c)
        PROVE  StatementsLeft'
    BY <1>4 DEF BeginPrepare
  <1>5. ASSUME NEW c \in Caller, BeginShutdown(c)
        PROVE  StatementsLeft'
    BY <1>5 DEF BeginShutdown
  <1>6. ASSUME NEW c \in Caller, CreateFails(c)
        PROVE  StatementsLeft'
    BY <1>6 DEF CreateFails, Wake, Stay
  <1>7. ASSUME NEW c \in Caller, CreateSucceeds(c)
        PROVE  StatementsLeft'
    BY <1>7 DEF CreateSucceeds, Wake, Stay
  <1>8. ASSUME NEW c \in Caller, Resume(c)
        PROVE  StatementsLeft'
    BY <1>8 DEF Resume, Stay, Stage
  <1>9. ASSUME NEW c \in Caller, Rethrow(c)
        PROVE  StatementsLeft'
    BY <1>9 DEF Rethrow, Stay
  <1>10. ASSUME NEW c \in Caller, Prepared(c)
        PROVE  StatementsLeft'
    BY <1>10 DEF Prepared, Stage
  <1>11. ASSUME NEW c \in Caller, Executed(c)
        PROVE  StatementsLeft'
    BY <1>11 DEF Executed, Stay
  <1>12. CASE UNCHANGED vars
    BY <1>12 DEF vars
  <1> QED
    BY <1>1, <1>2, <1>3, <1>4, <1>5, <1>6, <1>7, <1>8, <1>9, <1>10, <1>11, <1>12
    DEF Next, Call, Continue

\* A call that begins on a client that was shut down is turned away.
LEMMA LateCallsStep ==
    ASSUME IInv, [Next]_vars
    PROVE  LateCalls'
  <1> USE LifecycleAssumption
      DEF IInv, TypeOK, Handshake, LateCalls, Kind, client, Begin,
          Goto, Finish
  <1>1. ASSUME NEW c \in Caller, BeginConnect(c)
        PROVE  LateCalls'
    BY <1>1 DEF BeginConnect, EnterConnect
  <1>2. ASSUME NEW c \in Caller, NEW n \in 0 .. 1, BeginExecute(c, n)
        PROVE  LateCalls'
    BY <1>2 DEF BeginExecute, EnterConnect, Stage
  <1>3. ASSUME NEW c \in Caller, NEW n \in 0 .. MaxStatements,
               BeginBatch(c, n)
        PROVE  LateCalls'
    BY <1>3 DEF BeginBatch, EnterConnect
  <1>4. ASSUME NEW c \in Caller, BeginPrepare(c)
        PROVE  LateCalls'
    BY <1>4 DEF BeginPrepare
  <1>5. ASSUME NEW c \in Caller, BeginShutdown(c)
        PROVE  LateCalls'
    BY <1>5 DEF BeginShutdown
  <1>6. ASSUME NEW c \in Caller, CreateFails(c)
        PROVE  LateCalls'
    BY <1>6 DEF CreateFails, Wake, Stay
  <1>7. ASSUME NEW c \in Caller, CreateSucceeds(c)
        PROVE  LateCalls'
    BY <1>7 DEF CreateSucceeds, Wake, Stay
  <1>8. ASSUME NEW c \in Caller, Resume(c)
        PROVE  LateCalls'
    BY <1>8 DEF Resume, Stay, Stage
  <1>9. ASSUME NEW c \in Caller, Rethrow(c)
        PROVE  LateCalls'
    BY <1>9 DEF Rethrow, Stay
  <1>10. ASSUME NEW c \in Caller, Prepared(c)
        PROVE  LateCalls'
    BY <1>10 DEF Prepared, Stage
  <1>11. ASSUME NEW c \in Caller, Executed(c)
        PROVE  LateCalls'
    BY <1>11 DEF Executed, Stay
  <1>12. CASE UNCHANGED vars
    BY <1>12 DEF vars
  <1> QED
    BY <1>1, <1>2, <1>3, <1>4, <1>5, <1>6, <1>7, <1>8, <1>9, <1>10, <1>11, <1>12
    DEF Next, Call, Continue

\* Every call, continuation and answer of the session keeps the invariant.
LEMMA NextInv == IInv /\ [Next]_vars => IInv'
  BY TypeOKStep, HandshakeStep, NoLostWaiterStep, SessionStateStep,
     SessionBeforeUseStep, StatementsLeftStep, LateCallsStep
  DEF IInv

\* The invariant holds of the client at all times.
LEMMA SpecInv == Spec => []IInv
  BY InitInv, NextInv, PTL DEF Spec

-----------------------------------------------------------------------------
\* The client's fields and every suspended call keep their types.
THEOREM TypeCorrect == Spec => []TypeOK
  <1>1. IInv => TypeOK
    BY DEF IInv
  <1> QED
    BY <1>1, SpecInv, PTL

\* At most one createSession is outstanding, and never on a client that is connected
\* or shut down, however many calls of connect(), execute() and batch() overlap.
THEOREM SingleConnectionAttempt == Spec => []Handshake
  <1>1. IInv => Handshake
    BY DEF IInv
  <1> QED
    BY <1>1, SpecInv, PTL

\* Nobody waits for a "connected" event that is not going to be emitted.
THEOREM WaitersAreWoken == Spec => []NoLostWaiter
  <1>1. IInv => NoLostWaiter
    BY DEF IInv
  <1> QED
    BY <1>1, SpecInv, PTL

\* However many callers connect at once, they share one attempt and none is left waiting.
THEOREM AttemptIsShared == Spec => []ConnectionShared
  <1>1. IInv => ConnectionShared
    BY DEF IInv, ConnectionShared
  <1> QED
    BY <1>1, SpecInv, PTL

\* No query reaches for rustClient before it is set.
THEOREM SessionExistsWhenUsed == Spec => []SessionBeforeUse
  <1>1. IInv => SessionBeforeUse
    BY DEF IInv
  <1> QED
    BY <1>1, SpecInv, PTL

\* A session is never replaced: createSession succeeds at most once per client.
THEOREM SessionNeverReplaced == Spec => SessionIsKept
  <1>1. IInv /\ [Next]_vars => [session # NoSession => session' = session]_session
    <2> SUFFICES ASSUME IInv, [Next]_vars, session # NoSession
                 PROVE  session' = session
      OBVIOUS
    <2>1. \A c \in Caller : pc[c] # "creating"
      BY DEF IInv, Handshake, SessionState
    <2>2. ASSUME NEW c \in Caller, Call(c) PROVE session' = session
      BY <2>2 DEF Call, BeginConnect, BeginExecute, BeginBatch, BeginPrepare,
                  BeginShutdown, EnterConnect, client
    <2>3. ASSUME NEW c \in Caller, Continue(c) PROVE session' = session
      BY <2>1, <2>3 DEF Continue, CreateFails, CreateSucceeds, Resume, Rethrow,
                        Prepared, Executed, client
    <2>4. CASE UNCHANGED vars
      BY <2>4 DEF vars, client
    <2> QED
      BY <2>2, <2>3, <2>4 DEF Next
  <1> QED
    BY <1>1, SpecInv, PTL DEF Spec, SessionIsKept

\* After a shutdown that took effect no new query is sent and no new call of
\* connect(), execute() or batch() is fulfilled.
THEOREM EffectiveShutdownIsFinal == Spec => []ShutdownIsFinal
  <1>1. IInv => ShutdownIsFinal
    BY DEF IInv, LateCalls, ShutdownIsFinal, OnDatabase
  <1> QED
    BY <1>1, SpecInv, PTL
=============================================================================
