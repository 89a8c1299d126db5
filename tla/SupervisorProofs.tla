--------------------------- MODULE SupervisorProofs ---------------------------
(***************************************************************************)
(* The safety properties of Supervisor, for every poll interval, backoff   *)
(* limit and grace period.  None of them is inductive on its own; IInv is, *)
(* and each of its parts says what one location of the supervisor, or one  *)
(* field, promises about the others.                                       *)
(***************************************************************************)
EXTENDS Supervisor, TLAPS

\* While a session command runs, State says that there is no connection; the
\* packet filter is marked, or about to be, only under a connection.
ConnectedAt ==
    /\ pc \in {"connect", "verify", "verified", "kick"} => ~ciscoConnected
    /\ pc = "pfset" => ciscoConnected
    /\ pfDisabled => ciscoConnected

\* A published connection is announced before its tick ends.
AnnouncedAt == ciscoConnected /\ ~readyNotified => pc \in {"tail", "pfset"}

\* PFMarkTruthful, from the moment pfctl has succeeded.
FilterOff ==
    SlowAgent /\ (pfDisabled \/ pc = "pfset") /\ agent = "Connected" => ~pfOn

\* An agent that does not outrun the polls is still as the answer in hand says.
AnswerFresh == SlowAgent /\ InHand => answer = parseState(agent)

\* A running grace period was started in the spell of reconnecting that the
\* agent is in, or in one whose end no status command has reported yet.
GraceMeasuresSpell ==
    /\ pc \in {"connect", "verify", "verified"} => reconnectingSince = NoTime
    /\ SlowAgent /\ reconnectingSince # NoTime =>
         IF agent = "Reconnecting" THEN reconnectingSince <= stuckFor ELSE ~observed

\* The inductive invariant.
IInv ==
    /\ TypeOK
    /\ StatusNotContradicted
    /\ ConnectedAt
    /\ AnnouncedAt
    /\ AnswerFresh
    /\ FilterOff
    /\ BackoffForgotten
    /\ GraceMeasuresSpell

USE DEF locals, status, session, world, vars, InHand, Answered, Acted

\* Every step moves the goroutine, the agent and the session's owner to one of
\* their known values.
LEMMA PlacesStep == PlacesOK /\ [Next]_vars => PlacesOK'
<1> SUFFICES ASSUME PlacesOK, [Next]_vars PROVE PlacesOK'
    OBVIOUS
<1> USE DEF PlacesOK, Locations, AgentStates, Owners, Answers, parseState
<1>1. CASE Elapse
    BY <1>1 DEF Elapse, Earlier, Later
<1>2. CASE Wake
    BY <1>2 DEF Wake
<1>3. CASE Poll
    BY <1>3 DEF Poll, PollError, PollConnected, PollReconnecting, PollOther,
                PollAnswered, awaitReconnect, setConnected, resetConnectDelay,
                clearReconnectingSince
<1>4. CASE Connect
    BY <1>4 DEF Connect, ConnectAcquired, ConnectFails, ConnectRuns, ConnectEffect,
                Establish, Failed, doubled
<1>5. CASE Verify
    BY <1>5 DEF Verify, VerifyError, VerifyAnswered, VerifyNotConnected, VerifyConnected, Failed,
                doubled, setConnected, resetConnectDelay
<1>6. CASE Kick
    BY <1>6 DEF Kick, KickSucceeds, KickFails, DisconnectEffect, Drop
<1>7. CASE Tail
    BY <1>7 DEF Tail, TailDown, TailUp, TailDisablePF, MarkPFDisabled, notifyReady
<1>8. CASE Stop
    BY <1>8 DEF Stop, WakeCancelled, Shutdown, ShutdownDisconnect, setConnected,
                DisconnectEffect, Drop
<1>9. CASE Cancel
    BY <1>9 DEF Cancel
<1>10. CASE Agent
    BY <1>10 DEF Agent, AgentDrops, AgentResumes, AgentEnds, OtherConnects, Moves,
                 Establish, Drop
<1>11. CASE UNCHANGED vars
    BY <1>11
<1> QED
    BY <1>1, <1>2, <1>3, <1>4, <1>5, <1>6, <1>7, <1>8, <1>9, <1>10, <1>11
       DEF Next, Supervise

\* The times that the steps assign are in range.
LEMMA TimesInRange ==
    /\ 0 \in 0 .. Late /\ 0 \in NoTime .. Late /\ NoTime \in NoTime .. Late
    /\ PollInterval \in 0 .. MaxConnectDelay
    /\ PollInterval \in PollInterval .. MaxConnectDelay
BY PollIntervalAssumption, MaxConnectDelayAssumption, ReconnectGraceAssumption
   DEF NoTime, Late

\* Every step keeps the times in range; Backoff stays below the cap because it
\* takes the smaller of the doubled delay and the cap.
LEMMA TimesStep == TimesOK /\ [Next]_vars => TimesOK'
<1> SUFFICES ASSUME TimesOK, [Next]_vars PROVE TimesOK'
    OBVIOUS
<1> USE TimesInRange
<1> USE DEF TimesOK
<1>1. CASE Elapse
    BY <1>1, MaxConnectDelayAssumption, ReconnectGraceAssumption
       DEF NoTime, Late, Elapse, Earlier, Later
<1>2. CASE Wake
    BY <1>2 DEF Wake
<1>3. CASE Poll
    BY <1>3 DEF Poll, PollError, PollConnected, PollReconnecting, PollOther,
                PollAnswered, awaitReconnect, setConnected, resetConnectDelay,
                clearReconnectingSince
<1>4. CASE Connect
    BY <1>4, PollIntervalAssumption, MaxConnectDelayAssumption
       DEF Connect, ConnectAcquired, ConnectFails, ConnectRuns, ConnectEffect,
           Establish, Failed, doubled
<1>5. CASE Verify
    BY <1>5, PollIntervalAssumption, MaxConnectDelayAssumption
       DEF Verify, VerifyError, VerifyAnswered, VerifyNotConnected, VerifyConnected, Failed,
           doubled, setConnected, resetConnectDelay
<1>6. CASE Kick
    BY <1>6 DEF Kick, KickSucceeds, KickFails, DisconnectEffect, Drop
<1>7. CASE Tail
    BY <1>7 DEF Tail, TailDown, TailUp, TailDisablePF, MarkPFDisabled, notifyReady
<1>8. CASE Stop
    BY <1>8 DEF Stop, WakeCancelled, Shutdown, ShutdownDisconnect, setConnected,
                DisconnectEffect, Drop
<1>9. CASE Cancel
    BY <1>9 DEF Cancel
<1>10. CASE Agent
    BY <1>10 DEF Agent, AgentDrops, AgentResumes, AgentEnds, OtherConnects, Moves,
                 Establish, Drop
<1>11. CASE UNCHANGED vars
    BY <1>11
<1> QED
    BY <1>1, <1>2, <1>3, <1>4, <1>5, <1>6, <1>7, <1>8, <1>9, <1>10, <1>11
       DEF Next, Supervise

\* Every step keeps the flags Boolean.
LEMMA FlagsStep == FlagsOK /\ [Next]_vars => FlagsOK'
<1> SUFFICES ASSUME FlagsOK, [Next]_vars PROVE FlagsOK'
    OBVIOUS
<1> USE DEF FlagsOK
<1>1. CASE Elapse
    BY <1>1 DEF Elapse, Earlier, Later
<1>2. CASE Wake
    BY <1>2 DEF Wake
<1>3. CASE Poll
    BY <1>3 DEF Poll, PollError, PollConnected, PollReconnecting, PollOther,
                PollAnswered, awaitReconnect, setConnected, resetConnectDelay,
                clearReconnectingSince
<1>4. CASE Connect
    BY <1>4 DEF Connect, ConnectAcquired, ConnectFails, ConnectRuns, ConnectEffect,
                Establish, Failed, doubled
<1>5. CASE Verify
    BY <1>5 DEF Verify, VerifyError, VerifyAnswered, VerifyNotConnected, VerifyConnected, Failed,
                doubled, setConnected, resetConnectDelay
<1>6. CASE Kick
    BY <1>6 DEF Kick, KickSucceeds, KickFails, DisconnectEffect, Drop
<1>7. CASE Tail
    BY <1>7 DEF Tail, TailDown, TailUp, TailDisablePF, MarkPFDisabled, notifyReady
<1>8. CASE Stop
    BY <1>8 DEF Stop, WakeCancelled, Shutdown, ShutdownDisconnect, setConnected,
                DisconnectEffect, Drop
<1>9. CASE Cancel
    BY <1>9 DEF Cancel
<1>10. CASE Agent
    BY <1>10 DEF Agent, AgentDrops, AgentResumes, AgentEnds, OtherConnects, Moves,
                 Establish, Drop
<1>11. CASE UNCHANGED vars
    BY <1>11
<1> QED
    BY <1>1, <1>2, <1>3, <1>4, <1>5, <1>6, <1>7, <1>8, <1>9, <1>10, <1>11
       DEF Next, Supervise

\* A step that publishes a connection or makes an observation does both.
LEMMA StatusStep == IInv /\ [Next]_vars => StatusNotContradicted'
<1> SUFFICES ASSUME IInv, [Next]_vars PROVE StatusNotContradicted'
    OBVIOUS
<1> USE DEF IInv, TypeOK, FlagsOK, PlacesOK, StatusNotContradicted, ConnectedAt, parseState
<1>1. CASE Elapse
    BY <1>1 DEF Elapse
<1>2. CASE Wake
    BY <1>2 DEF Wake
<1>3. CASE Poll
    BY <1>3 DEF Poll, PollError, PollConnected, PollReconnecting, PollOther,
                PollAnswered, awaitReconnect, setConnected, resetConnectDelay,
                clearReconnectingSince
<1>4. CASE Connect
    BY <1>4 DEF Connect, ConnectAcquired, ConnectFails, ConnectRuns, ConnectEffect,
                Establish, Failed, doubled
<1>5. CASE Verify
    BY <1>5 DEF Verify, VerifyError, VerifyAnswered, VerifyNotConnected, VerifyConnected, Failed,
                doubled, setConnected, resetConnectDelay
<1>6. CASE Kick
    BY <1>6 DEF Kick, KickSucceeds, KickFails, DisconnectEffect, Drop
<1>7. CASE Tail
    BY <1>7 DEF Tail, TailDown, TailUp, TailDisablePF, MarkPFDisabled, notifyReady
<1>8. CASE Stop
    BY <1>8 DEF Stop, WakeCancelled, Shutdown, ShutdownDisconnect, setConnected,
                DisconnectEffect, Drop
<1>9. CASE Cancel
    BY <1>9 DEF Cancel
<1>10. CASE Agent
    BY <1>10 DEF Agent, AgentDrops, AgentResumes, AgentEnds, OtherConnects, Moves,
                 Establish, Drop
<1>11. CASE UNCHANGED vars
    BY <1>11
<1> QED
    BY <1>1, <1>2, <1>3, <1>4, <1>5, <1>6, <1>7, <1>8, <1>9, <1>10, <1>11
       DEF Next, Supervise

\* Only PollConnected and VerifyConnected publish a connection, and both leave
\* the session commands.
LEMMA ConnectedAtStep == IInv /\ [Next]_vars => ConnectedAt'
<1> SUFFICES ASSUME FlagsOK, ConnectedAt, [Next]_vars PROVE ConnectedAt'
    BY DEF IInv, TypeOK
<1> USE DEF ConnectedAt
<1>1. CASE Elapse
    BY <1>1 DEF Elapse
<1>2. CASE Wake
    BY <1>2 DEF Wake
<1>3. CASE Poll
  <2>1. CASE PollError
    BY <2>1 DEF PollError
  <2>2. CASE PollConnected
    BY <2>2 DEF PollConnected, setConnected, resetConnectDelay,
               clearReconnectingSince
  <2>3. CASE PollReconnecting
    BY <2>3 DEF PollReconnecting, awaitReconnect, setConnected
  <2>4. CASE PollOther
    BY <2>4 DEF PollOther, setConnected, clearReconnectingSince
  <2>5. CASE PollAnswered
    BY <2>5 DEF PollAnswered
  <2> QED
    BY <1>3, <2>1, <2>2, <2>3, <2>4, <2>5 DEF Poll
<1>4. CASE Connect
    BY <1>4 DEF Connect, ConnectAcquired, ConnectFails, ConnectRuns, Failed
<1>5. CASE Verify
    BY <1>5 DEF Verify, VerifyError, VerifyAnswered, VerifyNotConnected, VerifyConnected, Failed,
                setConnected
<1>6. CASE Kick
    BY <1>6 DEF Kick, KickSucceeds, KickFails
<1>7. CASE Tail
  <2>1. CASE TailDown
    BY <2>1 DEF TailDown
  <2>2. CASE TailUp
    BY <2>2 DEF TailUp
  <2>3. CASE TailDisablePF
    BY <2>3 DEF TailDisablePF
  <2>4. CASE MarkPFDisabled
    BY <2>4 DEF MarkPFDisabled
  <2> QED
    BY <1>7, <2>1, <2>2, <2>3, <2>4 DEF Tail
<1>8. CASE Stop
  <2>1. CASE WakeCancelled
    BY <2>1 DEF WakeCancelled
  <2>2. CASE Shutdown
    BY <2>2 DEF Shutdown, setConnected
  <2>3. CASE ShutdownDisconnect
    BY <2>3 DEF ShutdownDisconnect
  <2> QED
    BY <1>8, <2>1, <2>2, <2>3 DEF Stop
<1>9. CASE Cancel
    BY <1>9 DEF Cancel
<1>10. CASE Agent
    BY <1>10 DEF Agent, AgentDrops, AgentResumes, AgentEnds, OtherConnects, Moves
<1>11. CASE UNCHANGED vars
    BY <1>11
<1> QED
    BY <1>1, <1>2, <1>3, <1>4, <1>5, <1>6, <1>7, <1>8, <1>9, <1>10, <1>11
       DEF Next, Supervise

\* tick publishes a connection and announces it, and neither an error nor the
\* cancelled context leads past the announcement.
LEMMA AnnouncedStep == IInv /\ [Next]_vars => AnnouncedAt'
<1> SUFFICES ASSUME FlagsOK, ConnectedAt, AnnouncedAt, [Next]_vars PROVE AnnouncedAt'
    BY DEF IInv, TypeOK
<1> USE DEF FlagsOK, ConnectedAt, AnnouncedAt
<1>1. CASE Elapse
    BY <1>1 DEF Elapse
<1>2. CASE Wake
    BY <1>2 DEF Wake
<1>3. CASE Poll
    BY <1>3 DEF Poll, PollError, PollConnected, PollReconnecting, PollOther, PollAnswered,
                awaitReconnect, setConnected
<1>4. CASE Connect
    BY <1>4 DEF Connect, ConnectAcquired, ConnectFails, ConnectRuns, Failed
<1>5. CASE Verify
    BY <1>5 DEF Verify, VerifyError, VerifyAnswered, VerifyNotConnected, VerifyConnected, Failed,
                setConnected
<1>6. CASE Kick
    BY <1>6 DEF Kick, KickSucceeds, KickFails
<1>7. CASE Tail
    BY <1>7 DEF Tail, TailDown, TailUp, TailDisablePF, MarkPFDisabled, notifyReady
<1>8. CASE Stop
    BY <1>8 DEF Stop, WakeCancelled, Shutdown, ShutdownDisconnect, setConnected
<1>9. CASE Cancel
    BY <1>9 DEF Cancel
<1>10. CASE Agent
    BY <1>10 DEF Agent, AgentDrops, AgentResumes, AgentEnds, OtherConnects, Moves
<1>11. CASE UNCHANGED vars
    BY <1>11
<1> QED
    BY <1>1, <1>2, <1>3, <1>4, <1>5, <1>6, <1>7, <1>8, <1>9, <1>10, <1>11
       DEF Next, Supervise

\* Between the answer and its use no command runs, so only the agent could move.
LEMMA FreshStep == IInv /\ [Next]_vars => AnswerFresh'
<1> SUFFICES ASSUME AnswerFresh, [Next]_vars PROVE AnswerFresh'
    BY DEF IInv
<1> USE DEF AnswerFresh
<1>1. CASE Elapse \/ Cancel
    BY <1>1 DEF Elapse, Cancel
<1>2. CASE PollAnswered \/ VerifyAnswered
    BY <1>2 DEF PollAnswered, VerifyAnswered
<1>3. CASE Agent
    BY <1>3 DEF Agent, AgentDrops, AgentResumes, AgentEnds, OtherConnects, Moves
<1>4. CASE UNCHANGED vars
    BY <1>4
<1>5. CASE Supervise /\ ~PollAnswered /\ ~VerifyAnswered
  <2>1. pc' \notin {"polled", "verified"}
    BY <1>5 DEF Supervise, Poll, Connect, Verify, Kick, Tail, Stop, Wake, WakeCancelled,
       PollError, PollConnected, PollReconnecting, PollOther, awaitReconnect,
       ConnectAcquired, ConnectFails, ConnectRuns, VerifyError, VerifyNotConnected,
       VerifyConnected, Failed, KickSucceeds, KickFails, TailDown, TailUp,
       TailDisablePF, MarkPFDisabled, Shutdown, ShutdownDisconnect
  <2> QED
    BY <2>1
<1> QED
    BY <1>1, <1>2, <1>3, <1>4, <1>5 DEF Next

\* The filter comes on only with a session that starts while none is published.
LEMMA FilterOffStep == IInv /\ [Next]_vars => FilterOff'
<1> SUFFICES ASSUME IInv, [Next]_vars PROVE FilterOff'
    OBVIOUS
<1> USE DEF IInv, TypeOK, FlagsOK, PlacesOK, ConnectedAt, FilterOff, StatusNotContradicted
<1>1. CASE Elapse
    BY <1>1 DEF Elapse
<1>2. CASE Wake
    BY <1>2 DEF Wake
<1>3. CASE Poll
    BY <1>3 DEF Poll, PollError, PollConnected, PollReconnecting, PollOther,
                PollAnswered, awaitReconnect, setConnected, resetConnectDelay,
                clearReconnectingSince
<1>4. CASE Connect
    BY <1>4 DEF Connect, ConnectAcquired, ConnectFails, ConnectRuns, ConnectEffect,
                Establish, Failed, doubled
<1>5. CASE Verify
    BY <1>5 DEF Verify, VerifyError, VerifyAnswered, VerifyNotConnected, VerifyConnected, Failed,
                doubled, setConnected, resetConnectDelay
<1>6. CASE Kick
    BY <1>6 DEF Kick, KickSucceeds, KickFails, DisconnectEffect, Drop
<1>7. CASE Tail
    BY <1>7 DEF Tail, TailDown, TailUp, TailDisablePF, MarkPFDisabled, notifyReady
<1>8. CASE Stop
    BY <1>8 DEF Stop, WakeCancelled, Shutdown, ShutdownDisconnect, setConnected,
                DisconnectEffect, Drop
<1>9. CASE Cancel
    BY <1>9 DEF Cancel
<1>10. CASE Agent
    BY <1>10 DEF Agent, AgentDrops, AgentResumes, AgentEnds, OtherConnects, Moves,
                 Establish, Drop
<1>11. CASE UNCHANGED vars
    BY <1>11
<1> QED
    BY <1>1, <1>2, <1>3, <1>4, <1>5, <1>6, <1>7, <1>8, <1>9, <1>10, <1>11
       DEF Next, Supervise

\* The delay grows only in a failed connect, where no connection is published.
LEMMA BackoffStep == IInv /\ [Next]_vars => BackoffForgotten'
<1> SUFFICES ASSUME IInv, [Next]_vars PROVE BackoffForgotten'
    OBVIOUS
<1> USE DEF IInv, TypeOK, FlagsOK, PlacesOK, ConnectedAt, BackoffForgotten
<1>1. CASE Elapse
    BY <1>1 DEF Elapse
<1>2. CASE Wake
    BY <1>2 DEF Wake
<1>3. CASE Poll
    BY <1>3 DEF Poll, PollError, PollConnected, PollReconnecting, PollOther,
                PollAnswered, awaitReconnect, setConnected, resetConnectDelay,
                clearReconnectingSince
<1>4. CASE Connect
    BY <1>4 DEF Connect, ConnectAcquired, ConnectFails, ConnectRuns, ConnectEffect,
                Establish, Failed, doubled
<1>5. CASE Verify
    BY <1>5 DEF Verify, VerifyError, VerifyAnswered, VerifyNotConnected, VerifyConnected, Failed,
                doubled, setConnected, resetConnectDelay
<1>6. CASE Kick
    BY <1>6 DEF Kick, KickSucceeds, KickFails, DisconnectEffect, Drop
<1>7. CASE Tail
    BY <1>7 DEF Tail, TailDown, TailUp, TailDisablePF, MarkPFDisabled, notifyReady
<1>8. CASE Stop
    BY <1>8 DEF Stop, WakeCancelled, Shutdown, ShutdownDisconnect, setConnected,
                DisconnectEffect, Drop
<1>9. CASE Cancel
    BY <1>9 DEF Cancel
<1>10. CASE Agent
    BY <1>10 DEF Agent, AgentDrops, AgentResumes, AgentEnds, OtherConnects, Moves,
                 Establish, Drop
<1>11. CASE UNCHANGED vars
    BY <1>11
<1> QED
    BY <1>1, <1>2, <1>3, <1>4, <1>5, <1>6, <1>7, <1>8, <1>9, <1>10, <1>11
       DEF Next, Supervise

\* The grace period and the agent's spell advance together.
LEMMA GraceStep == IInv /\ [Next]_vars => GraceMeasuresSpell'
<1> SUFFICES ASSUME TimesOK, FlagsOK, AnswerFresh, GraceMeasuresSpell, [Next]_vars
             PROVE GraceMeasuresSpell'
    BY DEF IInv, TypeOK
<1> USE ReconnectGraceAssumption, SlowAgentAssumption
<1> USE DEF TimesOK, FlagsOK, AnswerFresh, GraceMeasuresSpell, NoTime, Late
<1>1. CASE Elapse
    BY <1>1 DEF Elapse, Earlier, Later
<1>2. CASE Wake
    BY <1>2 DEF Wake
<1>3. CASE Poll
  <2>1. CASE PollError
    BY <2>1 DEF PollError
  <2>2. CASE PollConnected
    BY <2>2 DEF PollConnected, setConnected, resetConnectDelay,
               clearReconnectingSince, parseState
  <2>3. CASE PollReconnecting
    BY <2>3 DEF PollReconnecting, awaitReconnect, setConnected, parseState
  <2>4. CASE PollOther
    BY <2>4 DEF PollOther, setConnected, clearReconnectingSince, parseState
  <2>5. CASE PollAnswered
    BY <2>5 DEF PollAnswered
  <2> QED
    BY <1>3, <2>1, <2>2, <2>3, <2>4, <2>5 DEF Poll
<1>4. CASE Connect
    BY <1>4 DEF Connect, ConnectAcquired, ConnectFails, ConnectRuns, ConnectEffect,
                Establish, Failed, doubled
<1>5. CASE Verify
    BY <1>5 DEF Verify, VerifyError, VerifyAnswered, VerifyNotConnected, VerifyConnected, Failed,
                doubled, setConnected, resetConnectDelay
<1>6. CASE Kick
  <2>1. CASE KickSucceeds
    BY <2>1 DEF KickSucceeds, Drop
  <2>2. CASE KickFails
    <3>1. CASE Drop
      BY <2>2, <3>1 DEF KickFails, DisconnectEffect, Drop
    <3>2. CASE UNCHANGED world
      BY <2>2, <3>2 DEF KickFails
    <3> QED
      BY <2>2, <3>1, <3>2 DEF KickFails, DisconnectEffect
  <2> QED
    BY <1>6, <2>1, <2>2 DEF Kick
<1>7. CASE Tail
  <2>1. CASE TailDown
    BY <2>1 DEF TailDown
  <2>2. CASE TailUp
    BY <2>2 DEF TailUp
  <2>3. CASE TailDisablePF
    BY <2>3 DEF TailDisablePF
  <2>4. CASE MarkPFDisabled
    BY <2>4 DEF MarkPFDisabled
  <2> QED
    BY <1>7, <2>1, <2>2, <2>3, <2>4 DEF Tail
<1>8. CASE Stop
  <2>1. CASE WakeCancelled
    BY <2>1 DEF WakeCancelled
  <2>2. CASE Shutdown
    BY <2>2 DEF Shutdown, setConnected
  <2>3. CASE ShutdownDisconnect
    <3>1. CASE Drop
      BY <2>3, <3>1 DEF ShutdownDisconnect, Drop
    <3>2. CASE UNCHANGED world
      BY <2>3, <3>2 DEF ShutdownDisconnect
    <3> QED
      BY <2>3, <3>1, <3>2 DEF ShutdownDisconnect, DisconnectEffect
  <2> QED
    BY <1>8, <2>1, <2>2, <2>3 DEF Stop
<1>9. CASE Cancel
    BY <1>9 DEF Cancel
<1>10. CASE Agent
  <2>1. ASSUME NEW a \in AgentStates, AgentDrops(a) PROVE GraceMeasuresSpell'
    BY <2>1 DEF AgentDrops, Moves
  <2>2. CASE AgentResumes
    BY <2>2 DEF AgentResumes, Moves, Establish
  <2>3. CASE AgentEnds
    BY <2>3 DEF AgentEnds, Moves, Drop
  <2>4. CASE OtherConnects
    BY <2>4 DEF OtherConnects, Moves, Establish
  <2> QED
    BY <1>10, <2>1, <2>2, <2>3, <2>4 DEF Agent
<1>11. CASE UNCHANGED vars
    BY <1>11
<1> QED
    BY <1>1, <1>2, <1>3, <1>4, <1>5, <1>6, <1>7, <1>8, <1>9, <1>10, <1>11
       DEF Next, Supervise

\* The invariant holds at the start and every step keeps it.
LEMMA IInvInductive == Spec => []IInv
<1>1. Init => IInv
  <2> SUFFICES ASSUME Init PROVE IInv
    OBVIOUS
  <2>1. PlacesOK
    BY DEF Init, PlacesOK, Locations, AgentStates, Owners
  <2>2. TimesOK
    BY TimesInRange, MaxConnectDelayAssumption DEF Init, TimesOK
  <2>3. FlagsOK
    BY DEF Init, FlagsOK
  <2>4. /\ StatusNotContradicted /\ ConnectedAt /\ AnnouncedAt /\ AnswerFresh
        /\ FilterOff /\ BackoffForgotten
    BY DEF Init, StatusNotContradicted, ConnectedAt, AnnouncedAt, AnswerFresh, FilterOff,
           BackoffForgotten
  <2>5. GraceMeasuresSpell
    BY DEF Init, GraceMeasuresSpell
  <2> QED
    BY <2>1, <2>2, <2>3, <2>4, <2>5 DEF IInv, TypeOK
<1>2. IInv /\ [Next]_vars => IInv'
    BY PlacesStep, TimesStep, FlagsStep, StatusStep, ConnectedAtStep, AnnouncedStep, FreshStep,
       FilterOffStep, BackoffStep, GraceStep
       DEF IInv, TypeOK
<1> QED
    BY <1>1, <1>2, PTL DEF Spec

\* The types hold: the backoff of connect stays between ciscoPollInterval and
\* ciscoMaxConnectDelay, and so does every sleep of startCisco.
THEOREM TypeCorrect == Spec => []TypeOK
<1>1. IInv => TypeOK
    BY DEF IInv
<1> QED
    BY <1>1, IInvInductive, PTL

\* State.CiscoConnected never contradicts the last status answer, at whatever
\* speed the agent moves.
THEOREM StatusCorrect == Spec => []StatusNotContradicted
<1>1. IInv => StatusNotContradicted
    BY DEF IInv
<1> QED
    BY <1>1, IInvInductive, PTL

\* disablePF's mark is true under every session that began after a poll had
\* reported the loss of the one before.
THEOREM PFMarkCorrect == Spec => []PFMarkTruthful
<1>1. IInv => PFMarkTruthful
    BY DEF IInv, FilterOff, PFMarkTruthful
<1> QED
    BY <1>1, IInvInductive, PTL

\* A published connection has reset the backoff of connect.
THEOREM BackoffCorrect == Spec => []BackoffForgotten
<1>1. IInv => BackoffForgotten
    BY DEF IInv
<1> QED
    BY <1>1, IInvInductive, PTL

\* awaitReconnect kicks only an agent that has been reconnecting past the grace
\* period, if no spell of reconnecting begins and ends between two polls.
THEOREM KickCorrect == ASSUME SlowAgent PROVE Spec => KickOnlyStuck
<1>1. IInv /\ [Next]_vars
        => [pc # "kick" /\ pc' = "kick" => stuckFor > ReconnectGrace]_vars
  <2> SUFFICES ASSUME IInv, [Next]_vars, pc # "kick", pc' = "kick"
               PROVE stuckFor > ReconnectGrace
    OBVIOUS
  <2>1. PollReconnecting
    BY DEF Next, Supervise, Poll, Connect, Verify, Kick, Tail, Stop, Agent, Elapse,
       Wake, WakeCancelled, PollError, PollConnected, PollOther, ConnectAcquired,
       ConnectFails, ConnectRuns, VerifyError, VerifyNotConnected, VerifyConnected,
       KickSucceeds, KickFails, TailDown, TailUp, TailDisablePF, MarkPFDisabled,
       Shutdown, ShutdownDisconnect, Cancel, AgentDrops, AgentResumes, AgentEnds,
       OtherConnects, PollAnswered, VerifyAnswered, Failed, Moves
  <2> QED
    BY <2>1, ReconnectGraceAssumption
       DEF PollReconnecting, awaitReconnect, parseState, IInv, AnswerFresh, GraceMeasuresSpell,
           TypeOK, TimesOK, NoTime, Late
<1> QED
    BY <1>1, IInvInductive, PTL DEF Spec, KickOnlyStuck

\* Every step of the supervisor, the agent and the context is a step of VpnStatus or
\* is not seen from outside.
LEMMA ShownStep == IInv /\ [Next]_vars => [Status!Next]_(Status!vars)
<1> SUFFICES ASSUME IInv, [Next]_vars PROVE [Status!Next]_(Status!vars)
    OBVIOUS
<1> USE DEF IInv, TypeOK, FlagsOK, ConnectedAt, AnnouncedAt, setConnected
<1> USE DEF Status!vars
<1>1. CASE \/ Elapse \/ Wake \/ Connect \/ Kick \/ Agent \/ UNCHANGED vars
           \/ PollError \/ VerifyError \/ TailDown \/ TailDisablePF
           \/ WakeCancelled \/ ShutdownDisconnect
  <2>1. UNCHANGED <<ciscoConnected, readyNotified, ctxDone, InHand>>
    BY <1>1 DEF Elapse, Wake, Connect, ConnectAcquired, ConnectFails, ConnectRuns, Failed,
       Kick, KickSucceeds, KickFails, Agent, AgentDrops, AgentResumes, AgentEnds,
       OtherConnects, Moves, PollError, VerifyError, TailDown, TailDisablePF,
       WakeCancelled, ShutdownDisconnect
  <2> QED
    BY <2>1
<1>2. CASE PollAnswered \/ VerifyAnswered
  <2>1. Status!Answer
    BY <1>2 DEF PollAnswered, VerifyAnswered, Status!Answer
  <2> QED
    BY <2>1 DEF Status!Next
<1>3. CASE PollConnected \/ VerifyConnected
  <2>1. /\ InHand = TRUE /\ InHand' = FALSE
        /\ ciscoConnected' = TRUE /\ UNCHANGED <<readyNotified, ctxDone>>
    BY <1>3 DEF PollConnected, VerifyConnected
  <2>2. CASE ciscoConnected
    BY <2>1, <2>2 DEF Status!Keep, Status!Next
  <2>3. CASE ~ciscoConnected
    BY <2>1, <2>3 DEF Status!Up, Status!Next
  <2> QED
    BY <2>2, <2>3
<1>4. CASE PollReconnecting \/ PollOther
  <2>1. pc = "polled" /\ pc' \in {"tail", "kick", "connect"}
    BY <1>4 DEF PollReconnecting, PollOther, awaitReconnect
  <2>2. InHand = TRUE /\ InHand' = FALSE
    BY <2>1
  <2>3. ciscoConnected' = FALSE /\ UNCHANGED <<readyNotified, ctxDone>>
    BY <1>4 DEF PollReconnecting, PollOther
  <2>4. CASE ciscoConnected
    <3>1. readyNotified
      BY <2>1, <2>4
    <3> QED
      BY <2>2, <2>3, <2>4, <3>1 DEF Status!Lose, Status!Next
  <2>5. CASE ~ciscoConnected
    BY <2>2, <2>3, <2>5 DEF Status!Keep, Status!Next
  <2> QED
    BY <2>4, <2>5
<1>5. CASE VerifyNotConnected
  <2>1. Status!Keep
    BY <1>5 DEF VerifyNotConnected, Failed, Status!Keep
  <2> QED
    BY <2>1 DEF Status!Next
<1>6. CASE TailUp \/ MarkPFDisabled
  <2>1. pc \in {"tail", "pfset"} /\ pc' = "sleep"
    BY <1>6 DEF TailUp, MarkPFDisabled
  <2>2. /\ ciscoConnected /\ readyNotified' = TRUE
        /\ UNCHANGED <<ciscoConnected, ctxDone>>
    BY <1>6 DEF TailUp, MarkPFDisabled, notifyReady
  <2>3. UNCHANGED InHand
    BY <2>1
  <2>4. CASE readyNotified
    BY <2>2, <2>3, <2>4
  <2>5. CASE ~readyNotified
    BY <2>2, <2>3, <2>5 DEF Status!Announce, Status!Next
  <2> QED
    BY <2>4, <2>5
<1>7. CASE Shutdown
  <2>1. /\ InHand = FALSE /\ InHand' = FALSE
        /\ ciscoConnected' = FALSE /\ UNCHANGED <<readyNotified, ctxDone>>
    BY <1>7 DEF Shutdown
  <2>2. CASE ciscoConnected
    <3>1. readyNotified
      BY <1>7, <2>2 DEF Shutdown
    <3> QED
      BY <2>1, <2>2, <3>1 DEF Status!Lose, Status!Next
  <2>3. CASE ~ciscoConnected
    BY <2>1, <2>3
  <2> QED
    BY <2>2, <2>3
<1>8. CASE Cancel
  <2>1. Status!Cancel
    BY <1>8 DEF Cancel, Status!Cancel
  <2> QED
    BY <2>1 DEF Status!Next
<1> QED
    BY <1>1, <1>2, <1>3, <1>4, <1>5, <1>6, <1>7, <1>8
       DEF Next, Supervise, Poll, Verify, Tail, Stop

\* The supervisor implements VpnStatus, which is all that ProxyConns assumes of it:
\* at whatever speed the agent moves and whichever commands fail, startProxy is let
\* go before a loss is published, and each published connection uses up an answer,
\* none of which comes after the cancellation.
THEOREM StatusShown == Spec => ShowsStatus
<1>1. Init => Status!Init
    BY DEF Init, Status!Init
<1> QED
    BY <1>1, ShownStep, IInvInductive, PTL DEF Spec, ShowsStatus, Status!Spec

=============================================================================
