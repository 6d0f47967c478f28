-------------------------- MODULE SimulUserProofs --------------------------
(***************************************************************************)
(* Theorems about SimulUser, for any buffer of events and any number of    *)
(* fetchers.                                                               *)
(***************************************************************************)
EXTENDS SimulUser, TLAPS

(* The user entity is connected exactly while its channels are open, and   *)
(* then only does listen run, and the client's reader under it.            *)
Conn ==
  /\ connected <=> chans = "open"
  /\ loop \notin {"off", "returned"} => connected
  /\ reader => loop \in {"listening", "eventFailed", "offering", "typingFailed"}

(* A step of listen or of the socket neither connects nor disconnects.     *)
LEMMA Listens ==
  ASSUME ConnTypeOK, Conn, ListenStep \/ SocketStep
  PROVE  ConnTypeOK' /\ Conn' /\ UNCHANGED <<token, connected>>
<1> USE EventBufferAssumption DEF ConnTypeOK, LoopStates, Conn
<1>1. CASE DialSucceeds BY <1>1 DEF DialSucceeds
<1>2. CASE DialFails BY <1>2 DEF DialFails
<1>3. CASE ReportDialError BY <1>3 DEF ReportDialError, ReportError
<1>4. CASE ReportEventError BY <1>4 DEF ReportEventError, ReportError
<1>5. CASE ReportTypingError BY <1>5 DEF ReportTypingError, ReportError
<1>6. CASE Redial BY <1>6 DEF Redial
<1>7. CASE TakeEvent BY <1>7 DEF TakeEvent
<1>8. CASE SeeSocketClosed BY <1>8 DEF SeeSocketClosed
<1>9. CASE SeeClosing BY <1>9 DEF SeeClosing
<1>10. CASE EventArrives BY <1>10 DEF EventArrives
<1>11. CASE SocketBreaks BY <1>11 DEF SocketBreaks
<1> QED
  BY <1>1, <1>2, <1>3, <1>4, <1>5, <1>6, <1>7, <1>8, <1>9, <1>10, <1>11
    DEF ListenStep, SocketStep

Alone == pump = "off" /\ handler = "off" /\ periodic = "off" /\ fetchers = 0

(* How far connectedFlag and the user entity agree at each place of Run,   *)
(* and where no goroutine of a connection is left.                         *)
Flags ==
  /\ pc # "awaitClosed" => (flag <=> connected)
  /\ pc = "awaitClosed" => ~ flag /\ connected
  /\ pc \in {"signalPeriodic", "awaitGroup"} => ~ connected
  /\ pc \in {"idle", "starting", "signup", "login", "loggingIn", "loginPause", "connecting",
             "loggingOut", "cleanup", "stopped"} => ~ connected
  /\ pc = "typing" => connected

Gone ==
  /\ ~ connected /\ pc \notin {"signalPeriodic", "awaitGroup"} => Alone
  /\ pc = "awaitGroup" => periodic = "off"
  /\ handler = "off" => fetchers = 0
  /\ last = "stopped" => pc \in {"stopped", "idle", "starting"}

(* Why connect cannot fail in login: its request has set the token.        *)
TokenSet ==
  /\ pc = "connecting" /\ then # "reload" => token
  /\ last # "nilError"

(* What Run disconnects and logs out for.                                  *)
Purpose ==
  /\ pc \in {"disconnecting", "awaitClosed", "signalPeriodic", "awaitGroup"} => then # "start"
  /\ pc = "loggingOut" => then \in {"relogin", "leave"}
  /\ pc = "cleanup" => then = "leave"
  /\ then = "leave" => pc \in {"disconnecting", "awaitClosed", "signalPeriodic", "awaitGroup",
                               "loggingOut", "cleanup", "stopped", "idle"}
  /\ pc = "idle" => ~ stop

IInv == TypeOK /\ Conn /\ Flags /\ Gone /\ TokenSet /\ Purpose

LifeStep == Life!Next \/ UNCHANGED <<Phase, stop>>

ConnectStep ==
  ~ connected /\ connected' => Alone /\ loop \in {"off", "returned"}

-----------------------------------------------------------------------------
(* Every step keeps the invariant.                                         *)
LEMMA Keeps ==
  ASSUME IInv, Next
  PROVE  IInv'
<1> USE EventBufferAssumption, MaxFetchersAssumption DEF IInv, TypeOK,
    ConnTypeOK, LoopStates, PCs, Purposes, Codes, Conn, Flags, Gone, Alone,
    TokenSet, Purpose, connVars, userVars, goroutines, others
<1>1. CASE Launch
  BY <1>1 DEF Launch, Goto
<1>2. CASE CloseStopChan
  <2>1. TypeOK'
    <3>1. /\ token' \in BOOLEAN /\ connected' \in BOOLEAN /\ closing' \in BOOLEAN
          /\ reader' \in BOOLEAN /\ flag' \in BOOLEAN /\ stop' \in BOOLEAN
      BY <1>2, Zenon DEF CloseStopChan
    <3> QED
      BY <1>2, <3>1 DEF CloseStopChan
  <2>2. Conn' /\ Flags'
    BY <1>2 DEF CloseStopChan
  <2>3. Gone' /\ TokenSet' /\ Purpose'
    BY <1>2 DEF CloseStopChan
  <2> QED BY <2>1, <2>2, <2>3
<1>3. CASE StopReturns
  <2>1. TypeOK'
    <3>1. /\ token' \in BOOLEAN /\ connected' \in BOOLEAN /\ closing' \in BOOLEAN
          /\ reader' \in BOOLEAN /\ flag' \in BOOLEAN /\ stop' \in BOOLEAN
      BY <1>3, Zenon DEF StopReturns, Goto
    <3> QED
      BY <1>3, <3>1 DEF StopReturns, Goto
  <2>2. Conn' /\ Flags'
    BY <1>3 DEF StopReturns, Goto
  <2>3. Gone' /\ TokenSet' /\ Purpose'
    BY <1>3 DEF StopReturns, Goto
  <2> QED BY <2>1, <2>2, <2>3
<1>4. CASE Started
  BY <1>4 DEF Started, Goto
<1>5. CASE SelectStop
  BY <1>5 DEF SelectStop, Goto
<1>6. CASE InitAction
  BY <1>6 DEF InitAction, Goto, Report
<1>7. CASE EnterLogin
  BY <1>7 DEF EnterLogin, Goto
<1>8. CASE NextAction
  BY <1>8 DEF NextAction, Goto
<1>9. CASE Act
  BY <1>9 DEF Act, Goto, Report
<1>10. CASE Type
  BY <1>10 DEF Type, Goto, Report
<1>11. CASE TypingTaken
  BY <1>11 DEF TypingTaken, TakeTyping, Goto
<1>12. CASE Reconnect
  BY <1>12 DEF Reconnect, Goto
<1>13. CASE LoginFails
  <2>1. TypeOK'
    <3>1. token' \in BOOLEAN
      BY <1>13, Zenon DEF LoginFails
    <3>2. /\ pc' \in {"loginPause"} /\ last' \in {last, "report"}
          /\ UNCHANGED <<connected, closing, chans, errs, loop, reader, events>>
          /\ UNCHANGED <<then, flag, stop, pump, handler, fetchers, periodic>>
      BY <1>13 DEF LoginFails, Goto, Report
    <3> QED BY <3>1, <3>2
  <2>2. Conn' /\ Flags'
    BY <1>13 DEF LoginFails, Goto, Report
  <2>3. Gone' /\ TokenSet' /\ Purpose'
    BY <1>13 DEF LoginFails, Goto, Report
  <2> QED BY <2>1, <2>2, <2>3
<1>14. CASE LoginSucceeds
  <2>1. TypeOK'
    <3>1. /\ token' \in BOOLEAN /\ connected' \in BOOLEAN /\ closing' \in BOOLEAN
          /\ reader' \in BOOLEAN /\ flag' \in BOOLEAN /\ stop' \in BOOLEAN
      BY <1>14, Zenon DEF LoginSucceeds, Goto
    <3> QED
      BY <1>14, <3>1 DEF LoginSucceeds, Goto
  <2>2. Conn' /\ Flags'
    BY <1>14 DEF LoginSucceeds, Goto
  <2>3. Gone' /\ TokenSet' /\ Purpose'
    BY <1>14 DEF LoginSucceeds, Goto
  <2> QED BY <2>1, <2>2, <2>3
<1>15. CASE LoginCanceled
  BY <1>15 DEF LoginCanceled, Goto, Report
<1>16. CASE LoginAgain
  BY <1>16 DEF LoginAgain, Goto
<1>17. CASE pc = "connecting" /\ Connected
  <2>1. TypeOK'
    <3>1. /\ token' \in BOOLEAN /\ connected' \in BOOLEAN /\ closing' \in BOOLEAN
          /\ reader' \in BOOLEAN /\ flag' \in BOOLEAN /\ stop' \in BOOLEAN
      BY <1>17, Zenon DEF Connected, Connect, ConnectRefused, Goto, Report
    <3> QED
      BY <1>17, <3>1 DEF Connected, Connect, ConnectRefused, Goto, Report
  <2>2. Conn' /\ Flags'
    BY <1>17 DEF Connected, Connect, ConnectRefused, Goto, Report
  <2>3. Gone' /\ TokenSet' /\ Purpose'
    BY <1>17 DEF Connected, Connect, ConnectRefused, Goto, Report
  <2> QED BY <2>1, <2>2, <2>3
<1>18. CASE pc = "connecting" /\ (flag \/ ConnectRefused) /\ ConnectFailed
  BY <1>18 DEF ConnectFailed, ConnectRefused, Goto, Report
<1>19. CASE NotConnected
  <2>1. TypeOK'
    <3>1. /\ token' \in BOOLEAN /\ connected' \in BOOLEAN /\ closing' \in BOOLEAN
          /\ reader' \in BOOLEAN /\ flag' \in BOOLEAN /\ stop' \in BOOLEAN
      BY <1>19, Zenon DEF NotConnected, AfterDisconnect, Goto, Report
    <3> QED
      BY <1>19, <3>1 DEF NotConnected, AfterDisconnect, Goto, Report
  <2>2. Conn' /\ Flags'
    BY <1>19 DEF NotConnected, AfterDisconnect, Goto, Report
  <2>3. Gone' /\ TokenSet' /\ Purpose'
    BY <1>19 DEF NotConnected, AfterDisconnect, Goto, Report
  <2> QED BY <2>1, <2>2, <2>3
<1>20. CASE Disconnect
  <2>1. TypeOK'
    <3>1. /\ token' \in BOOLEAN /\ connected' \in BOOLEAN /\ closing' \in BOOLEAN
          /\ reader' \in BOOLEAN /\ flag' \in BOOLEAN /\ stop' \in BOOLEAN
      BY <1>20, Zenon DEF Disconnect, BeginDisconnect, Goto
    <3> QED
      BY <1>20, <3>1 DEF Disconnect, BeginDisconnect, Goto
  <2>2. Conn' /\ Flags'
    BY <1>20 DEF Disconnect, BeginDisconnect, Goto
  <2>3. Gone' /\ TokenSet' /\ Purpose'
    BY <1>20 DEF Disconnect, BeginDisconnect, Goto
  <2> QED BY <2>1, <2>2, <2>3
<1>21. CASE Disconnected
  <2>1. TypeOK'
    <3>1. /\ token' \in BOOLEAN /\ connected' \in BOOLEAN /\ closing' \in BOOLEAN
          /\ reader' \in BOOLEAN /\ flag' \in BOOLEAN /\ stop' \in BOOLEAN
      BY <1>21, Zenon DEF Disconnected, EndDisconnect, Goto
    <3> QED
      BY <1>21, <3>1 DEF Disconnected, EndDisconnect, Goto
  <2>2. Conn' /\ Flags'
    BY <1>21 DEF Disconnected, EndDisconnect, Goto
  <2>3. Gone' /\ TokenSet' /\ Purpose'
    BY <1>21 DEF Disconnected, EndDisconnect, Goto
  <2> QED BY <2>1, <2>2, <2>3
<1>22. CASE SignalPeriodic
  BY <1>22 DEF SignalPeriodic, Goto
<1>23. CASE GroupDone
  BY <1>23 DEF GroupDone, AfterDisconnect, Goto
<1>24. CASE Logout
  <2>1. TypeOK'
    <3>1. token' \in BOOLEAN
      BY <1>24, Zenon DEF Logout
    <3>2. /\ pc' \in {"loggingIn", "cleanup"} /\ last' \in {last, "report"}
          /\ UNCHANGED <<connected, closing, chans, errs, loop, reader, events>>
          /\ UNCHANGED <<then, flag, stop, pump, handler, fetchers, periodic>>
      BY <1>24 DEF Logout, Goto, Report
    <3> QED BY <3>1, <3>2
  <2>2. Conn' /\ Flags'
    BY <1>24 DEF Logout, Goto, Report
  <2>3. Gone' /\ TokenSet' /\ Purpose'
    BY <1>24 DEF Logout, Goto, Report
  <2> QED BY <2>1, <2>2, <2>3
<1>25. CASE Stopped
  BY <1>25 DEF Stopped, Goto
<1>26. CASE PumpReceives
  BY <1>26 DEF PumpReceives
<1>27. CASE PumpReports
  BY <1>27 DEF PumpReports, Report
<1>28. CASE PumpEnds
  BY <1>28 DEF PumpEnds
<1>29. CASE HandlerReceives
  BY <1>29 DEF HandlerReceives, OfferEvent
<1>30. CASE HandleEvent
  BY <1>30 DEF HandleEvent, Report
<1>31. CASE HandlerEnds
  BY <1>31 DEF HandlerEnds
<1>32. CASE SemaphoreFilled
  BY <1>32 DEF SemaphoreFilled
<1>33. CASE Fetched
  BY <1>33 DEF Fetched, Report
<1>34. CASE PeriodicQuery
  BY <1>34 DEF PeriodicQuery
<1>35. CASE PeriodicReport
  BY <1>35 DEF PeriodicReport, Report
<1>36. CASE (ListenStep \/ SocketStep) /\ UNCHANGED userVars
  <2>1. ConnTypeOK' /\ Conn' /\ UNCHANGED <<token, connected>>
    BY <1>36, Listens
  <2> QED BY <1>36, <2>1
<1> QED
  BY <1>1, <1>2, <1>3, <1>4, <1>5, <1>6, <1>7, <1>8, <1>9, <1>10, <1>11,
    <1>12, <1>13, <1>14, <1>15, <1>16, <1>17, <1>18, <1>19, <1>20, <1>21,
    <1>22, <1>23, <1>24, <1>25, <1>26, <1>27, <1>28, <1>29, <1>30, <1>31,
    <1>32, <1>33, <1>34, <1>35, <1>36 DEF Next, RunStep, PumpStep,
    HandlerStep, PeriodicStep, ConnectUser

(* Every step is one of a controller's life, or none of it.                *)
LEMMA Lives ==
  ASSUME IInv, Next
  PROVE  LifeStep
<1> USE DEF IInv, Purpose, LifeStep, Phase, Life!Next, Life!Run, Life!Started,
    Life!Leave, Life!Stopped, Life!CallStop, Life!StopReturns, connVars,
    userVars, goroutines, others
<1>1. CASE Launch
  BY <1>1 DEF Launch, Goto
<1>2. CASE CloseStopChan
  BY <1>2 DEF CloseStopChan
<1>3. CASE StopReturns
  BY <1>3 DEF StopReturns, Goto
<1>4. CASE Started
  BY <1>4 DEF Started, Goto
<1>5. CASE SelectStop
  BY <1>5 DEF SelectStop, Goto
<1>6. CASE InitAction
  BY <1>6 DEF InitAction, Goto, Report
<1>7. CASE EnterLogin
  BY <1>7 DEF EnterLogin, Goto
<1>8. CASE NextAction
  BY <1>8 DEF NextAction, Goto
<1>9. CASE Act
  BY <1>9 DEF Act, Goto, Report
<1>10. CASE Type
  BY <1>10 DEF Type, Goto, Report
<1>11. CASE TypingTaken
  BY <1>11 DEF TypingTaken, TakeTyping, Goto
<1>12. CASE Reconnect
  BY <1>12 DEF Reconnect, Goto
<1>13. CASE LoginFails
  BY <1>13 DEF LoginFails, Goto, Report
<1>14. CASE LoginSucceeds
  BY <1>14 DEF LoginSucceeds, Goto
<1>15. CASE LoginCanceled
  BY <1>15 DEF LoginCanceled, Goto, Report
<1>16. CASE LoginAgain
  BY <1>16 DEF LoginAgain, Goto
<1>17. CASE pc = "connecting" /\ Connected
  BY <1>17 DEF Connected, Connect, ConnectRefused, Goto, Report
<1>18. CASE pc = "connecting" /\ (flag \/ ConnectRefused) /\ ConnectFailed
  BY <1>18 DEF ConnectFailed, ConnectRefused, Goto, Report
<1>19. CASE NotConnected
  BY <1>19 DEF NotConnected, AfterDisconnect, Goto, Report
<1>20. CASE Disconnect
  BY <1>20 DEF Disconnect, BeginDisconnect, Goto
<1>21. CASE Disconnected
  BY <1>21 DEF Disconnected, EndDisconnect, Goto
<1>22. CASE SignalPeriodic
  BY <1>22 DEF SignalPeriodic, Goto
<1>23. CASE GroupDone
  BY <1>23 DEF GroupDone, AfterDisconnect, Goto
<1>24. CASE Logout
  BY <1>24 DEF Logout, Goto, Report
<1>25. CASE Stopped
  BY <1>25 DEF Stopped, Goto
<1>26. CASE PumpReceives
  BY <1>26 DEF PumpReceives
<1>27. CASE PumpReports
  BY <1>27 DEF PumpReports, Report
<1>28. CASE PumpEnds
  BY <1>28 DEF PumpEnds
<1>29. CASE HandlerReceives
  BY <1>29 DEF HandlerReceives, OfferEvent
<1>30. CASE HandleEvent
  BY <1>30 DEF HandleEvent, Report
<1>31. CASE HandlerEnds
  BY <1>31 DEF HandlerEnds
<1>32. CASE SemaphoreFilled
  BY <1>32 DEF SemaphoreFilled
<1>33. CASE Fetched
  BY <1>33 DEF Fetched, Report
<1>34. CASE PeriodicQuery
  BY <1>34 DEF PeriodicQuery
<1>35. CASE PeriodicReport
  BY <1>35 DEF PeriodicReport, Report
<1>36. CASE (ListenStep \/ SocketStep) /\ UNCHANGED userVars
  BY <1>36
<1> QED
  BY <1>1, <1>2, <1>3, <1>4, <1>5, <1>6, <1>7, <1>8, <1>9, <1>10, <1>11,
    <1>12, <1>13, <1>14, <1>15, <1>16, <1>17, <1>18, <1>19, <1>20, <1>21,
    <1>22, <1>23, <1>24, <1>25, <1>26, <1>27, <1>28, <1>29, <1>30, <1>31,
    <1>32, <1>33, <1>34, <1>35, <1>36 DEF Next, RunStep, PumpStep,
    HandlerStep, PeriodicStep, ConnectUser

(* Only Connect connects, when everything else of the user is over.        *)
LEMMA Connects ==
  ASSUME IInv, Next
  PROVE  ConnectStep
<1> USE DEF ConnectStep, connVars, userVars, goroutines, others
<1>1. CASE Launch
  BY <1>1 DEF Launch, Goto
<1>2. CASE CloseStopChan
  BY <1>2 DEF CloseStopChan
<1>3. CASE StopReturns
  BY <1>3 DEF StopReturns, Goto
<1>4. CASE Started
  BY <1>4 DEF Started, Goto
<1>5. CASE SelectStop
  BY <1>5 DEF SelectStop, Goto
<1>6. CASE InitAction
  BY <1>6 DEF InitAction, Goto, Report
<1>7. CASE EnterLogin
  BY <1>7 DEF EnterLogin, Goto
<1>8. CASE NextAction
  BY <1>8 DEF NextAction, Goto
<1>9. CASE Act
  BY <1>9 DEF Act, Goto, Report
<1>10. CASE Type
  BY <1>10 DEF Type, Goto, Report
<1>11. CASE TypingTaken
  BY <1>11 DEF TypingTaken, TakeTyping, Goto
<1>12. CASE Reconnect
  BY <1>12 DEF Reconnect, Goto
<1>13. CASE LoginFails
  BY <1>13 DEF LoginFails, Goto, Report
<1>14. CASE LoginSucceeds
  BY <1>14 DEF LoginSucceeds, Goto
<1>15. CASE LoginCanceled
  BY <1>15 DEF LoginCanceled, Goto, Report
<1>16. CASE LoginAgain
  BY <1>16 DEF LoginAgain, Goto
<1>17. CASE pc = "connecting" /\ Connected
  BY <1>17 DEF IInv, TypeOK, ConnTypeOK, LoopStates, Conn, Flags, Gone, Connected
<1>18. CASE pc = "connecting" /\ (flag \/ ConnectRefused) /\ ConnectFailed
  BY <1>18 DEF ConnectFailed, ConnectRefused, Goto, Report
<1>19. CASE NotConnected
  BY <1>19 DEF NotConnected, AfterDisconnect, Goto, Report
<1>20. CASE Disconnect
  BY <1>20 DEF Disconnect, BeginDisconnect, Goto
<1>21. CASE Disconnected
  BY <1>21 DEF Disconnected, EndDisconnect, Goto
<1>22. CASE SignalPeriodic
  BY <1>22 DEF SignalPeriodic, Goto
<1>23. CASE GroupDone
  BY <1>23 DEF GroupDone, AfterDisconnect, Goto
<1>24. CASE Logout
  BY <1>24 DEF Logout, Goto, Report
<1>25. CASE Stopped
  BY <1>25 DEF Stopped, Goto
<1>26. CASE PumpReceives
  BY <1>26 DEF PumpReceives
<1>27. CASE PumpReports
  BY <1>27 DEF PumpReports, Report
<1>28. CASE PumpEnds
  BY <1>28 DEF PumpEnds
<1>29. CASE HandlerReceives
  BY <1>29 DEF HandlerReceives, OfferEvent
<1>30. CASE HandleEvent
  BY <1>30 DEF HandleEvent, Report
<1>31. CASE HandlerEnds
  BY <1>31 DEF HandlerEnds
<1>32. CASE SemaphoreFilled
  BY <1>32 DEF SemaphoreFilled
<1>33. CASE Fetched
  BY <1>33 DEF Fetched, Report
<1>34. CASE PeriodicQuery
  BY <1>34 DEF PeriodicQuery
<1>35. CASE PeriodicReport
  BY <1>35 DEF PeriodicReport, Report
<1>36. CASE (ListenStep \/ SocketStep) /\ UNCHANGED userVars
  BY <1>36, Listens DEF IInv, TypeOK
<1> QED
  BY <1>1, <1>2, <1>3, <1>4, <1>5, <1>6, <1>7, <1>8, <1>9, <1>10, <1>11,
    <1>12, <1>13, <1>14, <1>15, <1>16, <1>17, <1>18, <1>19, <1>20, <1>21,
    <1>22, <1>23, <1>24, <1>25, <1>26, <1>27, <1>28, <1>29, <1>30, <1>31,
    <1>32, <1>33, <1>34, <1>35, <1>36 DEF Next, RunStep, PumpStep,
    HandlerStep, PeriodicStep, ConnectUser

-----------------------------------------------------------------------------
LEMMA Begins == Init => IInv /\ Life!Init
<1> SUFFICES ASSUME Init PROVE IInv /\ Life!Init
  OBVIOUS
<1> USE DEF Init, ConnInit
<1>0. /\ token \in BOOLEAN /\ connected \in BOOLEAN /\ closing \in BOOLEAN
      /\ reader \in BOOLEAN /\ flag \in BOOLEAN /\ stop \in BOOLEAN
  BY Zenon
<1>1. TypeOK
  BY <1>0, EventBufferAssumption, MaxFetchersAssumption
    DEF TypeOK, ConnTypeOK, LoopStates, PCs, Purposes, Codes
<1>2. Conn /\ Flags /\ Gone /\ TokenSet /\ Purpose
  BY DEF Conn, Flags, Gone, Alone, TokenSet, Purpose
<1>3. Phase = "idle"
  BY DEF Phase
<1> QED BY <1>1, <1>2, <1>3 DEF IInv, Life!Init

LEMMA Rests == IInv /\ UNCHANGED vars => IInv' /\ LifeStep /\ ConnectStep
<1> SUFFICES ASSUME IInv, UNCHANGED vars PROVE IInv' /\ LifeStep /\ ConnectStep
  OBVIOUS
<1> USE DEF vars, connVars, userVars
<1>1. TypeOK'
  BY DEF IInv, TypeOK, ConnTypeOK, LoopStates, PCs, Purposes, Codes
<1>2. Conn' /\ Flags' /\ Gone' /\ TokenSet' /\ Purpose'
  BY DEF IInv, Conn, Flags, Gone, Alone, TokenSet, Purpose
<1>3. UNCHANGED Phase
  BY DEF Phase
<1> QED BY <1>1, <1>2, <1>3 DEF IInv, LifeStep, ConnectStep

LEMMA Moves == IInv /\ [Next]_vars => IInv' /\ LifeStep /\ ConnectStep
BY Keeps, Lives, Connects, Rests

LEMMA Always == Spec => []IInv
BY Begins, Moves, PTL DEF Spec

(* Every variable of the simulated user keeps its type; never are there    *)
(* more fetchers than the semaphore has places.                            *)
THEOREM TypeCorrect == Spec => []TypeOK
<1>1. IInv => TypeOK
  BY DEF IInv
<1> QED BY <1>1, Always, PTL

(* Neither listen nor SendTypingEvent sends on a channel that Disconnect   *)
(* has closed (user.go and websocket.go of userentity).                    *)
THEOREM SendsOnOpenChannels == Spec => []NoSendOnClosed
<1>1. IInv => NoSendOnClosed
  BY DEF IInv, Conn, Flags, NoSendOnClosed, ListenSendsOnOpen
<1> QED BY <1>1, Always, PTL

(* connect never fails in login, so no error status without an error is    *)
(* sent (login, in simulcontroller/actions.go).                            *)
THEOREM NoErrorWithoutCause == Spec => []ErrorsHaveCause
<1>1. IInv => ErrorsHaveCause
  BY DEF IInv, TokenSet, ErrorsHaveCause
<1> QED BY <1>1, Always, PTL

(* A user that has reported STOPPED leaves no goroutine and no connection  *)
(* (disconnect, in simulcontroller/actions.go).                            *)
THEOREM SimulLeaves == Spec => []LeavesNothing
<1>1. IInv => LeavesNothing
  BY DEF IInv, TypeOK, ConnTypeOK, LoopStates, Conn, Flags, Gone, Alone, LeavesNothing
<1> QED BY <1>1, Always, PTL

(* Connect overwrites the channels of the user entity only when no         *)
(* goroutine of the connection before is left to use them (user.go).       *)
THEOREM ConnectsWhenAlone == Spec => ConnectsAlone
<1>1. IInv /\ [Next]_vars =>
        [~ connected /\ connected' =>
           /\ pump = "off" /\ handler = "off" /\ periodic = "off" /\ fetchers = 0
           /\ loop \in {"off", "returned"}]_vars
  BY Moves DEF ConnectStep, Alone
<1> QED BY <1>1, Always, PTL DEF Spec, ConnectsAlone

(* Run, Stop and the statuses of the simulcontroller are those that the    *)
(* load-test engine relies on (src/loadtest/control/controller.go).        *)
THEOREM SimulUserIsController == Spec => ImplementsLife
<1>1. IInv /\ [Next]_vars => [Life!Next]_Life!vars
  BY Moves DEF LifeStep, Life!vars
<1>2. Spec => Life!Spec
  BY Begins, Always, <1>1, PTL DEF Spec, Life!Spec
<1> QED BY <1>2 DEF ImplementsLife
=============================================================================
