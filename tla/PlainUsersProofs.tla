-------------------------- MODULE PlainUsersProofs --------------------------
(***************************************************************************)
(* Theorems about PlainUsers: the three plain controllers keep their       *)
(* connection as the user entity relies on it, and each is a controller as *)
(* the load-test engine relies on it, for any buffer of events.            *)
(***************************************************************************)
EXTENDS PlainUsers, TLAPS

(* The user entity is connected exactly while its channels are open, and   *)
(* then only does listen run, and the client's reader under it.            *)
Conn ==
  /\ connected <=> chans = "open"
  /\ loop \notin {"off", "returned"} => connected
  /\ reader => loop \in {"listening", "eventFailed", "offering", "typingFailed"}

(* A step of listen or of the socket neither connects nor disconnects.     *)
LEMMA Listens ==
  ASSUME ConnTypeOK, Conn, ListenStep \/ SocketStep
  PROVE  ConnTypeOK' /\ Conn' /\ UNCHANGED <<token, connected>>
<1> USE EventBufferAssumption DEF ConnTypeOK, LoopStates, Conn
<1>1. CASE DialSucceeds BY <1>1 DEF DialSucceeds
<1>2. CASE DialFails BY <1>2 DEF DialFails
<1>3. CASE ReportDialError BY <1>3 DEF ReportDialError, ReportError
<1>4. CASE ReportEventError BY <1>4 DEF ReportEventError, ReportError
<1>5. CASE ReportTypingError BY <1>5 DEF ReportTypingError, ReportError
<1>6. CASE Redial BY <1>6 DEF Redial
<1>7. CASE TakeEvent BY <1>7 DEF TakeEvent
<1>8. CASE SeeSocketClosed BY <1>8 DEF SeeSocketClosed
<1>9. CASE SeeClosing BY <1>9 DEF SeeClosing
<1>10. CASE EventArrives BY <1>10 DEF EventArrives
<1>11. CASE SocketBreaks BY <1>11 DEF SocketBreaks
<1> QED
  BY <1>1, <1>2, <1>3, <1>4, <1>5, <1>6, <1>7, <1>8, <1>9, <1>10, <1>11
    DEF ListenStep, SocketStep

Typed ==
  /\ which \in {"noop", "simple", "cluster"}
  /\ ConnTypeOK
  /\ which = "noop" => N!TypeOK
  /\ which = "simple" => S!TypeOK
  /\ which = "cluster" => C!TypeOK

(* Why Connect is never refused to a noopcontroller: Run leaves its user   *)
(* disconnected, and connects after a login only.                          *)
NoopKnows ==
  which = "noop" =>
    /\ pc \in {"idle", "starting", "signup", "login", "connecting", "cleanup", "stopped"}
         => ~ connected
    /\ pc = "connecting" => token

(* How far connectedFlag, the user entity and the two goroutines agree at  *)
(* each place of a simplecontroller's Run, and what it disconnects for.    *)
SimpleKnows ==
  which = "simple" =>
    /\ pc # "awaitClosed" => (flag <=> connected)
    /\ pc = "awaitClosed" => ~ flag /\ connected
    /\ pc = "awaitGroup" => ~ connected
    /\ ~ connected /\ pc # "awaitGroup" => pump = "off" /\ handler = "off"
    /\ pc \in {"stopped", "idle", "starting", "cleanup"} => ~ connected
    /\ last = "stopped" => pc \in {"stopped", "idle", "starting"}
    /\ pc \in {"disconnecting", "awaitClosed", "awaitGroup"}
         => then \in {"reload", "logout", "leave"}
    /\ pc = "cleanup" => then = "leave"
    /\ then = "leave" => pc \in {"disconnecting", "awaitClosed", "awaitGroup", "cleanup",
                                 "stopped", "idle"}

StopTaken == pc = "idle" => ~ stop

IInv == Typed /\ Conn /\ NoopKnows /\ SimpleKnows /\ StopTaken

LifeStep == Life!Next \/ UNCHANGED <<Phase, stop>>

-----------------------------------------------------------------------------
(* A noopcontroller.                                                       *)
LEMMA NoopKeeps ==
  ASSUME IInv, Noop(N!Next)
  PROVE  IInv'
<1>0. which = "noop" /\ N!Next /\ UNCHANGED <<which, then, turn, flag>>
  BY DEF Noop
<1> USE <1>0, EventBufferAssumption DEF IInv, Typed, ConnTypeOK, LoopStates,
    N!TypeOK, Conn, NoopKnows, SimpleKnows, StopTaken, connVars, N!connVars,
    N!userVars, N!ConnTypeOK, N!LoopStates
<1>1. CASE N!Launch
  BY <1>1 DEF N!Launch, N!Goto
<1>2. CASE N!CloseStop
  BY <1>2 DEF N!CloseStop
<1>3. CASE N!StopReturns
  BY <1>3 DEF N!StopReturns, N!Goto
<1>4. CASE N!Started
  BY <1>4 DEF N!Started, N!Goto
<1>5. CASE N!SignUp
  BY <1>5 DEF N!SignUp, N!Goto, N!Report
<1>6. CASE N!Login
  <2> USE <1>6 DEF N!Login, N!Goto, N!Report
  <2>1. Typed'
    <3>1. /\ token' \in BOOLEAN /\ connected' \in BOOLEAN /\ closing' \in BOOLEAN
          /\ reader' \in BOOLEAN /\ stop' \in BOOLEAN
      BY Zenon
    <3> QED BY <3>1
  <2>2. Conn'
    OBVIOUS
  <2>3. NoopKnows' /\ SimpleKnows' /\ StopTaken'
    OBVIOUS
  <2> QED BY <2>1, <2>2, <2>3
<1>7. CASE N!ConnectUser
  <2> USE <1>7 DEF N!ConnectUser, N!Connected, N!ConnectFailed, N!ConnectRefused, N!Connect, N!Goto, N!Report
  <2>1. Typed'
    <3>1. /\ token' \in BOOLEAN /\ connected' \in BOOLEAN /\ closing' \in BOOLEAN
          /\ reader' \in BOOLEAN /\ stop' \in BOOLEAN
      BY Zenon
    <3> QED BY <3>1
  <2>2. Conn'
    OBVIOUS
  <2>3. NoopKnows' /\ SimpleKnows' /\ StopTaken'
    OBVIOUS
  <2> QED BY <2>1, <2>2, <2>3
<1>8. CASE N!Act
  BY <1>8 DEF N!Act, N!Goto, N!Report
<1>9. CASE N!NextAction
  BY <1>9 DEF N!NextAction, N!Goto
<1>10. CASE N!SelectStop
  BY <1>10 DEF N!SelectStop, N!Goto
<1>11. CASE N!Disconnect
  BY <1>11 DEF N!Disconnect, N!BeginDisconnect, N!Goto
<1>12. CASE N!NotConnected
  BY <1>12 DEF N!NotConnected, N!Goto, N!Report
<1>13. CASE N!Disconnected
  BY <1>13 DEF N!Disconnected, N!EndDisconnect, N!Goto
<1>14. CASE N!Stopped
  BY <1>14 DEF N!Stopped, N!Goto
<1>15. CASE N!PumpStep
  BY <1>15 DEF N!PumpStep, N!PumpReceives, N!PumpReports, N!PumpEnds, N!Report
<1>16. CASE N!HandlerStep
  BY <1>16 DEF N!HandlerStep, N!GetEvents, N!HandlerReceives, N!HandlerEnds,
    N!OfferEvent
<1>17. CASE (N!ListenStep \/ N!SocketStep) /\ UNCHANGED N!userVars
  <2>1. ListenStep \/ SocketStep
    BY <1>17 DEF ListenStep, SocketStep, DialSucceeds, DialFails, ReportError,
      ReportDialError, ReportEventError, ReportTypingError, Redial, TakeEvent,
      SeeSocketClosed, SeeClosing, EventArrives, SocketBreaks, N!ListenStep,
      N!SocketStep, N!DialSucceeds, N!DialFails, N!ReportError,
      N!ReportDialError, N!ReportEventError, N!ReportTypingError, N!Redial,
      N!TakeEvent, N!SeeSocketClosed, N!SeeClosing, N!EventArrives,
      N!SocketBreaks
  <2>2. ConnTypeOK' /\ Conn' /\ UNCHANGED <<token, connected>>
    BY <2>1, Listens
  <2> QED BY <1>17, <2>2
<1> QED
  BY <1>1, <1>2, <1>3, <1>4, <1>5, <1>6, <1>7, <1>8, <1>9, <1>10, <1>11,
    <1>12, <1>13, <1>14, <1>15, <1>16, <1>17 DEF N!Next, N!RunStep

(* Its Connect is never refused: only Stop makes Run leave.                *)
LEMMA NoopLives ==
  ASSUME IInv, Noop(N!Next)
  PROVE  LifeStep
<1>0. which = "noop" /\ N!Next /\ UNCHANGED <<which, then, turn, flag>>
  BY DEF Noop
<1>a. Phase = N!Phase /\ Phase' = N!Phase'
  BY <1>0 DEF Phase
<1> USE <1>0, <1>a DEF IInv, NoopKnows, connVars, N!connVars, N!userVars,
    StopTaken, LifeStep, N!Phase, Life!Next, Life!Run, Life!Started, Life!Leave,
    Life!Stopped, Life!CallStop, Life!StopReturns
<1>1. CASE N!Launch
  BY <1>1 DEF N!Launch, N!Goto
<1>2. CASE N!CloseStop
  BY <1>2 DEF N!CloseStop
<1>3. CASE N!StopReturns
  BY <1>3 DEF N!StopReturns, N!Goto
<1>4. CASE N!Started
  BY <1>4 DEF N!Started, N!Goto
<1>5. CASE N!SignUp
  BY <1>5 DEF N!SignUp, N!Goto, N!Report
<1>6. CASE N!Login
  BY <1>6 DEF N!Login, N!Goto, N!Report
<1>7. CASE N!ConnectUser
  BY <1>7 DEF N!ConnectUser, N!Connected, N!ConnectFailed, N!ConnectRefused,
    N!Connect, N!Goto, N!Report
<1>8. CASE N!Act
  BY <1>8 DEF N!Act, N!Goto, N!Report
<1>9. CASE N!NextAction
  BY <1>9 DEF N!NextAction, N!Goto
<1>10. CASE N!SelectStop
  BY <1>10 DEF N!SelectStop, N!Goto
<1>11. CASE N!Disconnect
  BY <1>11 DEF N!Disconnect, N!BeginDisconnect, N!Goto
<1>12. CASE N!NotConnected
  BY <1>12 DEF N!NotConnected, N!Goto, N!Report
<1>13. CASE N!Disconnected
  BY <1>13 DEF N!Disconnected, N!EndDisconnect, N!Goto
<1>14. CASE N!Stopped
  BY <1>14 DEF N!Stopped, N!Goto
<1>15. CASE N!PumpStep
  BY <1>15 DEF N!PumpStep, N!PumpReceives, N!PumpReports, N!PumpEnds, N!Report
<1>16. CASE N!HandlerStep
  BY <1>16 DEF N!HandlerStep, N!GetEvents, N!HandlerReceives, N!HandlerEnds,
    N!OfferEvent
<1>17. CASE (N!ListenStep \/ N!SocketStep) /\ UNCHANGED N!userVars
  BY <1>17 DEF N!userVars
<1> QED
  BY <1>1, <1>2, <1>3, <1>4, <1>5, <1>6, <1>7, <1>8, <1>9, <1>10, <1>11,
    <1>12, <1>13, <1>14, <1>15, <1>16, <1>17 DEF N!Next, N!RunStep

(* A simplecontroller.                                                     *)
LEMMA SimpleKeeps ==
  ASSUME IInv, Simple(S!Next)
  PROVE  IInv'
<1>0. which = "simple" /\ S!Next /\ UNCHANGED <<which, turn>>
  BY DEF Simple
<1> USE <1>0, EventBufferAssumption DEF IInv, Typed, ConnTypeOK, LoopStates,
    S!TypeOK, Conn, NoopKnows, SimpleKnows, StopTaken, connVars, S!connVars,
    S!userVars, S!goroutines, S!others, S!ConnTypeOK, S!LoopStates
<1>1. CASE S!Launch
  BY <1>1 DEF S!Launch, S!Goto
<1>2. CASE S!CloseStop
  BY <1>2 DEF S!CloseStop
<1>3. CASE S!StopReturns
  <2> USE <1>3 DEF S!StopReturns, S!Goto
  <2>1. Typed'
    <3>1. /\ token' \in BOOLEAN /\ connected' \in BOOLEAN /\ closing' \in BOOLEAN
          /\ reader' \in BOOLEAN /\ stop' \in BOOLEAN /\ flag' \in BOOLEAN
      BY Zenon
    <3> QED BY <3>1
  <2>2. Conn'
    OBVIOUS
  <2>3. NoopKnows' /\ SimpleKnows' /\ StopTaken'
    OBVIOUS
  <2> QED BY <2>1, <2>2, <2>3
<1>4. CASE S!Started
  BY <1>4 DEF S!Started, S!Goto
<1>5. CASE S!SignUp
  BY <1>5 DEF S!SignUp, S!Goto, S!Report
<1>6. CASE S!InitSelect
  BY <1>6 DEF S!InitSelect, S!Goto
<1>7. CASE S!SelectStop
  BY <1>7 DEF S!SelectStop, S!Goto
<1>8. CASE S!NextAction
  BY <1>8 DEF S!NextAction, S!Goto
<1>9. CASE S!Act
  BY <1>9 DEF S!Act, S!Goto, S!Report
<1>10. CASE S!Reconnect
  BY <1>10 DEF S!Reconnect, S!Goto
<1>11. CASE S!Login
  <2>1. Typed'
    <3>1. token' \in BOOLEAN
      BY <1>11, Zenon DEF S!Login
    <3>2. /\ pc' \in {"loggedIn", "pause", "connecting"} /\ last' \in {last, "report"}
          /\ UNCHANGED <<connected, closing, chans, errs, loop, reader, events>>
          /\ UNCHANGED <<then, flag, stop, pump, handler>>
      BY <1>11 DEF S!Login, S!AfterLogin, S!Goto, S!Report
    <3> QED BY <3>1, <3>2
  <2>2. Conn'
    BY <1>11 DEF S!Login, S!AfterLogin, S!Goto, S!Report
  <2>3. NoopKnows' /\ SimpleKnows' /\ StopTaken'
    BY <1>11 DEF S!Login, S!AfterLogin, S!Goto, S!Report
  <2> QED BY <2>1, <2>2, <2>3
<1>12. CASE S!Logout
  <2>1. Typed'
    <3>1. token' \in BOOLEAN
      BY <1>12, Zenon DEF S!Logout
    <3>2. /\ pc' \in {"pause", "disconnecting"} /\ last' \in {last, "report"}
          /\ then' \in {then, "logout"}
          /\ UNCHANGED <<connected, closing, chans, errs, loop, reader, events>>
          /\ UNCHANGED <<flag, stop, pump, handler>>
      BY <1>12 DEF S!Logout, S!Goto, S!Report
    <3> QED BY <3>1, <3>2
  <2>2. Conn'
    BY <1>12 DEF S!Logout, S!Goto, S!Report
  <2>3. NoopKnows' /\ SimpleKnows' /\ StopTaken'
    BY <1>12 DEF S!Logout, S!Goto, S!Report
  <2> QED BY <2>1, <2>2, <2>3
<1>13. CASE pc = "connecting" /\ S!Connected
  <2> USE <1>13 DEF S!Connected, S!ConnectDone, S!ConnectRefused, S!Connect, S!AfterLogin, S!Goto, S!Report
  <2>1. Typed'
    <3>1. /\ token' \in BOOLEAN /\ connected' \in BOOLEAN /\ closing' \in BOOLEAN
          /\ reader' \in BOOLEAN /\ stop' \in BOOLEAN /\ flag' \in BOOLEAN
      BY Zenon
    <3> QED BY <3>1
  <2>2. Conn'
    OBVIOUS
  <2>3. NoopKnows' /\ SimpleKnows' /\ StopTaken'
    OBVIOUS
  <2> QED BY <2>1, <2>2, <2>3
<1>14. CASE pc = "connecting" /\ S!ConnectFailed
  <2> USE <1>14 DEF S!ConnectFailed, S!AfterLogin, S!Goto, S!Report
  <2>1. Typed'
    <3>1. /\ token' \in BOOLEAN /\ connected' \in BOOLEAN /\ closing' \in BOOLEAN
          /\ reader' \in BOOLEAN /\ stop' \in BOOLEAN /\ flag' \in BOOLEAN
      BY Zenon
    <3> QED BY <3>1
  <2>2. Conn'
    OBVIOUS
  <2>3. NoopKnows' /\ SimpleKnows' /\ StopTaken'
    OBVIOUS
  <2> QED BY <2>1, <2>2, <2>3
<1>15. CASE S!NotConnected
  BY <1>15 DEF S!NotConnected, S!AfterDisconnect, S!Goto, S!Report
<1>16. CASE S!Disconnect
  <2> USE <1>16 DEF S!Disconnect, S!BeginDisconnect, S!Goto
  <2>1. Typed'
    <3>1. /\ token' \in BOOLEAN /\ connected' \in BOOLEAN /\ closing' \in BOOLEAN
          /\ reader' \in BOOLEAN /\ stop' \in BOOLEAN /\ flag' \in BOOLEAN
      BY Zenon
    <3> QED BY <3>1
  <2>2. Conn'
    OBVIOUS
  <2>3. NoopKnows' /\ SimpleKnows' /\ StopTaken'
    OBVIOUS
  <2> QED BY <2>1, <2>2, <2>3
<1>17. CASE S!Disconnected
  <2> USE <1>17 DEF S!Disconnected, S!EndDisconnect, S!Goto
  <2>1. Typed'
    <3>1. /\ token' \in BOOLEAN /\ connected' \in BOOLEAN /\ closing' \in BOOLEAN
          /\ reader' \in BOOLEAN /\ stop' \in BOOLEAN /\ flag' \in BOOLEAN
      BY Zenon
    <3> QED BY <3>1
  <2>2. Conn'
    OBVIOUS
  <2>3. NoopKnows' /\ SimpleKnows' /\ StopTaken'
    OBVIOUS
  <2> QED BY <2>1, <2>2, <2>3
<1>18. CASE S!GroupDone
  BY <1>18 DEF S!GroupDone, S!AfterDisconnect, S!Goto, S!Report
<1>19. CASE S!Stopped
  BY <1>19 DEF S!Stopped, S!Goto
<1>20. CASE S!PumpStep
  BY <1>20 DEF S!PumpStep, S!PumpReceives, S!PumpReports, S!PumpEnds, S!Report
<1>21. CASE S!HandlerStep
  BY <1>21 DEF S!HandlerStep, S!HandlerReceives, S!HandleEvent, S!HandlerEnds,
    S!OfferEvent, S!Report
<1>22. CASE (S!ListenStep \/ S!SocketStep) /\ UNCHANGED S!userVars
  <2>1. ListenStep \/ SocketStep
    BY <1>22 DEF ListenStep, SocketStep, DialSucceeds, DialFails, ReportError,
      ReportDialError, ReportEventError, ReportTypingError, Redial, TakeEvent,
      SeeSocketClosed, SeeClosing, EventArrives, SocketBreaks, S!ListenStep,
      S!SocketStep, S!DialSucceeds, S!DialFails, S!ReportError,
      S!ReportDialError, S!ReportEventError, S!ReportTypingError, S!Redial,
      S!TakeEvent, S!SeeSocketClosed, S!SeeClosing, S!EventArrives,
      S!SocketBreaks
  <2>2. ConnTypeOK' /\ Conn' /\ UNCHANGED <<token, connected>>
    BY <2>1, Listens
  <2> QED BY <1>22, <2>2
<1> QED
  BY <1>1, <1>2, <1>3, <1>4, <1>5, <1>6, <1>7, <1>8, <1>9, <1>10, <1>11,
    <1>12, <1>13, <1>14, <1>15, <1>16, <1>17, <1>18, <1>19, <1>20, <1>21,
    <1>22 DEF S!Next, S!RunStep, S!ConnectUser

(* It leaves when it disconnects because it was stopped.                   *)
LEMMA SimpleLives ==
  ASSUME IInv, Simple(S!Next)
  PROVE  LifeStep
<1>0. which = "simple" /\ S!Next /\ UNCHANGED <<which, turn>>
  BY DEF Simple
<1>a. Phase = S!Phase /\ Phase' = S!Phase'
  BY <1>0 DEF Phase
<1> USE <1>0, <1>a DEF IInv, SimpleKnows, connVars, S!connVars, S!userVars,
    S!goroutines, S!others, StopTaken, LifeStep, S!Phase, Life!Next, Life!Run,
    Life!Started, Life!Leave, Life!Stopped, Life!CallStop, Life!StopReturns
<1>1. CASE S!Launch
  BY <1>1 DEF S!Launch, S!Goto
<1>2. CASE S!CloseStop
  BY <1>2 DEF S!CloseStop
<1>3. CASE S!StopReturns
  BY <1>3 DEF S!StopReturns, S!Goto
<1>4. CASE S!Started
  BY <1>4 DEF S!Started, S!Goto
<1>5. CASE S!SignUp
  BY <1>5 DEF S!SignUp, S!Goto, S!Report
<1>6. CASE S!InitSelect
  BY <1>6 DEF S!InitSelect, S!Goto
<1>7. CASE S!SelectStop
  BY <1>7 DEF S!SelectStop, S!Goto
<1>8. CASE S!NextAction
  BY <1>8 DEF S!NextAction, S!Goto
<1>9. CASE S!Act
  BY <1>9 DEF S!Act, S!Goto, S!Report
<1>10. CASE S!Reconnect
  BY <1>10 DEF S!Reconnect, S!Goto
<1>11. CASE S!Login
  BY <1>11 DEF S!Login, S!AfterLogin, S!Goto, S!Report
<1>12. CASE S!Logout
  BY <1>12 DEF S!Logout, S!Goto, S!Report
<1>13. CASE S!ConnectUser
  BY <1>13 DEF S!ConnectUser, S!Connected, S!ConnectDone, S!ConnectFailed,
    S!ConnectRefused, S!Connect, S!AfterLogin, S!Goto, S!Report
<1>14. CASE S!NotConnected
  BY <1>14 DEF S!NotConnected, S!AfterDisconnect, S!Goto, S!Report
<1>15. CASE S!Disconnect
  BY <1>15 DEF S!Disconnect, S!BeginDisconnect, S!Goto
<1>16. CASE S!Disconnected
  BY <1>16 DEF S!Disconnected, S!EndDisconnect, S!Goto
<1>17. CASE S!GroupDone
  BY <1>17 DEF S!GroupDone, S!AfterDisconnect, S!Goto, S!Report
<1>18. CASE S!Stopped
  BY <1>18 DEF S!Stopped, S!Goto
<1>19. CASE S!PumpStep
  BY <1>19 DEF S!PumpStep, S!PumpReceives, S!PumpReports, S!PumpEnds, S!Report
<1>20. CASE S!HandlerStep
  BY <1>20 DEF S!HandlerStep, S!HandlerReceives, S!HandleEvent, S!HandlerEnds,
    S!OfferEvent, S!Report
<1>21. CASE (S!ListenStep \/ S!SocketStep) /\ UNCHANGED S!userVars
  BY <1>21 DEF S!userVars
<1> QED
  BY <1>1, <1>2, <1>3, <1>4, <1>5, <1>6, <1>7, <1>8, <1>9, <1>10, <1>11,
    <1>12, <1>13, <1>14, <1>15, <1>16, <1>17, <1>18, <1>19, <1>20, <1>21 DEF
    S!Next, S!RunStep

(* A clustercontroller.                                                    *)
LEMMA ClusterKeeps ==
  ASSUME IInv, Cluster(C!Next)
  PROVE  IInv'
<1>0. which = "cluster" /\ C!Next /\ UNCHANGED <<connVars, which, then, flag, pump, handler>>
  BY DEF Cluster
<1> USE <1>0, EventBufferAssumption DEF IInv, Typed, ConnTypeOK, LoopStates,
    C!TypeOK, Conn, NoopKnows, SimpleKnows, StopTaken, connVars, C!Turns
<1>1. CASE C!Launch
  BY <1>1 DEF C!Launch, C!Goto
<1>2. CASE C!CloseStop
  BY <1>2 DEF C!CloseStop
<1>3. CASE C!StopReturns
  BY <1>3 DEF C!StopReturns, C!Goto
<1>4. CASE C!Started
  BY <1>4 DEF C!Started, C!Goto
<1>5. CASE C!Login
  BY <1>5 DEF C!Login, C!Goto, C!Report
<1>6. CASE C!Act
  BY <1>6 DEF C!Act, C!Goto, C!Report
<1>7. CASE C!UpdateConfig
  BY <1>7 DEF C!UpdateConfig, C!Goto, C!Report
<1>8. CASE C!SelectStop
  BY <1>8 DEF C!SelectStop, C!Goto
<1>9. CASE C!NextAction
  BY <1>9 DEF C!NextAction, C!Goto
<1>10. CASE C!Stopped
  BY <1>10 DEF C!Stopped, C!Goto
<1> QED
  BY <1>1, <1>2, <1>3, <1>4, <1>5, <1>6, <1>7, <1>8, <1>9, <1>10 DEF C!Next,
    C!RunStep

(* It has no connection to leave.                                          *)
LEMMA ClusterLives ==
  ASSUME IInv, Cluster(C!Next)
  PROVE  LifeStep
<1>0. which = "cluster" /\ C!Next /\ UNCHANGED <<connVars, which, then, flag, pump, handler>>
  BY DEF Cluster
<1>a. Phase = C!Phase /\ Phase' = C!Phase'
  BY <1>0 DEF Phase
<1> USE <1>0, <1>a DEF IInv, StopTaken, LifeStep, C!Phase, Life!Next,
    Life!Run, Life!Started, Life!Leave, Life!Stopped, Life!CallStop,
    Life!StopReturns
<1>1. CASE C!Launch
  BY <1>1 DEF C!Launch, C!Goto
<1>2. CASE C!CloseStop
  BY <1>2 DEF C!CloseStop
<1>3. CASE C!StopReturns
  BY <1>3 DEF C!StopReturns, C!Goto
<1>4. CASE C!Started
  BY <1>4 DEF C!Started, C!Goto
<1>5. CASE C!Login
  BY <1>5 DEF C!Login, C!Goto, C!Report
<1>6. CASE C!Act
  BY <1>6 DEF C!Act, C!Goto, C!Report
<1>7. CASE C!UpdateConfig
  BY <1>7 DEF C!UpdateConfig, C!Goto, C!Report
<1>8. CASE C!SelectStop
  BY <1>8 DEF C!SelectStop, C!Goto
<1>9. CASE C!NextAction
  BY <1>9 DEF C!NextAction, C!Goto
<1>10. CASE C!Stopped
  BY <1>10 DEF C!Stopped, C!Goto
<1> QED
  BY <1>1, <1>2, <1>3, <1>4, <1>5, <1>6, <1>7, <1>8, <1>9, <1>10 DEF C!Next,
    C!RunStep

-----------------------------------------------------------------------------
LEMMA Begins == Init => IInv /\ Life!Init
<1> SUFFICES ASSUME Init PROVE IInv /\ Life!Init
  OBVIOUS
<1> USE DEF Init, ConnInit
<1>0. /\ token \in BOOLEAN /\ connected \in BOOLEAN /\ closing \in BOOLEAN
      /\ reader \in BOOLEAN /\ flag \in BOOLEAN /\ stop \in BOOLEAN
  BY Zenon
<1>1. Typed
  BY <1>0, EventBufferAssumption DEF Typed, ConnTypeOK, LoopStates, N!TypeOK, N!ConnTypeOK,
    N!LoopStates, S!TypeOK, S!ConnTypeOK, S!LoopStates, C!TypeOK, C!Turns
<1>2. Conn /\ NoopKnows /\ SimpleKnows /\ StopTaken
  BY DEF Conn, NoopKnows, SimpleKnows, StopTaken
<1>3. N!Phase = "idle" /\ S!Phase = "idle" /\ C!Phase = "idle"
  BY DEF N!Phase, S!Phase, C!Phase
<1>4. Phase = "idle"
  BY <1>3 DEF Phase
<1> QED BY <1>1, <1>2, <1>4 DEF IInv, Life!Init

LEMMA Rests == IInv /\ UNCHANGED vars => IInv' /\ LifeStep
<1> SUFFICES ASSUME IInv, UNCHANGED vars PROVE IInv' /\ LifeStep
  OBVIOUS
<1> USE DEF vars, connVars
<1>1. Typed'
  BY DEF IInv, Typed, ConnTypeOK, LoopStates, N!TypeOK, N!ConnTypeOK,
    N!LoopStates, S!TypeOK, S!ConnTypeOK, S!LoopStates, C!TypeOK, C!Turns
<1>2. Conn' /\ NoopKnows' /\ SimpleKnows' /\ StopTaken'
  BY DEF IInv, Conn, NoopKnows, SimpleKnows, StopTaken
<1>3. UNCHANGED <<N!Phase, S!Phase, C!Phase>>
  BY DEF N!Phase, S!Phase, C!Phase
<1>4. UNCHANGED Phase
  BY <1>3 DEF Phase
<1> QED BY <1>1, <1>2, <1>4 DEF IInv, LifeStep

LEMMA Moves == IInv /\ [Next]_vars => IInv' /\ LifeStep
BY NoopKeeps, NoopLives, SimpleKeeps, SimpleLives, ClusterKeeps, ClusterLives, Rests DEF Next

LEMMA Always == Spec => []IInv
BY Begins, Moves, PTL DEF Spec

(* Every variable of the plain controllers and their connections keeps its *)
(* type; no more events wait than the client's buffer holds.               *)
THEOREM TypeCorrect == Spec => []TypeOK
<1>1. IInv => TypeOK
  BY DEF IInv, Typed, TypeOK
<1> QED BY <1>1, Always, PTL

(* listen sends on channels that Disconnect has not closed yet, whichever  *)
(* controller the user has (websocket.go and user.go of userentity).       *)
THEOREM SendsOnOpenChannels == Spec => []ListenSendsOnOpen
<1>1. IInv => ListenSendsOnOpen
  BY DEF IInv, Conn, ListenSendsOnOpen
<1> QED BY <1>1, Always, PTL

(* A simplecontroller that has reported STOPPED has neither goroutines nor *)
(* a connection left, and between actions its flag agrees with the user    *)
(* entity (disconnect, in simplecontroller/actions.go).                    *)
THEOREM SimpleLeaves == Spec => []SimpleLeavesNothing
<1>1. IInv => SimpleLeavesNothing
  <2> SUFFICES ASSUME IInv, which = "simple" PROVE S!LeavesNothing
    BY DEF SimpleLeavesNothing
  <2>1. pc \in {"signup", "act", "pause", "nothingToDo", "cleanup"} => (flag <=> connected)
    BY DEF IInv, SimpleKnows
  <2>2. last = "stopped" => /\ pump = "off" /\ handler = "off"
                            /\ loop \in {"off", "returned"} /\ ~ reader
                            /\ ~ flag /\ ~ connected
    BY DEF IInv, Conn, SimpleKnows
  <2> QED BY <2>1, <2>2 DEF S!LeavesNothing
<1> QED BY <1>1, Always, PTL

(* Run, Stop and the statuses of each plain controller are those that the  *)
(* load-test engine relies on (src/loadtest/control/controller.go).        *)
THEOREM PlainUsersAreControllers == Spec => ImplementsLife
<1>1. IInv /\ [Next]_vars => [Life!Next]_Life!vars
  BY Moves DEF LifeStep, Life!vars
<1>2. Spec => Life!Spec
  BY Begins, Always, <1>1, PTL DEF Spec, Life!Spec
<1> QED BY <1>2 DEF ImplementsLife
=============================================================================
