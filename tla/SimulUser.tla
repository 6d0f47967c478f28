----------------------------- MODULE SimulUser -----------------------------
(***************************************************************************)
(* The simulcontroller and its user (src/loadtest/control/simulcontroller):*)
(* the goroutine of Run, and the four kinds it starts on every connection: *)
(* listen of the user entity (module UserConnection), the one that reports *)
(* its errors, wsEventHandler with its fetchers, and periodicActions.      *)
(*                                                                         *)
(* What the actions do at the server is left out: an action succeeds or    *)
(* fails, reports, and may use the connection (a typing event, a reload, a *)
(* logout and login).  A send on the status channel does not block here:   *)
(* module LoadTester has the channel.  Only the last code is kept.         *)
(*                                                                         *)
(* A definition named Bug... is the next one with a mistake in it, which   *)
(* some property must tell apart.                                          *)
(***************************************************************************)
EXTENDS UserConnection

CONSTANT MaxFetchers  \* capacity of the semaphore: 8 for each CPU

ASSUME MaxFetchersAssumption == MaxFetchers \in Nat \ {0}

VARIABLES
  pc,         \* where Run is
  then,       \* what it connects or disconnects for
  flag,       \* c.connectedFlag
  stop,       \* c.stopChan is closed
  pump,       \* the goroutine that ranges over the error channel
  handler,    \* wsEventHandler
  fetchers,   \* its calls of fetchStatus and fetchUserAndStatus that go on
  periodic,   \* periodicActions
  last        \* the last status that was sent

userVars == <<pc, then, flag, stop, pump, handler, fetchers, periodic, last>>
vars == <<connVars, userVars>>

PCs ==
  {"idle", "starting", "signup", "login", "join", "loggingIn", "loginPause", "connecting",
   "act", "typing", "working", "pause", "disconnecting", "awaitClosed", "signalPeriodic",
   "awaitGroup", "loggingOut", "cleanup", "stopped"}
Purposes == {"start", "reload", "relogin", "leave"}
Codes == {"none", "started", "report", "nilError", "stopped"}

TypeOK ==
  /\ ConnTypeOK
  /\ pc \in PCs
  /\ then \in Purposes
  /\ flag \in BOOLEAN
  /\ stop \in BOOLEAN
  /\ pump \in {"off", "ranging", "sending"}
  /\ handler \in {"off", "ranging", "handling", "filling"}
  /\ fetchers \in 0..MaxFetchers
  /\ periodic \in {"off", "waiting", "querying"}
  /\ last \in Codes

Init ==
  /\ ConnInit
  /\ pc = "idle"
  /\ then = "start"
  /\ flag = FALSE
  /\ stop = FALSE
  /\ pump = "off"
  /\ handler = "off"
  /\ fetchers = 0
  /\ periodic = "off"
  /\ last = "none"

Goto(l) == pc' = l
Report == last' = "report"
goroutines == <<pump, handler, fetchers, periodic>>

-----------------------------------------------------------------------------
(* The load-test engine: go controller.Run(), and controller.Stop().       *)
Launch ==
  /\ pc = "idle"
  /\ Goto("starting")
  /\ then' = "start"
  /\ UNCHANGED <<connVars, flag, stop, goroutines, last>>

CloseStopChan ==
  /\ pc # "idle"
  /\ ~ stop
  /\ stop' = TRUE
  /\ UNCHANGED <<connVars, pc, then, flag, goroutines, last>>

StopReturns ==
  /\ pc = "stopped"
  /\ stop
  /\ Goto("idle")
  /\ stop' = FALSE
  /\ UNCHANGED <<connVars, then, flag, goroutines, last>>

-----------------------------------------------------------------------------
(* Run.                                                                    *)
Started ==
  /\ pc = "starting"
  /\ Goto("signup")
  /\ last' = "started"
  /\ UNCHANGED <<connVars, then, flag, stop, goroutines>>

(* Each select of Run: before an initial action and after any other.  When *)
(* the stop channel is closed the timer may have fired as well.            *)
SelectStop ==
  /\ pc \in {"signup", "login", "join", "pause"}
  /\ stop
  /\ Goto("disconnecting")
  /\ then' = "leave"
  /\ UNCHANGED <<connVars, flag, stop, goroutines, last>>

BugInitActionLeaves ==
  /\ pc \in {"signup", "join"}
  /\ Goto("disconnecting")
  /\ then' = "leave"
  /\ Report
  /\ UNCHANGED <<connVars, flag, stop, goroutines>>

(* SignUp, joinTeam and joinChannel, each tried again until it succeeds.   *)
InitAction ==
  /\ pc \in {"signup", "join"}
  /\ Report
  /\ \/ UNCHANGED pc
     \/ pc = "signup" /\ Goto("login")
     \/ pc = "join" /\ Goto("act")
  /\ UNCHANGED <<connVars, then, flag, stop, goroutines>>

EnterLogin ==
  /\ pc = "login"
  /\ Goto("loggingIn")
  /\ UNCHANGED <<connVars, then, flag, stop, goroutines, last>>

NextAction ==
  /\ pc = "pause"
  /\ Goto("act")
  /\ UNCHANGED <<connVars, then, flag, stop, goroutines, last>>

(* An action that only makes requests, or the requests at the end of one.  *)
Act ==
  /\ pc \in {"act", "working"}
  /\ Goto("pause")
  /\ Report
  /\ UNCHANGED <<connVars, then, flag, stop, goroutines>>

(* createPost and createPostReply: SendTypingEvent fails when there is no  *)
(* connection, and else waits for listen to take the message.              *)
Type ==
  /\ pc = "act"
  /\ IF connected THEN Goto("typing") /\ UNCHANGED last ELSE Goto("pause") /\ Report
  /\ UNCHANGED <<connVars, then, flag, stop, goroutines>>

TypingTaken ==
  /\ pc = "typing"
  /\ TakeTyping
  /\ Goto("working")
  /\ UNCHANGED <<then, flag, stop, goroutines, last>>

(* fullReload and logoutLogin begin with disconnect.                       *)
Reconnect ==
  /\ pc = "act"
  /\ Goto("disconnecting")
  /\ then' \in {"reload", "relogin"}
  /\ UNCHANGED <<connVars, flag, stop, goroutines, last>>

-----------------------------------------------------------------------------
(* login: until it succeeds or Stop is called.                             *)

(* The token is set even if what follows the login request fails.          *)
LoginFails ==
  /\ pc = "loggingIn"
  /\ Goto("loginPause")
  /\ token' \in {token, TRUE}
  /\ Report
  /\ UNCHANGED <<connected, closing, chans, errs, loop, reader, events>>
  /\ UNCHANGED <<then, flag, stop, goroutines>>

LoginSucceeds ==
  /\ pc = "loggingIn"
  /\ Goto("connecting")
  /\ token' = TRUE
  /\ UNCHANGED <<connected, closing, chans, errs, loop, reader, events>>
  /\ UNCHANGED <<then, flag, stop, goroutines, last>>

LoginCanceled ==
  /\ pc = "loginPause"
  /\ stop
  /\ Goto(IF then = "start" THEN "join" ELSE "working")
  /\ Report
  /\ UNCHANGED <<connVars, then, flag, stop, goroutines>>

LoginAgain ==
  /\ pc = "loginPause"
  /\ Goto("loggingIn")
  /\ UNCHANGED <<connVars, then, flag, stop, goroutines, last>>

-----------------------------------------------------------------------------
(* connect, called by login and reload.                                    *)
Connected ==
  /\ Connect
  /\ flag' = TRUE
  /\ pump' = "ranging"
  /\ handler' = "ranging"
  /\ periodic' = "waiting"
  /\ Goto(IF then = "start" THEN "join" ELSE "working")
  /\ Report
  /\ UNCHANGED <<then, stop, fetchers>>

(* reload reports the error; login reports it and then the error of its    *)
(* login request, which is nil: handleStatus would dereference it.         *)
ConnectFailed ==
  /\ IF then = "reload"
     THEN Goto("pause") /\ Report
     ELSE Goto("loginPause") /\ last' = "nilError"
  /\ UNCHANGED <<connVars, then, flag, stop, goroutines>>

ConnectUser ==
  /\ pc = "connecting"
  /\ IF flag \/ ConnectRefused THEN ConnectFailed ELSE Connected

-----------------------------------------------------------------------------
(* disconnect, called by reload, logout and the deferred logout of Run.    *)

AfterDisconnect(ok) ==
  CASE then = "reload"  -> IF ok THEN "connecting" ELSE "pause"
    [] then = "relogin" -> IF ok THEN "loggingOut" ELSE "loggingIn"
    [] OTHER            -> IF ok THEN "loggingOut" ELSE "cleanup"

NotConnected ==
  /\ pc = "disconnecting"
  /\ ~ (flag /\ connected)
  /\ flag' = FALSE
  /\ Goto(AfterDisconnect(FALSE))
  /\ Report
  /\ UNCHANGED <<connVars, then, stop, goroutines>>

BugDisconnectKeepsFlag ==
  /\ pc = "disconnecting"
  /\ flag /\ BeginDisconnect
  /\ Goto("awaitClosed")
  /\ UNCHANGED <<then, flag, stop, goroutines, last>>

Disconnect ==
  /\ pc = "disconnecting"
  /\ flag /\ BeginDisconnect
  /\ flag' = FALSE
  /\ Goto("awaitClosed")
  /\ UNCHANGED <<then, stop, goroutines, last>>

BugDisconnectedNoSignal ==
  /\ pc = "awaitClosed"
  /\ EndDisconnect
  /\ Goto("awaitGroup")
  /\ UNCHANGED <<then, flag, stop, goroutines, last>>

Disconnected ==
  /\ pc = "awaitClosed"
  /\ EndDisconnect
  /\ Goto("signalPeriodic")
  /\ UNCHANGED <<then, flag, stop, goroutines, last>>

(* disconnectChan has no buffer: periodicActions is in its select.         *)
SignalPeriodic ==
  /\ pc = "signalPeriodic"
  /\ periodic = "waiting"
  /\ periodic' = "off"
  /\ Goto("awaitGroup")
  /\ UNCHANGED <<connVars, then, flag, stop, pump, handler, fetchers, last>>

BugGroupOfTwo ==
  /\ pc = "awaitGroup"
  /\ periodic = "off" /\ pump = "off"
  /\ Goto(AfterDisconnect(TRUE))
  /\ UNCHANGED <<connVars, then, flag, stop, goroutines, last>>

(* c.wg.Wait                                                               *)
GroupDone ==
  /\ pc = "awaitGroup"
  /\ periodic = "off" /\ pump = "off" /\ handler = "off"
  /\ Goto(AfterDisconnect(TRUE))
  /\ UNCHANGED <<connVars, then, flag, stop, goroutines, last>>

(* user.Logout, whose request clears the token unless it fails.  Run       *)
(* reports only an error, logoutLogin reports either.                      *)
Logout ==
  /\ pc = "loggingOut"
  /\ token' \in {token, FALSE}
  /\ Goto(IF then = "relogin" THEN "loggingIn" ELSE "cleanup")
  /\ Report \/ (then = "leave" /\ UNCHANGED last)
  /\ UNCHANGED <<connected, closing, chans, errs, loop, reader, events>>
  /\ UNCHANGED <<then, flag, stop, goroutines>>

(* The end of the deferred function: ClearUserData, STOPPED, and close of  *)
(* the stopped channel.                                                    *)
Stopped ==
  /\ pc = "cleanup"
  /\ Goto("stopped")
  /\ last' = "stopped"
  /\ UNCHANGED <<connVars, then, flag, stop, goroutines>>

-----------------------------------------------------------------------------
(* The goroutines of a connection.                                         *)
others == <<pc, then, flag, stop>>

PumpReceives ==
  /\ pump = "ranging"
  /\ errs = 1
  /\ errs' = 0
  /\ pump' = "sending"
  /\ UNCHANGED <<token, connected, closing, chans, loop, reader, events>>
  /\ UNCHANGED <<others, handler, fetchers, periodic, last>>

PumpReports ==
  /\ pump = "sending"
  /\ pump' = "ranging"
  /\ Report
  /\ UNCHANGED <<connVars, others, handler, fetchers, periodic>>

PumpEnds ==
  /\ pump = "ranging"
  /\ chans = "closed" /\ errs = 0
  /\ pump' = "off"
  /\ UNCHANGED <<connVars, others, handler, fetchers, periodic, last>>

HandlerReceives ==
  /\ handler = "ranging"
  /\ OfferEvent
  /\ handler' = "handling"
  /\ UNCHANGED <<others, pump, fetchers, periodic, last>>

(* The event is ignored, or an error is reported, or a fetcher is started  *)
(* unless the semaphore is full: then the dropped call is reported.        *)
BugHandleUnlimited ==
  /\ handler = "handling"
  /\ handler' = "ranging"
  /\ \/ UNCHANGED <<fetchers, last>>
     \/ Report /\ UNCHANGED fetchers
     \/ fetchers' = fetchers + 1 /\ UNCHANGED last
  /\ UNCHANGED <<connVars, others, pump, periodic>>

HandleEvent ==
  /\ handler = "handling"
  /\ handler' = "ranging"
  /\ \/ UNCHANGED <<fetchers, last>>
     \/ Report /\ UNCHANGED fetchers
     \/ fetchers < MaxFetchers /\ fetchers' = fetchers + 1 /\ UNCHANGED last
  /\ UNCHANGED <<connVars, others, pump, periodic>>

HandlerEnds ==
  /\ handler = "ranging"
  /\ chans = "closed"
  /\ handler' = "filling"
  /\ UNCHANGED <<connVars, others, pump, fetchers, periodic, last>>

BugNotFilled ==
  /\ handler = "filling"
  /\ handler' = "off"
  /\ UNCHANGED <<connVars, others, pump, fetchers, periodic, last>>

(* Its deferred function takes every place of the semaphore.               *)
SemaphoreFilled ==
  /\ handler = "filling"
  /\ fetchers = 0
  /\ handler' = "off"
  /\ UNCHANGED <<connVars, others, pump, fetchers, periodic, last>>

(* A fetcher reports an error, if any, and then frees its place.           *)
Fetched ==
  /\ fetchers > 0
  /\ fetchers' = fetchers - 1
  /\ Report \/ UNCHANGED last
  /\ UNCHANGED <<connVars, others, pump, handler, periodic>>

PeriodicQuery ==
  /\ periodic = "waiting"
  /\ periodic' = "querying"
  /\ UNCHANGED <<connVars, others, pump, handler, fetchers, last>>

PeriodicReport ==
  /\ periodic = "querying"
  /\ periodic' = "waiting"
  /\ Report
  /\ UNCHANGED <<connVars, others, pump, handler, fetchers>>

-----------------------------------------------------------------------------
RunStep ==
  \/ Started
  \/ SelectStop
  \/ InitAction
  \/ EnterLogin
  \/ NextAction
  \/ Act
  \/ Type
  \/ TypingTaken
  \/ Reconnect
  \/ LoginFails
  \/ LoginSucceeds
  \/ LoginCanceled
  \/ LoginAgain
  \/ ConnectUser
  \/ NotConnected
  \/ Disconnect
  \/ Disconnected
  \/ SignalPeriodic
  \/ GroupDone
  \/ Logout
  \/ Stopped

PumpStep == PumpReceives \/ PumpReports \/ PumpEnds
HandlerStep == HandlerReceives \/ HandleEvent \/ HandlerEnds \/ SemaphoreFilled
PeriodicStep == PeriodicQuery \/ PeriodicReport

Next ==
  \/ Launch
  \/ CloseStopChan
  \/ StopReturns
  \/ RunStep
  \/ PumpStep
  \/ HandlerStep
  \/ Fetched
  \/ PeriodicStep
  \/ (ListenStep \/ SocketStep) /\ UNCHANGED userVars

Spec == Init /\ [][Next]_vars

(* Requests return, and every goroutine that can go on does.  A select     *)
(* with several channels ready chooses at random, so a channel that is     *)
(* ready again and again is chosen in the end.                             *)
Fairness ==
  /\ WF_vars(StopReturns)
  /\ WF_vars(RunStep)
  /\ SF_vars(SelectStop)
  /\ SF_vars(LoginCanceled)
  /\ SF_vars(SignalPeriodic)
  /\ SF_vars(TypingTaken)
  /\ WF_vars(PumpStep)
  /\ WF_vars(HandlerStep)
  /\ WF_vars(Fetched)
  /\ WF_vars(PeriodicReport)
  /\ WF_vars(ListenStep /\ UNCHANGED userVars)
  /\ SF_vars(SeeClosing /\ UNCHANGED userVars)

(* The server accepts a connection if it is asked again and again.         *)
ServerRecovers == SF_vars(DialSucceeds /\ UNCHANGED userVars)

FairSpec == Spec /\ Fairness /\ ServerRecovers

-----------------------------------------------------------------------------
(* Run has not begun to leave, is leaving, or is over.                     *)
Phase ==
  CASE pc \in {"idle", "starting", "stopped"} -> pc
    [] pc \notin {"idle", "starting", "stopped"} /\ then = "leave" -> "leaving"
    [] OTHER -> "running"

(* Neither listen nor SendTypingEvent sends on a channel that Disconnect   *)
(* has closed, which would panic.                                          *)
NoSendOnClosed == ListenSendsOnOpen /\ (pc = "typing" => chans = "open")

(* No error is reported without an error value: connect never fails in     *)
(* login, because connectedFlag, connected and the token agree there.      *)
ErrorsHaveCause == last # "nilError"

(* A user that has reported STOPPED leaves nothing behind that could still *)
(* report on the status channel or hold a connection.                      *)
LeavesNothing ==
  last = "stopped" =>
    /\ pump = "off" /\ handler = "off" /\ periodic = "off" /\ fetchers = 0
    /\ loop \in {"off", "returned"} /\ ~ reader
    /\ ~ flag /\ ~ connected

(* A new connection is made only when every goroutine of the one before is *)
(* gone: they use the fields of the user and of the controller that        *)
(* Connect overwrites.                                                     *)
ConnectsAlone ==
  [][~ connected /\ connected' =>
       /\ pump = "off" /\ handler = "off" /\ periodic = "off" /\ fetchers = 0
       /\ loop \in {"off", "returned"}]_vars

(* A controller, as the load-test engine relies on it.                     *)
Life == INSTANCE ControllerLife WITH phase <- Phase
ImplementsLife == Life!Spec

(* Stop returns.  It need not while the server refuses connections: a user *)
(* who is typing then waits for listen to have a socket again, in          *)
(* SendTypingEvent (src/loadtest/user/userentity/websocket.go:200).        *)
StopEnds == stop ~> ~ stop
=============================================================================
