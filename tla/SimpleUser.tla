----------------------------- MODULE SimpleUser -----------------------------
(***************************************************************************)
(* The simplecontroller and its user                                       *)
(* (src/loadtest/control/simplecontroller): Run with its configured list   *)
(* of actions, and the two goroutines of a connection, the one that        *)
(* reports its errors and wsEventHandler, on the connection of module      *)
(* UserConnection.  What the actions do at the server is in UserSession.   *)
(*                                                                         *)
(* A definition named Bug... is the next one with a mistake in it, which   *)
(* some property must tell apart.                                          *)
(***************************************************************************)
EXTENDS UserConnection

VARIABLES
  pc,       \* where Run is
  then,     \* what it logs in, connects or disconnects for
  flag,     \* c.connectedFlag
  stop,     \* c.stopChan is closed
  pump,     \* the goroutine that ranges over the error channel
  handler,  \* wsEventHandler
  last      \* the last status that was sent

userVars == <<pc, then, flag, stop, pump, handler, last>>
vars == <<connVars, userVars>>

TypeOK ==
  /\ ConnTypeOK
  /\ pc \in {"idle", "starting", "signup", "signedUp", "login", "loggedIn", "connecting",
             "act", "working", "pause", "nothingToDo", "disconnecting", "awaitClosed",
             "awaitGroup", "cleanup", "stopped"}
  /\ then \in {"start", "login", "logout", "reload", "leave"}
  /\ flag \in BOOLEAN
  /\ stop \in BOOLEAN
  /\ pump \in {"off", "ranging", "sending"}
  /\ handler \in {"off", "ranging", "handling"}
  /\ last \in {"none", "started", "report", "stopped"}

Init ==
  /\ ConnInit
  /\ pc = "idle"
  /\ then = "start"
  /\ flag = FALSE
  /\ stop = FALSE
  /\ pump = "off"
  /\ handler = "off"
  /\ last = "none"

Goto(l) == pc' = l
Report == last' = "report"
goroutines == <<pump, handler>>

-----------------------------------------------------------------------------
(* The load-test engine: go controller.Run(), and controller.Stop().       *)
Launch ==
  /\ pc = "idle"
  /\ Goto("starting")
  /\ then' = "start"
  /\ UNCHANGED <<connVars, flag, stop, goroutines, last>>

CloseStop ==
  /\ pc # "idle"
  /\ ~ stop
  /\ stop' = TRUE
  /\ UNCHANGED <<connVars, pc, then, flag, goroutines, last>>

StopReturns ==
  /\ pc = "stopped"
  /\ stop
  /\ Goto("idle")
  /\ stop' = FALSE
  /\ UNCHANGED <<connVars, then, flag, goroutines, last>>

-----------------------------------------------------------------------------
(* Run.                                                                    *)
Started ==
  /\ pc = "starting"
  /\ Goto("signup")
  /\ last' = "started"
  /\ UNCHANGED <<connVars, then, flag, stop, goroutines>>

SignUp ==
  /\ pc = "signup"
  /\ Goto("signedUp")
  /\ Report
  /\ UNCHANGED <<connVars, then, flag, stop, goroutines>>

(* The select after each of the two initial actions does not wait.  The    *)
(* list of actions may be empty: then Run only waits to be stopped.        *)
InitSelect ==
  /\ pc \in {"signedUp", "loggedIn"}
  /\ IF stop
     THEN Goto("disconnecting") /\ then' = "leave"
     ELSE /\ UNCHANGED then
          /\ pc' \in IF pc = "signedUp" THEN {"login"} ELSE {"act", "nothingToDo"}
  /\ UNCHANGED <<connVars, flag, stop, goroutines, last>>

(* The select after an action, or the wait of a Run without actions.       *)
SelectStop ==
  /\ pc \in {"pause", "nothingToDo"}
  /\ stop
  /\ Goto("disconnecting")
  /\ then' = "leave"
  /\ UNCHANGED <<connVars, flag, stop, goroutines, last>>

NextAction ==
  /\ pc = "pause"
  /\ Goto("act")
  /\ UNCHANGED <<connVars, then, flag, stop, goroutines, last>>

(* An action that only makes requests, or the requests at the end of one.  *)
Act ==
  /\ pc \in {"act", "working"}
  /\ Goto("pause")
  /\ Report
  /\ UNCHANGED <<connVars, then, flag, stop, goroutines>>

(* The actions Login and Reload.                                           *)
Reconnect ==
  /\ pc = "act"
  /\ \/ Goto("login") /\ then' = "login"
     \/ Goto("disconnecting") /\ then' = "reload"
  /\ UNCHANGED <<connVars, flag, stop, goroutines, last>>

AfterLogin == IF then = "start" THEN "loggedIn" ELSE "pause"

(* control.Login: the token is set even if what follows its request fails. *)
Login ==
  /\ pc = "login"
  /\ \/ Goto(AfterLogin) /\ token' \in {token, TRUE} /\ Report
     \/ Goto("connecting") /\ token' = TRUE /\ UNCHANGED last
  /\ UNCHANGED <<connected, closing, chans, errs, loop, reader, events>>
  /\ UNCHANGED <<then, flag, stop, goroutines>>

(* The action Logout: its request clears the token unless it fails.        *)
Logout ==
  /\ pc = "act"
  /\ \/ Goto("pause") /\ token' \in {token, FALSE} /\ Report /\ UNCHANGED then
     \/ Goto("disconnecting") /\ token' = FALSE /\ then' = "logout" /\ UNCHANGED last
  /\ UNCHANGED <<connected, closing, chans, errs, loop, reader, events>>
  /\ UNCHANGED <<flag, stop, goroutines>>

-----------------------------------------------------------------------------
(* connect: its error is reported by reload and dropped after a login.     *)
ConnectDone ==
  IF then = "reload" THEN Goto("working") /\ UNCHANGED last
                     ELSE Goto(AfterLogin) /\ Report

Connected ==
  /\ Connect
  /\ flag' = TRUE
  /\ pump' = "ranging"
  /\ handler' = "ranging"
  /\ ConnectDone
  /\ UNCHANGED <<then, stop>>

ConnectFailed ==
  /\ Goto(IF then = "reload" THEN "pause" ELSE AfterLogin)
  /\ Report
  /\ UNCHANGED <<connVars, then, flag, stop, goroutines>>

ConnectUser ==
  /\ pc = "connecting"
  /\ IF flag \/ ConnectRefused THEN ConnectFailed ELSE Connected

(* disconnect, called by the actions Reload and Logout and when Run ends.  *)
AfterDisconnect(ok) ==
  CASE then = "reload" -> IF ok THEN "connecting" ELSE "pause"
    [] then = "logout" -> "pause"
    [] OTHER           -> "cleanup"

NotConnected ==
  /\ pc = "disconnecting"
  /\ ~ (flag /\ connected)
  /\ flag' = FALSE
  /\ Goto(AfterDisconnect(FALSE))
  /\ Report
  /\ UNCHANGED <<connVars, then, stop, goroutines>>

Disconnect ==
  /\ pc = "disconnecting"
  /\ flag /\ BeginDisconnect
  /\ flag' = FALSE
  /\ Goto("awaitClosed")
  /\ UNCHANGED <<then, stop, goroutines, last>>

Disconnected ==
  /\ pc = "awaitClosed"
  /\ EndDisconnect
  /\ Goto("awaitGroup")
  /\ UNCHANGED <<then, flag, stop, goroutines, last>>

BugGroupOfOne ==
  /\ pc = "awaitGroup"
  /\ handler = "off"
  /\ Goto(AfterDisconnect(TRUE))
  /\ IF then = "logout" THEN Report ELSE UNCHANGED last
  /\ UNCHANGED <<connVars, then, flag, stop, goroutines>>

(* c.wg.Wait, and the information that the user has logged out.            *)
GroupDone ==
  /\ pc = "awaitGroup"
  /\ pump = "off" /\ handler = "off"
  /\ Goto(AfterDisconnect(TRUE))
  /\ IF then = "logout" THEN Report ELSE UNCHANGED last
  /\ UNCHANGED <<connVars, then, flag, stop, goroutines>>

(* ClearUserData, STOPPED, and close of the stopped channel.               *)
Stopped ==
  /\ pc = "cleanup"
  /\ Goto("stopped")
  /\ last' = "stopped"
  /\ UNCHANGED <<connVars, then, flag, stop, goroutines>>

-----------------------------------------------------------------------------
(* The goroutines of a connection.                                         *)
others == <<pc, then, flag, stop>>

PumpReceives ==
  /\ pump = "ranging"
  /\ errs = 1
  /\ errs' = 0
  /\ pump' = "sending"
  /\ UNCHANGED <<token, connected, closing, chans, loop, reader, events>>
  /\ UNCHANGED <<others, handler, last>>

PumpReports ==
  /\ pump = "sending"
  /\ pump' = "ranging"
  /\ Report
  /\ UNCHANGED <<connVars, others, handler>>

PumpEnds ==
  /\ pump = "ranging"
  /\ chans = "closed" /\ errs = 0
  /\ pump' = "off"
  /\ UNCHANGED <<connVars, others, handler, last>>

HandlerReceives ==
  /\ handler = "ranging"
  /\ OfferEvent
  /\ handler' = "handling"
  /\ UNCHANGED <<others, pump, last>>

(* A user who came online may be sent a message, which is reported.        *)
HandleEvent ==
  /\ handler = "handling"
  /\ handler' = "ranging"
  /\ Report \/ UNCHANGED last
  /\ UNCHANGED <<connVars, others, pump>>

HandlerEnds ==
  /\ handler = "ranging"
  /\ chans = "closed"
  /\ handler' = "off"
  /\ UNCHANGED <<connVars, others, pump, last>>

-----------------------------------------------------------------------------
RunStep ==
  \/ Started
  \/ SignUp
  \/ InitSelect
  \/ SelectStop
  \/ NextAction
  \/ Act
  \/ Reconnect
  \/ Login
  \/ Logout
  \/ ConnectUser
  \/ NotConnected
  \/ Disconnect
  \/ Disconnected
  \/ GroupDone
  \/ Stopped

PumpStep == PumpReceives \/ PumpReports \/ PumpEnds
HandlerStep == HandlerReceives \/ HandleEvent \/ HandlerEnds

Next ==
  \/ Launch
  \/ CloseStop
  \/ StopReturns
  \/ RunStep
  \/ PumpStep
  \/ HandlerStep
  \/ (ListenStep \/ SocketStep) /\ UNCHANGED userVars

Spec == Init /\ [][Next]_vars

-----------------------------------------------------------------------------
Phase ==
  CASE pc \in {"idle", "starting", "stopped"} -> pc
    [] pc \notin {"idle", "starting", "stopped"} /\ then = "leave" -> "leaving"
    [] OTHER -> "running"

(* A user that has reported STOPPED leaves nothing behind that could still *)
(* report on the status channel or hold a connection, and between two      *)
(* actions connectedFlag says what the user entity says (disconnect, in    *)
(* simplecontroller/actions.go).                                           *)
LeavesNothing ==
  /\ last = "stopped" =>
       /\ pump = "off" /\ handler = "off"
       /\ loop \in {"off", "returned"} /\ ~ reader
       /\ ~ flag /\ ~ connected
  /\ pc \in {"signup", "act", "pause", "nothingToDo", "cleanup"} => (flag <=> connected)
=============================================================================
