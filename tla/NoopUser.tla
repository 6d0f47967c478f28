------------------------------ MODULE NoopUser ------------------------------
(***************************************************************************)
(* The noopcontroller and its user                                         *)
(* (src/loadtest/control/noopcontroller/controller.go and websocket.go).   *)
(* It uses the connection of module UserConnection as simulcontroller      *)
(* does, with two differences that matter: wsEventHandler is started       *)
(* before Connect has made the channel of events, and Run waits for none   *)
(* of the goroutines it has started.                                       *)
(*                                                                         *)
(* A definition named Bug... is the next one with a mistake in it, which   *)
(* some property must tell apart.                                          *)
(***************************************************************************)
EXTENDS UserConnection

VARIABLES
  pc,       \* where Run is
  stop,     \* c.stop is closed
  pump,     \* the goroutine that ranges over the error channel
  handler,  \* wsEventHandler: "launched" until it has asked for the channel
  last      \* the last status that was sent

userVars == <<pc, stop, pump, handler, last>>
vars == <<connVars, userVars>>

TypeOK ==
  /\ ConnTypeOK
  /\ pc \in {"idle", "starting", "signup", "login", "connecting", "act", "pause", "leaving",
             "awaitClosed", "cleanup", "stopped"}
  /\ stop \in BOOLEAN
  /\ pump \in {"off", "ranging", "sending"}
  /\ handler \in {"off", "launched", "onNil", "ranging"}
  /\ last \in {"none", "started", "report", "stopped"}

Init ==
  /\ ConnInit
  /\ pc = "idle"
  /\ stop = FALSE
  /\ pump = "off"
  /\ handler = "off"
  /\ last = "none"

Goto(l) == pc' = l
Report == last' = "report"

-----------------------------------------------------------------------------
Launch ==
  /\ pc = "idle"
  /\ Goto("starting")
  /\ UNCHANGED <<connVars, stop, pump, handler, last>>

CloseStop ==
  /\ pc # "idle"
  /\ ~ stop
  /\ stop' = TRUE
  /\ UNCHANGED <<connVars, pc, pump, handler, last>>

StopReturns ==
  /\ pc = "stopped"
  /\ stop
  /\ Goto("idle")
  /\ stop' = FALSE
  /\ UNCHANGED <<connVars, pump, handler, last>>

(* The handler of an earlier run, if it is still there, is forgotten: it   *)
(* can receive nothing any more.                                           *)
Started ==
  /\ pc = "starting"
  /\ Goto("signup")
  /\ handler' = "launched"
  /\ last' = "started"
  /\ UNCHANGED <<connVars, stop, pump>>

SignUp ==
  /\ pc = "signup"
  /\ Goto("login")
  /\ Report
  /\ UNCHANGED <<connVars, stop, pump, handler>>

(* A login that fails is not tried again: the user stays unconnected.      *)
Login ==
  /\ pc = "login"
  /\ Report
  /\ \/ Goto("act") /\ token' \in {token, TRUE}
     \/ Goto("connecting") /\ token' = TRUE
  /\ UNCHANGED <<connected, closing, chans, errs, loop, reader, events, stop, pump, handler>>

(* A reporter of errors left over from an earlier run is forgotten too.    *)
Connected ==
  /\ Connect
  /\ pump' = "ranging"
  /\ Goto("act")
  /\ UNCHANGED <<stop, handler, last>>

ConnectFailed ==
  /\ Goto("leaving")
  /\ Report
  /\ UNCHANGED <<connVars, stop, pump, handler>>

ConnectUser ==
  /\ pc = "connecting"
  /\ IF ConnectRefused THEN ConnectFailed ELSE Connected

(* GetMe                                                                   *)
Act ==
  /\ pc = "act"
  /\ Goto("pause")
  /\ Report
  /\ UNCHANGED <<connVars, stop, pump, handler>>

NextAction ==
  /\ pc = "pause"
  /\ Goto("act")
  /\ UNCHANGED <<connVars, stop, pump, handler, last>>

BugSelectLeaves ==
  /\ pc = "pause"
  /\ Goto("leaving")
  /\ UNCHANGED <<connVars, stop, pump, handler, last>>

SelectStop ==
  /\ pc = "pause"
  /\ stop
  /\ Goto("leaving")
  /\ UNCHANGED <<connVars, stop, pump, handler, last>>

(* The deferred function: Disconnect, or report that it failed.            *)
Disconnect ==
  /\ pc = "leaving"
  /\ BeginDisconnect
  /\ Goto("awaitClosed")
  /\ UNCHANGED <<stop, pump, handler, last>>

NotConnected ==
  /\ pc = "leaving"
  /\ ~ connected
  /\ Goto("cleanup")
  /\ Report
  /\ UNCHANGED <<connVars, stop, pump, handler>>

BugDisconnectedEarly ==
  /\ pc = "awaitClosed"
  /\ chans' = "closed"
  /\ connected' = FALSE
  /\ Goto("cleanup")
  /\ UNCHANGED <<token, closing, errs, loop, reader, events, stop, pump, handler, last>>

Disconnected ==
  /\ pc = "awaitClosed"
  /\ EndDisconnect
  /\ Goto("cleanup")
  /\ UNCHANGED <<stop, pump, handler, last>>

Stopped ==
  /\ pc = "cleanup"
  /\ Goto("stopped")
  /\ last' = "stopped"
  /\ UNCHANGED <<connVars, stop, pump, handler>>

-----------------------------------------------------------------------------
PumpReceives ==
  /\ pump = "ranging"
  /\ errs = 1
  /\ errs' = 0
  /\ pump' = "sending"
  /\ UNCHANGED <<token, connected, closing, chans, loop, reader, events>>
  /\ UNCHANGED <<pc, stop, handler, last>>

PumpReports ==
  /\ pump = "sending"
  /\ pump' = "ranging"
  /\ Report
  /\ UNCHANGED <<connVars, pc, stop, handler>>

PumpEnds ==
  /\ pump = "ranging"
  /\ chans = "closed" /\ errs = 0
  /\ pump' = "off"
  /\ UNCHANGED <<connVars, pc, stop, handler, last>>

(* wsEventHandler asks for the channel of events once, before its loop: it *)
(* is nil, or closed since an earlier run, unless Run has connected.       *)
GetEvents ==
  /\ handler = "launched"
  /\ handler' = CASE chans = "nil"    -> "onNil"
                  [] chans = "open"   -> "ranging"
                  [] chans = "closed" -> "off"
  /\ UNCHANGED <<connVars, pc, stop, pump, last>>

HandlerReceives ==
  /\ handler = "ranging"
  /\ OfferEvent
  /\ UNCHANGED userVars

HandlerEnds ==
  /\ handler = "ranging"
  /\ chans = "closed"
  /\ handler' = "off"
  /\ UNCHANGED <<connVars, pc, stop, pump, last>>

-----------------------------------------------------------------------------
RunStep ==
  \/ Started
  \/ SignUp
  \/ Login
  \/ ConnectUser
  \/ Act
  \/ NextAction
  \/ SelectStop
  \/ Disconnect
  \/ NotConnected
  \/ Disconnected
  \/ Stopped

PumpStep == PumpReceives \/ PumpReports \/ PumpEnds
HandlerStep == GetEvents \/ HandlerReceives \/ HandlerEnds

Next ==
  \/ Launch
  \/ CloseStop
  \/ StopReturns
  \/ RunStep
  \/ PumpStep
  \/ HandlerStep
  \/ (ListenStep \/ SocketStep) /\ UNCHANGED userVars

Spec == Init /\ [][Next]_vars

-----------------------------------------------------------------------------
Phase ==
  CASE pc \in {"idle", "starting", "stopped"} -> pc
    [] pc \in {"leaving", "awaitClosed", "cleanup"} -> "leaving"
    [] OTHER -> "running"
=============================================================================
