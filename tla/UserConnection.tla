--------------------------- MODULE UserConnection ---------------------------
(***************************************************************************)
(* The WebSocket connection of a simulated user: UserEntity.Connect,       *)
(* Disconnect, SendTypingEvent and the goroutine of listen                 *)
(* (src/loadtest/user/userentity/user.go and websocket.go), on top of the  *)
(* client of src/loadtest/user/websocket/client.go.                        *)
(*                                                                         *)
(* The channels of events and of typing messages have no buffer: a step of *)
(* listen that sends or receives on one is a step of the controller too,   *)
(* whose modules conjoin their half to it.  Time is abstracted: a timer    *)
(* may fire at any moment after it is set, so the wait between two         *)
(* attempts to connect is the state "waiting".                             *)
(*                                                                         *)
(* A definition named Bug... is the next one with a mistake in it, which   *)
(* some property must tell apart.                                          *)
(***************************************************************************)
EXTENDS Naturals

CONSTANT EventBuffer  \* capacity of Client.EventChannel

ASSUME EventBufferAssumption == EventBuffer \in Nat \ {0}

VARIABLES
  token,      \* ue.client.AuthToken is set
  connected,  \* ue.connected
  closing,    \* ue.wsClosing is closed
  chans,      \* ue.wsEventChan, wsTyping and wsErrorChan: nil, open or closed
  errs,       \* errors in wsErrorChan, which holds one
  loop,       \* where listen is; "returned" means that wsClosed is closed
  reader,     \* the client's reader is running: the socket is up
  events      \* events in Client.EventChannel

connVars == <<token, connected, closing, chans, errs, loop, reader, events>>

LoopStates ==
  {"off", "dialing", "dialFailed", "waiting", "listening", "eventFailed", "offering",
   "typingFailed", "returned"}

ConnTypeOK ==
  /\ token \in BOOLEAN
  /\ connected \in BOOLEAN
  /\ closing \in BOOLEAN
  /\ chans \in {"nil", "open", "closed"}
  /\ errs \in 0..1
  /\ loop \in LoopStates
  /\ reader \in BOOLEAN
  /\ events \in 0..EventBuffer

ConnInit ==
  /\ token = FALSE
  /\ connected = FALSE
  /\ closing = FALSE
  /\ chans = "nil"
  /\ errs = 0
  /\ loop = "off"
  /\ reader = FALSE
  /\ events = 0

-----------------------------------------------------------------------------
(* Connect is refused to a user who is connected or not authenticated.     *)
ConnectRefused == connected \/ ~ token

Connect ==
  /\ ~ ConnectRefused
  /\ connected' = TRUE
  /\ closing' = FALSE
  /\ chans' = "open"
  /\ errs' = 0
  /\ loop' = "dialing"
  /\ UNCHANGED <<token, reader, events>>

(* Disconnect: close wsClosing ...                                         *)
BeginDisconnect ==
  /\ connected
  /\ closing' = TRUE
  /\ UNCHANGED <<token, connected, chans, errs, loop, reader, events>>

BugEndDisconnectEarly ==
  /\ chans' = "closed"
  /\ connected' = FALSE
  /\ UNCHANGED <<token, closing, errs, loop, reader, events>>

BugEndDisconnectKeepsOpen ==
  /\ loop = "returned"
  /\ connected' = FALSE
  /\ UNCHANGED <<token, closing, chans, errs, loop, reader, events>>

(* ... wait for wsClosed, and close the other channels.                    *)
EndDisconnect ==
  /\ loop = "returned"
  /\ chans' = "closed"
  /\ connected' = FALSE
  /\ UNCHANGED <<token, closing, errs, loop, reader, events>>

-----------------------------------------------------------------------------
(* listen.                                                                 *)

DialSucceeds ==
  /\ loop = "dialing"
  /\ loop' = "listening"
  /\ reader' = TRUE
  /\ events' = 0
  /\ UNCHANGED <<token, connected, closing, chans, errs>>

DialFails ==
  /\ loop = "dialing"
  /\ loop' = "dialFailed"
  /\ UNCHANGED <<token, connected, closing, chans, errs, reader, events>>

(* Send on wsErrorChan, which blocks while the channel is full.            *)
ReportError(from, to) ==
  /\ loop = from
  /\ chans = "open"
  /\ errs = 0
  /\ errs' = 1
  /\ loop' = to
  /\ UNCHANGED <<token, connected, closing, chans, reader, events>>

ReportDialError == ReportError("dialFailed", "waiting")
ReportEventError == ReportError("eventFailed", "offering")
ReportTypingError == ReportError("typingFailed", "listening")

Redial ==
  /\ loop = "waiting"
  /\ loop' = "dialing"
  /\ UNCHANGED <<token, connected, closing, chans, errs, reader, events>>

(* An event is taken; the user's own handling of it may fail.              *)
TakeEvent ==
  /\ loop = "listening"
  /\ events > 0
  /\ events' = events - 1
  /\ loop' \in {"offering", "eventFailed"}
  /\ UNCHANGED <<token, connected, closing, chans, errs, reader>>

(* The reader has gone and what it left is handled.                        *)
SeeSocketClosed ==
  /\ loop = "listening"
  /\ events = 0
  /\ ~ reader
  /\ loop' = "waiting"
  /\ UNCHANGED <<token, connected, closing, chans, errs, reader, events>>

(* Both selects watch wsClosing; the inner one closes the client first.    *)
SeeClosing ==
  /\ loop \in {"waiting", "listening"}
  /\ closing
  /\ loop' = "returned"
  /\ reader' = FALSE
  /\ UNCHANGED <<token, connected, closing, chans, errs, events>>

(* Half of a send on wsEventChan: the controller receives.                 *)
OfferEvent ==
  /\ loop = "offering"
  /\ loop' = "listening"
  /\ UNCHANGED <<token, connected, closing, chans, errs, reader, events>>

(* Half of a receive from wsTyping: the controller is in SendTypingEvent.  *)
TakeTyping ==
  /\ loop = "listening"
  /\ loop' \in {"listening", "typingFailed"}
  /\ UNCHANGED <<token, connected, closing, chans, errs, reader, events>>

ListenStep ==
  \/ DialSucceeds
  \/ DialFails
  \/ ReportDialError
  \/ ReportEventError
  \/ ReportTypingError
  \/ Redial
  \/ TakeEvent
  \/ SeeSocketClosed
  \/ SeeClosing

-----------------------------------------------------------------------------
(* The socket: an event arrives, and is dropped when the buffer is full;   *)
(* or the connection breaks and the reader ends.                           *)
EventArrives ==
  /\ reader
  /\ events < EventBuffer
  /\ events' = events + 1
  /\ UNCHANGED <<token, connected, closing, chans, errs, loop, reader>>

SocketBreaks ==
  /\ reader
  /\ reader' = FALSE
  /\ UNCHANGED <<token, connected, closing, chans, errs, loop, events>>

SocketStep == EventArrives \/ SocketBreaks

-----------------------------------------------------------------------------
(* What listen relies on when it sends: Disconnect closes the channels     *)
(* only after it has returned.                                             *)
ListenSendsOnOpen ==
  loop \in {"dialFailed", "eventFailed", "offering", "typingFailed"} => chans = "open"
=============================================================================
