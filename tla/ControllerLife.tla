--------------------------- MODULE ControllerLife ---------------------------
(***************************************************************************)
(* What loadtest.LoadTester relies on in a control.UserController          *)
(* (src/loadtest/control/controller.go, and its use in                     *)
(* src/loadtest/loadtest.go): Run reports that it has started, goes on     *)
(* until Stop is called, cleans up, and reports STOPPED last; Stop returns *)
(* when Run is over and makes the controller ready for another Run.        *)
(* Reports in between change nothing here.                                 *)
(***************************************************************************)

VARIABLES
  phase,  \* how far Run is
  stop    \* Stop has been called and has not returned

vars == <<phase, stop>>

Init == phase = "idle" /\ stop = FALSE

Run ==
  /\ phase = "idle"
  /\ ~ stop
  /\ phase' = "starting"
  /\ UNCHANGED stop

Started ==
  /\ phase = "starting"
  /\ phase' = "running"
  /\ UNCHANGED stop

(* Only Stop makes Run leave its loop.                                     *)
Leave ==
  /\ phase = "running"
  /\ stop
  /\ phase' = "leaving"
  /\ UNCHANGED stop

Stopped ==
  /\ phase = "leaving"
  /\ phase' = "stopped"
  /\ UNCHANGED stop

CallStop ==
  /\ phase # "idle"
  /\ ~ stop
  /\ stop' = TRUE
  /\ UNCHANGED phase

StopReturns ==
  /\ phase = "stopped"
  /\ stop
  /\ phase' = "idle"
  /\ stop' = FALSE

Next == Run \/ Started \/ Leave \/ Stopped \/ CallStop \/ StopReturns

Spec == Init /\ [][Next]_vars
=============================================================================
