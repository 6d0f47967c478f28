---------------------------- MODULE ClusterUser ----------------------------
(***************************************************************************)
(* The clustercontroller (src/loadtest/control/clustercontroller): a       *)
(* system administrator who logs in and then reads logs, analytics, the    *)
(* status of the cluster and of its plugins, and flips a flag of the       *)
(* server's configuration, in turn.  It never connects.                    *)
(***************************************************************************)
EXTENDS Naturals

VARIABLES
  pc,    \* where Run is
  turn,  \* the action that is next
  stop,  \* c.stop is closed
  last   \* the last status that was sent

vars == <<pc, turn, stop, last>>

(* GetLogs, GetAnalytics, GetClusterStatus, GetPluginStatuses, and the     *)
(* flip of the configuration.                                              *)
Turns == 1..5

TypeOK ==
  /\ pc \in {"idle", "starting", "login", "act", "updating", "pause", "leaving", "stopped"}
  /\ turn \in Turns
  /\ stop \in BOOLEAN
  /\ last \in {"none", "started", "report", "stopped"}

Init ==
  /\ pc = "idle"
  /\ turn = 1
  /\ stop = FALSE
  /\ last = "none"

Goto(l) == pc' = l
Report == last' = "report"

Launch ==
  /\ pc = "idle"
  /\ Goto("starting")
  /\ turn' = 1
  /\ UNCHANGED <<stop, last>>

CloseStop ==
  /\ pc # "idle"
  /\ ~ stop
  /\ stop' = TRUE
  /\ UNCHANGED <<pc, turn, last>>

StopReturns ==
  /\ pc = "stopped"
  /\ stop
  /\ Goto("idle")
  /\ stop' = FALSE
  /\ UNCHANGED <<turn, last>>

Started ==
  /\ pc = "starting"
  /\ Goto("login")
  /\ last' = "started"
  /\ UNCHANGED <<turn, stop>>

(* A login that fails is reported and not tried again.                     *)
Login ==
  /\ pc = "login"
  /\ Goto("act")
  /\ Report
  /\ UNCHANGED <<turn, stop>>

(* The configuration is read before the flipped one is sent.               *)
Act ==
  /\ pc = "act"
  /\ \/ Goto("pause") /\ Report
     \/ turn = 5 /\ Goto("updating") /\ UNCHANGED last
  /\ UNCHANGED <<turn, stop>>

UpdateConfig ==
  /\ pc = "updating"
  /\ Goto("pause")
  /\ Report
  /\ UNCHANGED <<turn, stop>>

SelectStop ==
  /\ pc = "pause"
  /\ stop
  /\ Goto("leaving")
  /\ UNCHANGED <<turn, stop, last>>

NextAction ==
  /\ pc = "pause"
  /\ Goto("act")
  /\ turn' = (turn % 5) + 1
  /\ UNCHANGED <<stop, last>>

Stopped ==
  /\ pc = "leaving"
  /\ Goto("stopped")
  /\ last' = "stopped"
  /\ UNCHANGED <<turn, stop>>

RunStep ==
  \/ Started \/ Login \/ Act \/ UpdateConfig \/ SelectStop \/ NextAction \/ Stopped

Next == Launch \/ CloseStop \/ StopReturns \/ RunStep

Spec == Init /\ [][Next]_vars

Phase ==
  CASE pc \in {"idle", "starting", "leaving", "stopped"} -> pc
    [] OTHER -> "running"
=============================================================================
