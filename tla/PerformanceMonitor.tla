------------------------- MODULE PerformanceMonitor -------------------------
(***************************************************************************)
(* The goroutine of performance.Monitor                                    *)
(* (src/coordinator/performance/monitor.go), which queries Prometheus      *)
(* every now and then and sends the result on a channel without a buffer:  *)
(* a result is handed over in a step of the coordinator, too.              *)
(***************************************************************************)

VARIABLES
  mon,      \* where the goroutine is
  result,   \* Status.Alert of the last queries
  monStop   \* m.stopChan is closed

monVars == <<mon, result, monStop>>

MonTypeOK ==
  /\ mon \in {"off", "querying", "sending", "sleeping"}
  /\ result \in BOOLEAN
  /\ monStop \in BOOLEAN

MonInit ==
  /\ mon = "off"
  /\ result = FALSE
  /\ monStop = FALSE

MonRun ==
  /\ mon = "off"
  /\ mon' = "querying"
  /\ UNCHANGED <<result, monStop>>

(* runQueries: some value is above its threshold, or none is, or queries   *)
(* fail.  It gives up when stopChan is closed before a query.              *)
RunQueries ==
  /\ mon = "querying"
  /\ mon' = "sending"
  /\ result' \in BOOLEAN
  /\ UNCHANGED monStop

(* Half of a send on statusChan: the coordinator receives.                 *)
Deliver ==
  /\ mon = "sending"
  /\ mon' = "sleeping"
  /\ UNCHANGED <<result, monStop>>

Wake ==
  /\ mon = "sleeping"
  /\ mon' = "querying"
  /\ UNCHANGED <<result, monStop>>

MonSeesStop ==
  /\ mon = "sleeping"
  /\ monStop
  /\ mon' = "off"
  /\ UNCHANGED <<result, monStop>>

(* Monitor.Stop                                                            *)
StopMonitor ==
  /\ monStop' = TRUE
  /\ UNCHANGED <<mon, result>>

MonStep == RunQueries \/ Wake \/ MonSeesStop
=============================================================================
