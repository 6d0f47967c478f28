---------------------------- MODULE PlainUsers ----------------------------
(***************************************************************************)
(* The three plain controllers, noopcontroller, simplecontroller and       *)
(* clustercontroller, each with its user: which of them a load test runs   *)
(* is a choice of its configuration, made once.                            *)
(***************************************************************************)
EXTENDS UserConnection

VARIABLES which, pc, then, turn, flag, stop, pump, handler, last

N == INSTANCE NoopUser
S == INSTANCE SimpleUser
C == INSTANCE ClusterUser

vars == <<connVars, which, pc, then, turn, flag, stop, pump, handler, last>>

Init ==
  /\ ConnInit
  /\ which \in {"noop", "simple", "cluster"}
  /\ pc = "idle" /\ then = "start" /\ turn = 1 /\ flag = FALSE /\ stop = FALSE
  /\ pump = "off" /\ handler = "off" /\ last = "none"

Noop(A) == which = "noop" /\ A /\ UNCHANGED <<which, then, turn, flag>>
Simple(A) == which = "simple" /\ A /\ UNCHANGED <<which, turn>>
Cluster(A) ==
  which = "cluster" /\ A /\ UNCHANGED <<connVars, which, then, flag, pump, handler>>

Next == Noop(N!Next) \/ Simple(S!Next) \/ Cluster(C!Next)

(* Requests return, and every goroutine that can go on does.  A select     *)
(* with several channels ready chooses at random, so a channel that is     *)
(* ready again and again is chosen in the end.  Nothing is assumed of the  *)
(* server: it may refuse every connection.                                 *)
StopReturns == Noop(N!StopReturns) \/ Simple(S!StopReturns) \/ Cluster(C!StopReturns)
RunStep == Noop(N!RunStep) \/ Simple(S!RunStep) \/ Cluster(C!RunStep)
SelectStop == Noop(N!SelectStop) \/ Simple(S!SelectStop) \/ Cluster(C!SelectStop)
PumpStep == Noop(N!PumpStep) \/ Simple(S!PumpStep)
HandlerStep == Noop(N!HandlerStep) \/ Simple(S!HandlerStep)
Listen(A) == A /\ UNCHANGED <<which, pc, then, turn, flag, stop, pump, handler, last>>

Fairness ==
  /\ WF_vars(StopReturns)
  /\ WF_vars(RunStep)
  /\ SF_vars(SelectStop)
  /\ WF_vars(PumpStep)
  /\ WF_vars(HandlerStep)
  /\ WF_vars(Listen(ListenStep))
  /\ SF_vars(Listen(SeeClosing))

Spec == Init /\ [][Next]_vars
FairSpec == Spec /\ Fairness

-----------------------------------------------------------------------------
TypeOK ==
  CASE which = "noop" -> N!TypeOK
    [] which = "simple" -> S!TypeOK
    [] which = "cluster" -> C!TypeOK

(* A simple user that has stopped leaves neither goroutine nor connection. *)
SimpleLeavesNothing == which = "simple" => S!LeavesNothing

(* Each is a controller, as the load-test engine relies on it.             *)
Phase ==
  CASE which = "noop" -> N!Phase
    [] which = "simple" -> S!Phase
    [] which = "cluster" -> C!Phase

Life == INSTANCE ControllerLife WITH phase <- Phase
ImplementsLife == Life!Spec

(* Stop returns (src/loadtest/control/controller.go:17, "Stop stops the    *)
(* controller."), with one exception: the event handler of a noopcontroller *)
(* that asked for the channel of events too early receives nothing, and    *)
(* Disconnect waits for listen, which offers an event, for ever.           *)
Unheard == which = "noop" /\ loop = "offering" /\ handler \in {"off", "onNil"}

StopEnds == stop ~> ~ stop \/ Unheard
===========================================================================
