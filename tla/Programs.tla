------------------------------ MODULE Programs ------------------------------
(***************************************************************************)
(* The instructions that the actions of a simulated user are written in.   *)
(* An action is a sequence of them; UserSession gives them their meaning.  *)
(***************************************************************************)
EXTENDS Sequences

(* A request: what the server is asked for, the register it is about and   *)
(* the instructions that use its answer.  When it fails, the user's action *)
(* ends with an error, or, for Try, goes on without an answer.             *)
Ask(what, arg, then) == <<[op |-> "ask", what |-> what, arg |-> arg, then |-> then]>>
Try(what, arg, then) == <<[op |-> "try", what |-> what, arg |-> arg, then |-> then]>>

(* One call to the store, about a register.                                *)
Do(call, arg) == <<[op |-> "do", call |-> call, arg |-> arg]>>

(* A choice of an element of a set, into a register; when there is none,   *)
(* the program "none" takes the place of what follows.                     *)
Pick(into, from, none) == <<[op |-> "pick", into |-> into, from |-> from, none |-> none]>>
PickTeam(st, none) == <<[op |-> "pickTeam", st |-> st, none |-> none]>>
PickChannel(st, none) == <<[op |-> "pickChannel", st |-> st, none |-> none]>>

(* The elements of a set one after another, in any order.                  *)
Each(into, from, do) == <<[op |-> "each", into |-> into, from |-> from, do |-> do]>>

(* A set of users gathered in a register, or one user added to it.         *)
Gather(into, from) == <<[op |-> "gather", into |-> into, from |-> from]>>
Collect(into) == <<[op |-> "collect", into |-> into]>>

If(cond, then) == <<[op |-> "if", cond |-> cond, then |-> then]>>
Maybe(then) == <<[op |-> "maybe", then |-> then]>>

(* The ends of an action: an information or an error; Panic is the end of  *)
(* the process and Spin a loop without one.  Catch names the program that  *)
(* an error continues with instead, and Run a program of UserSession.      *)
Info == <<[op |-> "info"]>>
Err == <<[op |-> "err"]>>
Panic == <<[op |-> "panic"]>>
Spin == <<[op |-> "spin"]>>
Catch(next) == <<[op |-> "catch", next |-> next]>>
Uncatch == Catch(<<>>)
Run(name) == <<[op |-> "run", name |-> name]>>

(* The WebSocket connection, which UserConnection models.                  *)
Connect == <<[op |-> "connect"]>>
Disconnect == <<[op |-> "disconnect"]>>
=============================================================================
