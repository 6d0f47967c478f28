-------------------------- MODULE LoadTestContract --------------------------
(***************************************************************************)
(* What the load-test agent promises to the callers of Run, AddUsers,      *)
(* RemoveUsers, Stop and Status (src/loadtest/loadtest.go, and the states  *)
(* of src/loadtest/status.go): a test goes through stopped, starting,      *)
(* running, stopping and back; there are never more than MaxUsers users;   *)
(* a user is added, ends, and is removed, each counted once; and a test    *)
(* that is stopped has no user left, every one of them having ended.       *)
(***************************************************************************)
EXTENDS Naturals

CONSTANT MaxUsers

VARIABLES
  state,    \* Status.State
  users,    \* Status.NumUsers
  added,    \* Status.NumUsersAdded
  removed,  \* Status.NumUsersRemoved
  ended     \* Status.NumUsersStopped

vars == <<state, users, added, removed, ended>>

Init ==
  /\ state = "stopped"
  /\ users = 0
  /\ added = 0
  /\ removed = 0
  /\ ended = 0

(* A new test starts with no users and counts from zero.                   *)
Start ==
  /\ state = "stopped"
  /\ users = 0
  /\ state' = "starting"
  /\ added' = 0
  /\ removed' = 0
  /\ ended' = 0
  /\ UNCHANGED users

(* Users are added to a test that starts or runs, up to the maximum.       *)
Add ==
  /\ state \in {"starting", "running"}
  /\ users < MaxUsers
  /\ users' = users + 1
  /\ added' = added + 1
  /\ UNCHANGED <<state, removed, ended>>

Ready ==
  /\ state = "starting"
  /\ state' = "running"
  /\ UNCHANGED <<users, added, removed, ended>>

(* Some users are removed, all of them when the test is being stopped.     *)
Remove ==
  /\ \E n \in 1..users :
       /\ users' = users - n
       /\ removed' = removed + n
  /\ \/ state = "running"
     \/ state = "stopping" /\ users' = 0
  /\ UNCHANGED <<state, added, ended>>

(* No more users end than were added: NumUsersStopped counts each once.    *)
End ==
  /\ ended < added
  /\ ended' = ended + 1
  /\ UNCHANGED <<state, users, added, removed>>

BeginStop ==
  /\ state = "running"
  /\ state' = "stopping"
  /\ UNCHANGED <<users, added, removed, ended>>

Finish ==
  /\ state = "stopping"
  /\ users = 0
  /\ removed = added
  /\ ended = added
  /\ state' = "stopped"
  /\ UNCHANGED <<users, added, removed, ended>>

Next == Start \/ Add \/ Ready \/ Remove \/ End \/ BeginStop \/ Finish

Spec == Init /\ [][Next]_vars
=============================================================================
