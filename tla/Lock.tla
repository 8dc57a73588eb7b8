-------------------------------- MODULE Lock --------------------------------
(***************************************************************************)
(* What the lock of executor/cluster_lock.py promises to the executors:    *)
(* who owns it, who works under it, and that it passes from one to another *)
(* only when nobody works under it.  There are no keys, no clocks and no   *)
(* commands here; ClusterLock implements this with them.  Once a command   *)
(* of Redis has failed nothing is promised any more.                       *)
(***************************************************************************)
EXTENDS TLAPS

CONSTANTS
  Executors,
  Nobody

VARIABLES
  owner,   \* whose the lock is, or Nobody
  users,   \* executors that work in the belief that it is theirs
  failed   \* Redis has failed

vars == <<owner, users, failed>>

Init == owner = Nobody /\ users = {} /\ failed = FALSE

\* try_acquire() succeeds, again perhaps.
Grant(e) ==
  /\ owner \in {Nobody, e}
  /\ owner' = e /\ users' = users \cup {e}
  /\ UNCHANGED failed

\* The owner is about to release the lock, or its process has died.
Leave(e) ==
  /\ e \in users
  /\ users' = users \ {e}
  /\ UNCHANGED <<owner, failed>>

\* It is released, or its time is over; never under somebody's hands.
Free ==
  /\ owner # Nobody /\ owner \notin users
  /\ owner' = Nobody
  /\ UNCHANGED <<users, failed>>

Fail == failed' = TRUE

Next == Fail \/ Free \/ \E e \in Executors : Grant(e) \/ Leave(e)

Spec == Init /\ [][Next]_vars

\* Whoever works under the lock owns it: nobody else does.
OneUser == ~failed => users \subseteq {owner} \ {Nobody}

\* The promise is mutual exclusion.
THEOREM UsersExclude == ASSUME Nobody \notin Executors PROVE Spec => []OneUser
<1>1. Init => OneUser
  BY DEF Init, OneUser
<1>2. OneUser /\ [Next]_vars => OneUser'
  BY DEF OneUser, Next, vars, Fail, Free, Grant, Leave
<1>3. QED
  BY <1>1, <1>2, PTL DEF Spec
=============================================================================
