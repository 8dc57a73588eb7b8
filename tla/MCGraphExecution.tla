-------------------------- MODULE MCGraphExecution --------------------------
(* Instances of GraphExecution for TLC. *)
EXTENDS GraphExecution, TLC

CONSTANTS a, b,     \* executions
          p1, p2    \* pods

\* Independent executions, and a child b of a.
OwnRoots == [e \in Execs |-> e]
ChildOfA == [e \in Execs |-> a]

\* Each kind of trouble named strikes once.
Once(kinds) == [f \in Faults |-> IF f \in kinds THEN 1 ELSE 0]
Crashes == Once({"crash"})
Stops == Once({"stop"})
Reviews == Once({"review"})
AllTroubles == Once(Faults)

Struck == {f \in Faults : spent[f] > 0}
Seen(e, p) ==
  \/ ~Handling(p, "idle") /\ handler[p].exec = e
  \/ \E s \in Slots : ~RunAt(s, "free") /\ run[s].pod = p /\ run[s].exec = e

\* Requests are alike: they are used in order.
InOrder == \A c \in Calls : CallAt(c, "unused") => \A d \in Calls : d > c => CallAt(d, "unused")

\* Two kinds of trouble in one behaviour, any two; or a parent and its child, each
\* with a pod of its own, of which one is stopped.
TwoKindsOrFamily ==
  /\ InOrder
  /\ \/ status[b] = Absent /\ Cardinality(Struck) <= 2
     \/ Struck \subseteq {"stop"} /\ ~Seen(a, p2) /\ ~Seen(b, p1)

\* Two executions that nothing troubles; or one on a single pod, with a review
\* that two requests decide.
TurnsOrReviews ==
  /\ InOrder
  /\ \/ Struck = {} /\ CallAt(3, "unused")
     \/ status[b] = Absent /\ ~Seen(a, p2)
=============================================================================
