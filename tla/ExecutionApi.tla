---------------------------- MODULE ExecutionApi ----------------------------
(***************************************************************************)
(* executor/utils.py and the review route: the client side of a graph      *)
(* execution.  add_graph_execution creates or resumes one, marks it QUEUED *)
(* and publishes it; stop_graph_execution cancels it with its children;    *)
(* process_review_action decides the pending reviews and resumes.  Every   *)
(* await on the database or the broker ends a step.                        *)
(***************************************************************************)
EXTENDS ExecutionState

CONSTANTS Calls   \* requests that may be under way, or have been, at all

VARIABLES
  call,   \* [Calls -> where a request is, its execution, the reviews it decides]
  stop    \* [Execs -> where its stop request is, and the children it awaits]

apiVars == <<call, stop>>

CallStages == {"unused", "decide", "pending", "update", "check", "publish",
               "fail", "done"}
StopStages == {"none", "enter", "children", "cancel", "poll", "cancel_reviews",
               "terminate", "stopped", "gave_up"}

NoCall == [at |-> "unused", exec |-> CHOOSE e \in Execs : TRUE, picks |-> {}]
NoStop == [at |-> "none", kids |-> {}]

CallRecord == [at : CallStages, exec : Execs, picks : SUBSET Nat]
StopRecord == [at : StopStages, kids : SUBSET Execs]

ApiTypeOK ==
  /\ call \in [Calls -> CallRecord]
  /\ stop \in [Execs -> StopRecord]

ApiInit ==
  /\ call = [c \in Calls |-> NoCall]
  /\ stop = [e \in Execs |-> NoStop]

CallAt(c, at) == call[c].at = at
MoveCall(c, at) == call' = [call EXCEPT ![c].at = at]
BeginCall(c, e, at, picks) ==
  /\ CallAt(c, "unused")
  /\ call' = [call EXCEPT ![c] = [at |-> at, exec |-> e, picks |-> picks]]

-----------------------------------------------------------------------------
(* add_graph_execution *)

\* create_graph_execution: a new row, INCOMPLETE.
CreateExecution(c, e) ==
  /\ status[e] = Absent
  /\ BeginCall(c, e, "update", {})
  /\ status' = [status EXCEPT ![e] = "INCOMPLETE"]
  /\ UNCHANGED <<review, ready, cancels, lost, spent, stop>>

\* The row is set QUEUED if its status allows that.
QueueStatus(c) ==
  /\ CallAt(c, "update")
  /\ UpdateStatus(call[c].exec, "QUEUED")
  /\ MoveCall(c, "check")
  /\ UNCHANGED <<review, ready, cancels, lost, spent, stop>>

\* A second query reads the row back: whoever finds it QUEUED publishes.
CheckQueued(c) ==
  /\ CallAt(c, "check")
  /\ MoveCall(c, IF status[call[c].exec] = "QUEUED" THEN "publish" ELSE "done")
  /\ UNCHANGED <<shared, stop>>

Publish(c) ==
  /\ CallAt(c, "publish")
  /\ Enqueue(call[c].exec)
  /\ MoveCall(c, "done")
  /\ UNCHANGED <<status, review, cancels, lost, spent, stop>>

\* The broker does not confirm; the message may be in the queue or not.  The
\* publisher tries again, or its retries are used up and it reports an error.
PublishUnconfirmed(c) ==
  /\ CallAt(c, "publish")
  /\ Spend("publish")
  /\ Enqueue(call[c].exec) \/ UNCHANGED ready
  /\ MoveCall(c, "publish") \/ MoveCall(c, "fail")
  /\ UNCHANGED <<status, review, cancels, lost, stop>>

\* Any other error after the row exists ends in the same exception handler.
QueueingFails(c) ==
  /\ call[c].at \in {"update", "check"}
  /\ Spend("db")
  /\ MoveCall(c, "fail")
  /\ UNCHANGED <<status, review, ready, cancels, lost, stop>>

\* The exception handler marks the execution FAILED.
FailStatus(c) ==
  /\ CallAt(c, "fail")
  /\ UpdateStatus(call[c].exec, "FAILED")
  /\ MoveCall(c, "done")
  /\ UNCHANGED <<review, ready, cancels, lost, spent, stop>>

\* The API server dies: the request is gone, and what it still had to resume or
\* to publish is not.
ApiCrash(c) ==
  /\ call[c].at \in {"decide", "pending", "update", "check", "publish", "fail"}
  /\ Spend("api")
  /\ MoveCall(c, "done")
  /\ lost' = IF call[c].at \in {"pending", "update", "check", "publish", "fail"}
             THEN lost \cup {call[c].exec} ELSE lost
  /\ UNCHANGED <<status, review, ready, cancels, stop>>

-----------------------------------------------------------------------------
(* process_review_action *)

\* Reviews may only be decided while the execution is paused (or not queued).
BeginReview(c, e) ==
  /\ status[e] \in {"REVIEW", "INCOMPLETE"}
  /\ \E picks \in SUBSET (1..review[e].opened) \ {{}} : BeginCall(c, e, "decide", picks)
  /\ UNCHANGED <<shared, stop>>

\* process_all_reviews_for_execution: reviews somebody else decided meanwhile
\* are accepted when the decision is the same, and end the request when not.
DecideReviews(c) ==
  LET e == call[c].exec
      waiting == review[e].waiting
  IN /\ CallAt(c, "decide")
     /\ \/ /\ review' = [review EXCEPT ![e].waiting = @ \ call[c].picks]
           /\ MoveCall(c, "pending")
        \/ /\ ~(call[c].picks \subseteq waiting)
           /\ MoveCall(c, "done")
           /\ UNCHANGED review
     /\ UNCHANGED <<status, ready, cancels, lost, spent, stop>>

\* Resume when nothing is pending any more.
ResumeAfterReview(c) ==
  /\ CallAt(c, "pending")
  /\ MoveCall(c, IF review[call[c].exec].waiting = {} THEN "update" ELSE "done")
  /\ UNCHANGED <<shared, stop>>

-----------------------------------------------------------------------------
(* stop_graph_execution *)

Children(e) == {x \in Execs : ParentOf[x] = e /\ x # e /\ status[x] # Absent}
StopAt(e, at) == stop[e].at = at
MoveStop(e, at) == stop' = [stop EXCEPT ![e].at = at]
StopIdle(e) == stop[e].at \in {"none", "stopped", "gave_up"}

\* The user's request.
BeginStop(e) ==
  /\ status[e] # Absent
  /\ StopIdle(e)
  /\ Spend("stop")
  /\ MoveStop(e, "enter")
  /\ UNCHANGED <<status, review, ready, cancels, lost, call>>

\* The children found now are stopped first, in parallel and recursively.
StopChildren(e) ==
  /\ StopAt(e, "enter")
  /\ stop' = [x \in Execs |->
       IF x = e THEN [at |-> "children", kids |-> Children(e)]
       ELSE IF x \in Children(e) /\ StopIdle(x) THEN [stop[x] EXCEPT !.at = "enter"]
       ELSE stop[x]]
  /\ UNCHANGED <<shared, call>>

\* asyncio.gather over the children, whose errors are ignored.
AwaitChildren(e) ==
  /\ StopAt(e, "children")
  /\ \A x \in stop[e].kids : StopIdle(x)
  /\ MoveStop(e, "cancel")
  /\ UNCHANGED <<shared, call>>

PublishCancel(e) ==
  /\ StopAt(e, "cancel")
  /\ cancels' = [cancels EXCEPT ![e] = @ + 1]
  /\ MoveStop(e, "poll")
  /\ UNCHANGED <<status, review, ready, lost, spent, call>>

\* One round of the polling loop.  An execution that no executor works on, by
\* its status, is terminated here; a RUNNING one is polled again.
PollStatus(e) ==
  /\ StopAt(e, "poll")
  /\ status[e] # "RUNNING"
  /\ MoveStop(e, CASE status[e] \in Terminal -> "stopped"
                   [] status[e] = "REVIEW" -> "cancel_reviews"
                   [] OTHER -> "terminate")
  /\ UNCHANGED <<shared, call>>

CancelReviews(e) ==
  /\ StopAt(e, "cancel_reviews")
  /\ review' = [review EXCEPT ![e].waiting = {}]
  /\ MoveStop(e, "terminate")
  /\ UNCHANGED <<status, ready, cancels, lost, spent, call>>

TerminateStatus(e) ==
  /\ StopAt(e, "terminate")
  /\ UpdateStatus(e, "TERMINATED")
  /\ MoveStop(e, "stopped")
  /\ UNCHANGED <<review, ready, cancels, lost, spent, call>>

\* wait_timeout is over.
StopTimeout(e) ==
  /\ StopAt(e, "poll")
  /\ status[e] = "RUNNING"
  /\ MoveStop(e, "gave_up")
  /\ UNCHANGED <<shared, call>>

CallStep(c) == QueueStatus(c) \/ CheckQueued(c) \/ Publish(c) \/ FailStatus(c)
               \/ DecideReviews(c) \/ ResumeAfterReview(c)
StopStep(e) == StopChildren(e) \/ AwaitChildren(e) \/ PublishCancel(e) \/ PollStatus(e)
               \/ CancelReviews(e) \/ TerminateStatus(e)

=============================================================================
