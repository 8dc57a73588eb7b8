--------------------------- MODULE GraphExecution ---------------------------
(***************************************************************************)
(* The life of graph executions: the API servers of ExecutionApi and the   *)
(* executor pods of ExecutionManager over the shared state.                *)
(***************************************************************************)
EXTENDS ExecutionApi, ExecutionManager

VARIABLES
  unlocked,   \* history: executions whose lock went while a pod relied on it
  hasty       \* history: executions queued or resumed with a review waiting

state == <<shared, apiVars, mgrVars>>
vars == <<state, unlocked, hasty>>

TypeOK ==
  /\ SharedTypeOK /\ ApiTypeOK /\ ManagerTypeOK
  /\ unlocked \in SUBSET Execs /\ hasty \in SUBSET Execs

Init ==
  /\ SharedInit /\ ApiInit /\ ManagerInit
  /\ unlocked = {} /\ hasty = {}

\* A root is created by the API; a child by the agent block of its parent, at work.
MayCreate(e) ==
  \/ ParentOf[e] = e
  \/ \E s \in Slots : run[s].exec = ParentOf[e] /\ RunAt(s, "engine")

\* The agent block waits for its child to end.  Interrupted, it fails the child
\* it is still queueing, and stops the one it has queued.
Unfinished(e) == {x \in Children(e) : status[x] \notin Terminal}
Interrupt(kids) ==
  /\ stop' = [x \in Execs |-> IF x \in kids /\ StopIdle(x)
                              THEN [stop[x] EXCEPT !.at = "enter"] ELSE stop[x]]
  /\ call' = [c \in Calls |-> IF call[c].exec \in kids /\ call[c].picks = {}
                                /\ call[c].at \in {"update", "check", "publish"}
                              THEN [call[c] EXCEPT !.at = "fail"] ELSE call[c]]

\* The dispatch loop ends when every block has ended, or interrupts them.
EndEngine(s) ==
  LET kids == Unfinished(run[s].exec) IN
  /\ EngineEnds(s) \/ EngineRaises(s)
  /\ run'[s].result \in {"COMPLETED", "REVIEW"} => kids = {}
  /\ Interrupt(kids)

ApiNext ==
  /\ \/ \E c \in Calls, e \in Execs :
          \/ MayCreate(e) /\ CreateExecution(c, e)
          \/ BeginReview(c, e)
     \/ \E c \in Calls : CallStep(c) \/ PublishUnconfirmed(c) \/ QueueingFails(c)
                         \/ ApiCrash(c)
     \/ \E e \in Execs : BeginStop(e) \/ StopStep(e) \/ StopTimeout(e)
  /\ UNCHANGED mgrVars

ManagerNext ==
  /\ \/ \E p \in Pods, e \in Execs : Deliver(p, e) \/ HandleCancel(p, e)
     \/ \E p \in Pods : \/ HandlerStep(p) \/ RateUnknown(p) \/ LockUnavailable(p)
                        \/ BeginShutdown(p) \/ FinishShutdown(p) \/ Disconnect(p) \/ Crash(p)
     \/ \E s \in Slots : RunStep(s) \/ OpenReview(s) \/ PollLock(s) \/ Settle(s)
     \/ \E e \in Execs : LeaseExpires(e)
  /\ UNCHANGED apiVars

\* A key is deleted, or expires, that a handler or a run of its pod counts on.
Unlocks(e) ==
  /\ key[e] # NoPod /\ key'[e] = NoPod
  /\ \/ \E p \in Pods : /\ p = key[e] /\ handler'[p].exec = e
                        /\ handler'[p].at = "submit"
     \/ \E s \in Slots : /\ run'[s].pod = key[e] /\ run'[s].exec = e
                         /\ run'[s].at \in {"submitted", "start", "resume", "engine", "write"}

\* A paused execution goes on before all its reviews are decided.
Hurries(e) ==
  status[e] \notin Live /\ status'[e] \in Live /\ review[e].waiting # {}

Next ==
  /\ ApiNext \/ ManagerNext \/ \E s \in Slots : EndEngine(s)
  /\ unlocked' = unlocked \cup {e \in Execs : Unlocks(e)}
  /\ hasty' = hasty \cup {e \in Execs : Hurries(e)}

Spec == Init /\ [][Next]_vars

\* Requests, threads and callbacks go on as long as their process lives; blocks
\* end; stale locks expire; and the broker, which serves its consumers in turn,
\* does not pass over a pod that can take a message.
Fairness ==
  /\ \A c \in Calls : WF_state(CallStep(c) /\ UNCHANGED mgrVars)
  /\ \A e \in Execs :
       /\ WF_state(StopStep(e) /\ UNCHANGED mgrVars)
       /\ WF_state(LeaseExpires(e) /\ ~LockInUse(e) /\ UNCHANGED apiVars)
       /\ \A p \in Pods : SF_state(Deliver(p, e) /\ UNCHANGED apiVars)
  /\ \A p \in Pods : WF_state(HandlerStep(p) /\ UNCHANGED apiVars)
  /\ \A s \in Slots :
       /\ WF_state(RunStep(s) /\ UNCHANGED apiVars)
       /\ WF_state(EndEngine(s))
       /\ WF_state(Settle(s) /\ UNCHANGED apiVars)

FairSpec == Spec /\ Fairness

-----------------------------------------------------------------------------
(* Properties *)

\* Never do two threads work on one execution, unless its lock went while a pod
\* relied on it: what the lock in Redis, the table of active runs and the single
\* message per execution are for.
OneEngine ==
  \A s, t \in Slots :
    Working(s) /\ Working(t) /\ run[s].exec = run[t].exec => s = t \/ run[s].exec \in unlocked

\* A run whose message will come back, or that will still start.
Carries(r) ==
  \/ r.verdict = "requeue"
  \/ /\ r.verdict = "open"
     /\ r.at \in {"submitted", "start", "gone"} \/ (r.raised /\ r.at \in {"write", "done"})
Works(r) == r.verdict = "open" /\ r.at \in {"resume", "engine", "write"}

Publishing(e) ==
  \E c \in Calls : call[c].exec = e /\ call[c].at \in {"check", "publish", "fail"}
Delivered(e) ==
  \/ ready[e] > 0
  \/ \E p \in Pods : handler[p].exec = e /\ handler[p].at \notin {"idle", "settle"}
  \/ \E s \in Slots : run[s].exec = e /\ Carries(run[s])
Executing(e) == \E s \in Slots : run[s].exec = e /\ Works(run[s])

\* An execution marked QUEUED is being published, or has a message that will
\* start it; one marked RUNNING has a thread at work, or a message that will.
Attended(e) ==
  CASE status[e] = "QUEUED"  -> Publishing(e) \/ Delivered(e)
    [] status[e] = "RUNNING" -> Executing(e) \/ Delivered(e)
    [] OTHER                 -> TRUE

NothingForgotten == \A e \in Execs : Attended(e)

\* The only executions that are forgotten are those whose message a pod dropped
\* as a duplicate, whose API server died, or whose pod outlived its grace period.
OnlyDropsForget == \A e \in Execs : Attended(e) \/ e \in lost

\* A paused execution waits for a review, or somebody is about to move it on,
\* unless the API server that was to do it died, the execution has lost its lock
\* under a run, or it was once sent on with a review still waiting.
PausedHasReason ==
  \A e \in Execs : status[e] = "REVIEW" =>
    \/ review[e].waiting # {}
    \/ \E c \in Calls : call[c].exec = e /\ call[c].at \in {"pending", "update", "fail"}
    \/ StopAt(e, "terminate")
    \/ e \in lost \cup unlocked \cup hasty

\* "ensure only one request publishes": add_graph_execution sets QUEUED before it
\* publishes, "to prevent race condition where two concurrent requests could both
\* publish the same execution".  Not satisfied: the update of the second request is
\* refused, but it then reads the row, finds it QUEUED and goes on.
SinglePublisher ==
  \A c, d \in Calls :
    CallAt(c, "publish") /\ CallAt(d, "publish") /\ call[c].exec = call[d].exec => c = d

\* A completed execution is not executed again, however often its message is
\* delivered, as long as its lock has stayed with its runs: no late start, result
\* or request changes its status any more.
CompletedIsFinal ==
  [][\A e \in Execs \ unlocked : status[e] = "COMPLETED" => status'[e] = "COMPLETED"]_vars

\* No executor starts an execution that has been terminated.  The code does not
\* satisfy this: RUNNING is set whatever a stop request has made of the status that
\* was read.
StopIsFinal ==
  [][\A e \in Execs : status[e] = "TERMINATED" => status'[e] # "RUNNING"]_vars

\* stop_graph_execution: "Graph executor's cancel handler thread detects the event,
\* terminates workers": a cancel message that is consumed while a run of its
\* execution is in the dispatch loop cancels that run.  The code does not satisfy
\* this with two pods: the exchange is a fanout, but all pods consume one queue.
CancelReachesRun ==
  [][\A e \in Execs, s \in Slots :
       cancels'[e] < cancels[e] /\ run[s].exec = e /\ RunAt(s, "engine")
       => run'[s].cancel]_vars

\* A queued execution is executed until it ends or pauses.
QueuedEnds ==
  \A e \in Execs : status[e] = "QUEUED" ~> status[e] \in Terminal \cup {"REVIEW"}

=============================================================================
