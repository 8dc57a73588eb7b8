--------------------------- MODULE CopilotExecutor ---------------------------
(***************************************************************************)
(* copilot/executor/manager.py and processor.py: the pods that execute the *)
(* turns.  A pod's consumer thread takes a message, checks its own table   *)
(* of active tasks and the lock of the session, and hands the turn to a    *)
(* worker thread; the worker watches the coroutine that talks to the model *)
(* and, when it is cancelled, leaves without waiting for it.  The table,   *)
(* the lock and the cancel messages name the session and not the turn.     *)
(*                                                                         *)
(* mark[s] is the coroutine of run s in its finally clause; before it, the *)
(* coroutine streams the answer.                                           *)
(***************************************************************************)
EXTENDS CopilotStreams

CONSTANTS
  Pods,       \* executor ids: a pod that restarts is a new one
  NoPod,      \* no owner of the lock
  NoSlot,
  PoolSize    \* num_copilot_workers

ASSUME ExecutorConstants ==
  /\ NoPod \notin Pods
  /\ Pods # {} /\ Turns # {}
  /\ NoSlot \notin Slots
  /\ PoolSize \in Nat \ {0}

VARIABLES
  mode,       \* [Pods -> up, stopping, closing or down]
  handler,    \* [Pods -> the message in the hands of the consumer thread]
  run,        \* [Slots -> an execution of a turn: its worker thread]
  active,     \* [Pods -> slot]: the session's entry in active_tasks
  held,       \* [Pods -> slot]: its entry in _task_locks, by the run it is of
  key,        \* the owner of the session's lock in Redis
  keyLost     \* history: the key vanished under a run

execVars == <<mode, handler, run, active, held, key, keyLost>>

HandlerStages == {"idle", "owner", "submit"}
RunStages == {"free", "wait", "release", "forget", "gone"}

AnyTurn == CHOOSE t \in Turns : TRUE
AnyPod == CHOOSE p \in Pods : TRUE
IdleHandler == [at |-> "idle", turn |-> AnyTurn, stamped |-> FALSE]
FreeRun == [at |-> "free", pod |-> AnyPod, turn |-> AnyTurn, cancel |-> FALSE,
            stamped |-> FALSE, message |-> "gone"]

HandlerRecord == [at : HandlerStages, turn : Turns, stamped : BOOLEAN]
RunRecord == [at : RunStages, pod : Pods, turn : Turns, cancel : BOOLEAN,
              stamped : BOOLEAN,
              message : {"open", "gone"}]

ExecutorTypeOK ==
  /\ mode \in [Pods -> {"up", "stopping", "closing", "down"}]
  /\ handler \in [Pods -> HandlerRecord]
  /\ run \in [Slots -> RunRecord]
  /\ active \in [Pods -> Slots \cup {NoSlot}]
  /\ held \in [Pods -> Slots \cup {NoSlot}]
  /\ key \in Pods \cup {NoPod}
  /\ keyLost \in BOOLEAN

ExecutorInit ==
  /\ mode = [p \in Pods |-> "up"]
  /\ handler = [p \in Pods |-> IdleHandler]
  /\ run = [s \in Slots |-> FreeRun]
  /\ active = [p \in Pods |-> NoSlot]
  /\ held = [p \in Pods |-> NoSlot]
  /\ key = NoPod
  /\ keyLost = FALSE

-----------------------------------------------------------------------------
(* helpers *)

Handling(p, at) == handler[p].at = at
MoveHandler(p, at) == handler' = [handler EXCEPT ![p].at = at]
RunAt(s, at) == run[s].at = at
MoveRun(s, at) == run' = [run EXCEPT ![s].at = at]

\* A worker thread has the turn.
Supervised(s) == RunAt(s, "wait")

\* future.done()
Done(s) == run[s].at \in {"release", "forget", "gone"}
StillActive(p) == IF active[p] # NoSlot /\ Done(active[p]) THEN NoSlot ELSE active[p]

\* The coroutine of a run, which outlives its thread when it is cancelled.
Streams(s) == ~RunAt(s, "free") /\ MarkAt(s, "none")
CoroutineOver(s) == MarkAt(s, "over")

\* The run will still end its turn.
Serves(s, t) ==
  /\ run[s].turn = t
  /\ Streams(s) \/ MarkAt(s, "swap")

\* The message of a turn is rejected for good; unless a run of that very turn
\* is at work, the turn is lost.
GiveUp(t) ==
  lost' = IF \E s \in Slots : Serves(s, t) THEN lost ELSE lost \cup {t}

(* _handle_run_message *)

\* A message arrives and neither shutdown, pool nor table stop it (otherwise it
\* goes back to the queue, where it was).  Then try_acquire: SET NX takes a free
\* key; if there is an owner it has to be read.
Deliver(p, t) ==
  /\ mode[p] = "up" /\ Handling(p, "idle") /\ ready[t] > 0
  /\ StillActive(p) = NoSlot
  /\ ready' = [ready EXCEPT ![t] = @ - 1]
  /\ active' = [active EXCEPT ![p] = NoSlot]
  /\ key' = IF key = NoPod THEN p ELSE key
  /\ handler' = [handler EXCEPT ![p] =
       [at |-> IF key = NoPod THEN "submit" ELSE "owner", turn |-> t,
        stamped |-> key = NoPod]]
  /\ UNCHANGED <<meta, ended, mark, reader, cancels, lost, spent, mode, run, held, keyLost>>

\* The session is in the table of active tasks: the message is rejected without
\* requeueing, whatever turn it is of.  A full pool is checked before.
DropLocal(p, t) ==
  /\ mode[p] = "up" /\ Handling(p, "idle") /\ ready[t] > 0
  /\ StillActive(p) # NoSlot /\ PoolSize > 1
  /\ ready' = [ready EXCEPT ![t] = @ - 1]
  /\ GiveUp(t)
  /\ UNCHANGED <<meta, ended, mark, reader, cancels, spent, execVars>>

\* Mutant: the lock of another pod does not matter.
ReadOwnerAny(p) ==
  /\ Handling(p, "owner")
  /\ MoveHandler(p, "submit")
  /\ UNCHANGED <<sharedVars, mode, run, active, held, key, keyLost>>

\* The owner is read by a GET: the pod's own id passes for success.
ReadOwner(p) ==
  /\ Handling(p, "owner") /\ key = p
  /\ MoveHandler(p, "submit")
  /\ UNCHANGED <<sharedVars, mode, run, active, held, key, keyLost>>

SendBack(p) ==
  /\ handler' = [handler EXCEPT ![p] = IdleHandler]
  /\ ready' = [ready EXCEPT ![handler[p].turn] = @ + 1]

\* Mutant: the message does not go back.
OwnerGoneDropped(p) ==
  /\ Handling(p, "owner") /\ key = NoPod
  /\ handler' = [handler EXCEPT ![p] = IdleHandler]
  /\ UNCHANGED <<sharedVars, mode, run, active, held, key, keyLost>>

\* The key has gone in between, or Redis does not answer: the message goes back.
OwnerGone(p) ==
  /\ Handling(p, "owner") /\ key = NoPod
  /\ SendBack(p)
  /\ UNCHANGED <<meta, ended, mark, reader, cancels, lost, spent, mode, run, active, held,
                 key, keyLost>>

\* ... even if the answer that gets lost is that of a SET that took the key.
LockUnavailable(p) ==
  /\ Handling(p, "owner") \/ (Handling(p, "submit") /\ handler[p].stamped)
  /\ Spend("redis")
  /\ SendBack(p)
  /\ UNCHANGED <<meta, ended, mark, reader, cancels, lost, mode, run, active, held, key,
                 keyLost>>

\* Another pod owns the lock: the message is rejected without requeueing.
DropLocked(p) ==
  /\ Handling(p, "owner") /\ key \notin {p, NoPod}
  /\ handler' = [handler EXCEPT ![p] = IdleHandler]
  /\ GiveUp(handler[p].turn)
  /\ UNCHANGED <<meta, ended, mark, reader, ready, cancels, spent, mode, run, active, held,
                 key, keyLost>>

\* The turn goes to the thread pool, which has a thread for every active task;
\* the lock and the task are registered under the session.
Submit(p) ==
  /\ Handling(p, "submit")
  /\ \E s \in Slots :
       /\ RunAt(s, "free") /\ \A r \in Slots : r < s => ~RunAt(r, "free")
       /\ run' = [run EXCEPT ![s] =
            [at |-> "wait", pod |-> p, turn |-> handler[p].turn, cancel |-> FALSE,
             stamped |-> handler[p].stamped, message |-> "open"]]
       /\ active' = [active EXCEPT ![p] = s]
       /\ held' = [held EXCEPT ![p] = s]
  /\ handler' = [handler EXCEPT ![p] = IdleHandler]
  /\ UNCHANGED <<sharedVars, mode, key, keyLost>>

HandlerStep(p) == ReadOwner(p) \/ OwnerGone(p) \/ DropLocked(p) \/ Submit(p)

(* _handle_cancel_message *)

\* One durable queue serves all pods, so one of them takes the message; it acts
\* on what the session is doing there by now.
HandleCancel(p) ==
  /\ mode[p] \in {"up", "stopping"} /\ cancels > 0
  /\ cancels' = cancels - 1
  /\ run' = [s \in Slots |-> IF s = active[p] /\ Supervised(s)
                             THEN [run[s] EXCEPT !.cancel = TRUE] ELSE run[s]]
  /\ UNCHANGED <<meta, ended, mark, reader, ready, lost, spent, mode, handler, active, held,
                 key, keyLost>>

(* CoPilotProcessor *)

\* Mutant: a failed turn does not reach the finally clause.
EndStreamUnmarked(s) ==
  /\ Streams(s)
  /\ \/ ~run[s].cancel /\ MarkRead(s, "completed")
     \/ mark' = [mark EXCEPT ![s] = OverMark]
  /\ UNCHANGED <<meta, ended, reader, ready, cancels, lost, spent, execVars>>

\* The answer ends (an error ends it in the same way, and is not told apart), or
\* the coroutine sees the request to cancel after a chunk: the finally clause
\* completes the session.
EndStream(s) ==
  /\ Streams(s)
  /\ MarkRead(s, IF run[s].cancel THEN "failed" ELSE "completed")
  /\ UNCHANGED <<meta, ended, reader, ready, cancels, lost, spent, execVars>>

\* Redis fails in the finally clause, which logs it.
MarkLost(s) ==
  /\ MarkAt(s, "swap")
  /\ Spend("redis")
  /\ mark' = [mark EXCEPT ![s] = OverMark]
  /\ lost' = lost \cup {run[s].turn}
  /\ UNCHANGED <<meta, ended, reader, ready, cancels, execVars>>

\* The worker sees the request to cancel: it cancels the future, which is
\* cancelled at once, and returns.  CancelledError reaches the coroutine in its
\* stream, which has yet to come to the finally clause, or in the finally clause,
\* which it leaves through handlers for Exception.  Then, and when a run returns,
\* on_run_done asks the thread of the connection to acknowledge the message.
Interrupt(s) ==
  /\ RunAt(s, "wait") /\ run[s].cancel /\ ~CoroutineOver(s)
  /\ MoveRun(s, "release")
  /\ mark' = IF Streams(s) THEN mark ELSE [mark EXCEPT ![s] = OverMark]
  /\ lost' = IF MarkAt(s, "swap") THEN lost \cup {run[s].turn} ELSE lost
  /\ UNCHANGED <<meta, ended, reader, ready, cancels, spent, mode, handler, active, held, key,
                 keyLost>>

\* The coroutine has ended, and so does the worker's future.
Finish(s) ==
  /\ RunAt(s, "wait") /\ CoroutineOver(s)
  /\ MoveRun(s, "release")
  /\ UNCHANGED <<sharedVars, mode, handler, active, held, key, keyLost>>

(* on_run_done *)

\* Another thread of the pod has found the key to be its own.
Relied(s) ==
  \/ Handling(run[s].pod, "submit")
  \/ \E r \in Slots \ {s} : Supervised(r) /\ run[r].pod = run[s].pod

\* The lock's object knows whether it holds the key: since it took it, or since a
\* refresh of its worker found the key to be the pod's.
Stamps(h) == {run[h].stamped, key = run[h].pod}

\* The lock registered under the session is released, which may be that of a
\* later turn: a DELETE, unless its timestamp is not set.
Release(s) ==
  LET h == held[run[s].pod] IN
  /\ RunAt(s, "release")
  /\ \/ /\ h # NoSlot /\ TRUE \in Stamps(h)
        /\ key' = NoPod
        /\ keyLost' = (keyLost \/ Relied(s))
        /\ run' = [run EXCEPT ![h].stamped = FALSE, ![s].at = "forget"]
     \/ /\ h # NoSlot => FALSE \in Stamps(h)
        /\ MoveRun(s, "forget") /\ UNCHANGED <<key, keyLost>>
  /\ UNCHANGED <<sharedVars, mode, handler, active, held>>

\* ... and forgotten, whichever is registered by now.
Forget(s) ==
  LET p == run[s].pod IN
  /\ RunAt(s, "forget")
  /\ held' = [held EXCEPT ![p] = NoSlot]
  /\ active' = [active EXCEPT ![p] = StillActive(p)]
  /\ MoveRun(s, "gone")
  /\ UNCHANGED <<sharedVars, mode, handler, key, keyLost>>

\* Nothing of the run is left.
Clear(s) ==
  /\ RunAt(s, "gone") /\ CoroutineOver(s)
  /\ run' = [run EXCEPT ![s] = FreeRun]
  /\ mark' = [mark EXCEPT ![s] = NoMark]
  /\ UNCHANGED <<meta, ended, reader, ready, cancels, lost, spent, mode, handler, active,
                 held, key, keyLost>>

RunStep(s) ==
  EndStream(s) \/ Interrupt(s) \/ Finish(s)
  \/ Release(s) \/ Forget(s) \/ Clear(s)

(* shutdown, crash and connection *)

\* The messages of a pod that are not acknowledged return to the queue.  Of a run
\* that is done, the acknowledgement may have left or not.
RunsOf(p) == {s \in Slots : ~RunAt(s, "free") /\ run[s].pod = p}
OpenRuns(p) == {s \in RunsOf(p) : run[s].message = "open"}
Unacknowledged(p) == {open \in SUBSET OpenRuns(p) : \A s \in OpenRuns(p) : ~Done(s) => s \in open}
Return(p, open) ==
  ready' = [t \in Turns |-> ready[t] + Cardinality({s \in open : run[s].turn = t})
                            + IF ~Handling(p, "idle") /\ handler[p].turn = t THEN 1 ELSE 0]

\* The connection is lost: the acknowledgements of its messages are skipped.
Disconnect(p) ==
  /\ mode[p] \in {"up", "stopping"} /\ Handling(p, "idle")
  /\ Spend("net")
  /\ \E open \in Unacknowledged(p) : Return(p, open)
  /\ run' = [s \in Slots |-> IF s \in RunsOf(p) THEN [run[s] EXCEPT !.message = "gone"]
                                                ELSE run[s]]
  /\ UNCHANGED <<meta, ended, mark, reader, cancels, lost, mode, handler, active, held, key,
                 keyLost>>

BeginShutdown(p) ==
  /\ mode[p] = "up"
  /\ Spend("drain")
  /\ mode' = [mode EXCEPT ![p] = "stopping"]
  /\ UNCHANGED <<meta, ended, mark, reader, ready, cancels, lost, handler, run, active, held,
                 key, keyLost>>

\* The grace period ends: the consumers are stopped and disconnected.
GraceExpires(p) ==
  /\ mode[p] = "stopping" /\ Handling(p, "idle")
  /\ mode' = [mode EXCEPT ![p] = "closing"]
  /\ \E open \in Unacknowledged(p) : Return(p, open)
  /\ run' = [s \in Slots |-> IF s \in RunsOf(p) THEN [run[s] EXCEPT !.message = "gone"]
                                                ELSE run[s]]
  /\ UNCHANGED <<meta, ended, mark, reader, cancels, lost, spent, handler, active, held, key,
                 keyLost>>

\* The process ends, with its threads and coroutines.
Die(p) ==
  /\ mode' = [mode EXCEPT ![p] = "down"]
  /\ handler' = [handler EXCEPT ![p] = IdleHandler]
  /\ \E open \in Unacknowledged(p) :
       /\ Return(p, open)
       /\ lost' = lost \cup {t \in Turns : \E s \in RunsOf(p) \ open : Serves(s, t)}
  /\ run' = [s \in Slots |-> IF s \in RunsOf(p) THEN FreeRun ELSE run[s]]
  /\ mark' = [w \in Completers |-> IF w \in RunsOf(p) THEN NoMark ELSE mark[w]]
  /\ active' = [active EXCEPT ![p] = NoSlot]
  /\ held' = [held EXCEPT ![p] = NoSlot]

\* The locks that are still registered are released at the end.
Exit(p) ==
  LET h == held[p] IN
  /\ \/ mode[p] = "closing"
     \/ mode[p] = "stopping" /\ Handling(p, "idle") /\ StillActive(p) = NoSlot
  /\ Die(p)
  /\ \/ h # NoSlot /\ TRUE \in Stamps(h) /\ key' = NoPod
     \/ (h # NoSlot => FALSE \in Stamps(h)) /\ UNCHANGED key
  /\ UNCHANGED <<meta, ended, reader, cancels, spent, keyLost>>

Crash(p) ==
  /\ mode[p] # "down"
  /\ Spend("crash")
  /\ Die(p)
  /\ UNCHANGED <<meta, ended, reader, cancels, key, keyLost>>

(* the lock in Redis *)

\* Some thread of the pod refreshes the key or is about to release it.
KeyInUse(p) ==
  /\ mode[p] # "down"
  /\ \/ Handling(p, "submit")
     \/ \E s \in RunsOf(p) : run[s].at \in {"wait", "release"}

KeyExpires ==
  /\ key # NoPod /\ ~KeyInUse(key)
  /\ key' = NoPod
  /\ UNCHANGED <<sharedVars, mode, handler, run, active, held, keyLost>>

KeyLapses ==
  /\ key # NoPod /\ KeyInUse(key)
  /\ Spend("lapse")
  /\ key' = NoPod /\ keyLost' = TRUE
  /\ UNCHANGED <<meta, ended, mark, reader, ready, cancels, lost, mode, handler, run, active,
                 held>>

=============================================================================
