# A verification of the AutoGPT platform's backend

This directory holds TLA+ models of the backend in
`src/autogpt_platform/backend/backend/`, the TLC configurations that check them on
small instances, and proofs for the TLA+ proof system of what matters most. Source
files are named relative to that directory.

## 1. The system

The platform runs *agents*: graphs whose nodes are blocks and whose links carry
values. Running them costs credits and needs the user's credentials; and the user talks
to a *copilot*, whose turns pods of their own execute. A request for a run becomes a row
in PostgreSQL and a message in RabbitMQ; an executor pod takes the message, holds a lock
in Redis, runs the graph's nodes in two event loops, and acknowledges the message when the
run is over. A run may start other runs, pause for a human review, be stopped, or be
resumed.

### Components

| component | source | state it keeps | operations |
|---|---|---|---|
| execution statuses | `data/execution.py` | rows of graph and node executions, with a status | conditional updates filtered by `VALID_STATUS_TRANSITIONS`; one unconditional update (start time) |
| queueing and stopping | `executor/utils.py`, `blocks/agent.py` | none of its own; each request is at some await | `add_graph_execution`, `stop_graph_execution` and its cascade to children |
| human review | `api/features/executions/review/routes.py`, `data/human_review.py`, `blocks/helpers/review.py` | pending and decided reviews | open, decide several at once, cancel, resume the execution |
| run and cancel queues | `data/rabbitmq.py` | messages, ready or delivered and not settled | publish with confirmation, deliver, ack, nack, requeue |
| executor pods | `executor/manager.py` | `active_graph_runs`, `_execution_locks`, a thread pool | consume, check root, rate, lock, submit; run; completion callback; cancel; shutdown |
| cluster lock | `executor/cluster_lock.py` | one Redis key with a time to live, `_last_refresh` | `try_acquire`, `refresh`, `release` |
| node engine | `executor/manager.py`, `executor/utils.py`, `data/execution.py` | queue of node executions, `NodeExecutionProgress` per node, one evaluation per node | dispatch, poll, run a node, evaluate an output, clean up |
| credit ledger | `data/credit.py` | the tables `UserBalance` and `CreditTransaction` | spend, reward, top up by checkout or card, fulfil, deduct a refund |
| credentials manager and keyed mutexes | `integrations/creds_manager.py`, `autogpt_libs/utils/synchronize.py` | three Redis locks per credential, the tokens in the database | acquire for a block, get, refresh, delete |
| copilot executor and stream registry | `copilot/executor/`, `copilot/stream_registry.py`, `api/features/chat/routes.py` | a hash per session, a stream per turn, `active_tasks`, `_task_locks`, two queues, one lock per session | post a turn, execute, complete, cancel, read the answer |
| copilot sessions and rate limits | `copilot/model.py`, `copilot/rate_limit.py` | a two-level cache, token counters per window | see `PROJECT.json` |
| caches, notifications, scheduler, OAuth, websockets, RPC, data access, blocks, frontend, classic agent | see `PROJECT.json` | | |

### How they interact

- **Calls.** API servers call `add_graph_execution` and `stop_graph_execution`; so does
  the agent block inside a run. Each await of these calls is a point where other
  requests and pods go on.
- **Messages.** The run queue carries an execution's id to one pod, the cancel queue
  carries stop requests. Both are durable; a message that is not settled comes back when
  the connection of its pod goes.
- **Shared state.** All pods and servers read and write the execution rows without
  transactions around several statements. The transition table in the `WHERE` of the
  updates is the only thing between a late write and a final status.
- **Locks.** `exec_lock:<id>` keeps an execution on one pod; `upsert_input-<node>-<id>`
  keeps the evaluations of one sink apart; three locks per credential keep deletions, and
  the renewals that ask for them, away from a block at work (the copilot asks with
  `lock=False`, and renews without); `copilot:session` locks keep a session on one pod.
- **Callbacks.** `_on_run_done` runs on the thread of the ended run, and hands the
  settling of the message to the thread of the connection.

### What is hard here

Interleavings between two awaits of one request; a stop request that overtakes a start;
redelivery after a crash, an unconfirmed publication or a shutdown; a lease that outlives
its holder, or the reverse; the order in which status, lock and message are let go at the
end of a run; values that several nodes send to one sink while others are being
dispatched. `PROJECT.json` lists the hazards, each at its line, with the properties about
it or the reason why there is none yet.

### What makes each part correct

- *Lock:* one holder at a time; who believes to hold it owns the key; nobody deletes or
  prolongs another's key; an abandoned key goes away.
- *Executions:* what is QUEUED or RUNNING is attended to by somebody; one thread works
  on an execution; a completed one stays completed; a paused one has something to wait
  for; a queued one gets its turn; a stop reaches the run, on whichever pod it is.
- *Credits:* the balance is what the transactions add up to; nobody spends what he was
  not given; no credits without a payment, and no payment without its credits.
- *Credentials:* a block uses a credential alone and in its newest version; nothing stays
  locked; every request ends.
- *Copilot:* a turn ends, once, and its end is settled before anybody hears of it; every
  connection is closed, and not before its turn is over; a cancelled turn has stopped when
  the request is answered; one worker at a time has a turn of the session.
- *Node engine:* every output is consumed once, in order, by executions that are
  complete whenever they can be; a run ends, and only when its nodes are through; no row
  is left as if someone still worked on it.

The code does not keep all of this. What it does keep is what the passing runs check and
the theorems prove, with each exception named in the property; where it falls short of what
its own comments say, a run shows a counterexample (§3).

## 2. The modules

```
Lock ── ClusterLock ─┬─ MCClusterLock
                     └─ ClusterLockProofs
ExecutionStatus ─┬─ ExecutionState ─┬─ ExecutionApi ─────┐
                 │                  └─ ExecutionManager ─┴─ GraphExecution ─┬─ MCGraphExecution
                 │                                                          └─ GraphExecutionProofs
                 └─ NodeEngine ─┬─ MCNodeEngine
                                └─ NodeEngineProofs
CreditLedger ── CreditLedgerProofs
CredentialLocks ─┬─ MCCredentialLocks
                 └─ CredentialLocksProofs
CopilotStreams ── CopilotExecutor ── CopilotChat ─┬─ MCCopilotChat
                                                  └─ CopilotChatProofs ── CopilotExecutorProofs
```

Definitions commented as mutants are changed copies of a definition, the kind of change a
bug would make. Nothing uses them in a run; each makes one property fail when it takes the
place of the original, which shows that the property depends on that line of the code.

### `Lock`

What `ClusterLock` promises to the pods, without keys, clocks and commands: an owner, the
set of those who work in the belief that the lock is theirs, and whether Redis has failed.
The lock is freed only when nobody works under it. `ClusterLock` implements it through the
mapping in its property `ImplementsLock`: the owner is the value of the key, users are the
owners of objects at a stage that counts as acquired.

### `ClusterLock`

One Redis key and the `ClusterLock` objects that compete for it. Each Redis command is a
step, so the GET and the EXPIRE of one `refresh()` have others between them.

| variable | code |
|---|---|
| `key`, `ttl` | the value of the key and what remains of its life |
| `pc[l]` | the command at which a call of object `l` is |
| `stamped[l]`, `refreshAge[l]` | `_last_refresh`: set or 0, and how long ago |
| `startAge[l]` | `current_time`, read at the start of `refresh()` |
| `wait[l]` | time since the last step, which bounds how late a poll or an answer may be |
| `faults` | Redis errors so far |

`SetSucceeds`, `StampAcquired`, `SetRefused`, `ReadOwner` and `AcquireFails` are
`try_acquire()`; `RefreshStart`, `RefreshSeen`, `RefreshLost`, `RefreshExpire` and
`RefreshFails` are `refresh()`; `ReleaseStart`, `ReleaseDelete` and `ReleaseFails` are
`release()`. `Tick` lets time pass, and drops the key when its life is over. The async
variant of the class is the same code.

### `ExecutionStatus`, `ExecutionState`, `ExecutionApi`, `ExecutionManager`, `GraphExecution`

`ExecutionStatus` is the transition table. `ExecutionState` is what servers and pods
share: `status`, `review`, `ready` and `cancels` (the two queues as counts per execution,
since rejected and republished messages come back at any place), the history `lost`, and
`spent`, the troubles that struck so far against a `Budget` per kind.

`ExecutionApi` has a record per request: `call[c]` for `add_graph_execution` and the
review routes, `stop[e]` for `stop_graph_execution`, each with the await it is at.

`ExecutionManager` has, per pod, its `mode`, the message in the hands of the consumer
thread (`handler`), the registries `active` and `held`; per slot a `run`, which is a call
of `on_graph_execution` with its message and what is to become of that message
(`verdict`); and `key[e]`, the lock of `ClusterLock` reduced to its owner. A pod that
restarts has a new executor id, so it is a new pod. The stages of a handler are the
checks of `_handle_run_message` in their order; the stages of a run are those of
`on_graph_execution` and `_on_run_done`.

`GraphExecution` composes them: the agent block, at work in a run, creates and interrupts
children, and `EndEngine` ends the dispatch loop when none is unfinished, or interrupts
them.

Three auxiliary variables are histories that only the properties read. `lost` grows
exactly where the code gives a message up: the rejection of a duplicate, an API server that
dies before it publishes or resumes, and a pod whose grace period ends under a thread at
work. `unlocked` has the executions whose key was deleted, or expired, while a run or a
handler of the key's pod counted on it. `hasty` has those that were queued or set RUNNING
while one of their reviews was still undecided.

### `NodeEngine`

The inside of the stage `engine` of a run: how one executor runs the nodes of one graph.

| variable | code |
|---|---|
| `rows` | `AgentNodeExecution` in order of `addedTime`: node, status, input pins, order of `queuedTime` |
| `work[i]` | the coroutine of row `i`, its future, and its outputs in `NodeExecutionProgress.output` |
| `tasks[n]` | `NodeExecutionProgress.tasks` of node `n`, in insertion order |
| `eval[n]` | `running_node_evaluation[n]`: the output, the links left, the row at hand, what was queued |
| `queue`, `engine` | `execution_queue`, and where the thread of `_on_graph_execution` is |
| `verdict`, `error`, `cancel` | `execution_status`, the credit error, the cancel event |
| `graph` | the graph, chosen at the start from `Shapes` with the risks its runs meet |

The future and the coroutine of a task are apart on purpose:
`run_coroutine_threadsafe(...).cancel()` ends the first at once and the second at its next
await. `EvalFinds`, `EvalInserts`, `EvalCompletes`, `EvalOthers` are the critical section
under the sink's lock, one database access each. `Crash` wipes everything but `rows`, and
`Begin` reads the queue back from them, as the redelivered message does.

A value is identified by the execution and the number of the output it is. The two
dictionaries of a row (its input records and `executionData`) are one: the second is the
first with static pins filled in, written when the row stops accepting inputs.

### `CreditLedger`

One user's rows of both tables. Balance and transaction change in one SQL statement with
several parts, at PostgreSQL's default isolation. Such a statement is two steps: its start,
which keeps in `saw` what the snapshot says, and the rest, which takes the row lock,
re-reads the locked row, and commits. That is where two statements interleave: both may see
no balance row, or both the same inactive transaction.

| variable | code |
|---|---|
| `balance`, `history` | `UserBalance.balance`; `runningBalance` of the newest transaction from before that table |
| `rows` | `CreditTransaction`: type, amount, active, key |
| `call[t]` | the coroutine of a request: operation, stage, request, keys, snapshot |
| `paid`, `acked`, `charges` | what Stripe knows: sessions paid, webhooks answered, payments made from here |
| `ledger`, `disturbed` | auxiliary: the sum of the active rows, and which of the three known disturbances happened |

The operations are spending (with the automatic top-up that follows), onboarding rewards,
checkouts, configuring top-ups, deductions of full or partial refunds, and `fulfill_checkout` by webhook or by the
user's page. `AddTransaction` and `AddTransactionFails` are `_add_transaction`,
`EnableTransaction`, `EnableTransactionSkips` and `EnableTransactionFails` are
`_enable_transaction`.

### `CredentialLocks`

The three locks of each credential and the coroutines that take them. The keyed mutex hands
one `redis.Lock` object per key to all coroutines of a process, so `key[l]` records who set
the key *and through which object*, and `mutex[m]` is the table of objects of a manager
`m`. `held[t]` are the locks of a coroutine with their objects, `task[t]` the request, its
stage, its copies of credentials and what it has just been given by the provider (`fresh`).
`stored`, `issued` and `aged` count the tokens in the database, at the provider, and those
about to expire. `lapsed`, `leaked`, `strayed` and `bypassed` are auxiliary: locks that
expired in their holder's hands, locks left behind by a failure, credentials whose tokens
the database does not have, and those that were renewed without the main lock and whose
lock nobody has taken since.

`ExecuteNode`, `Get`, `Peek`, `Activate` and `Delete` begin a request. `Peek` is
`get(lock=False)`, the copilot's way: it takes the refresh lock (`Locking` is false for it),
but renews and saves without the main lock that `Get` claims. `Activate` checks the
credentials of a graph through a cached getter, whose snapshot is not updated by a renewal:
the next node that names the credential is given the old tokens, and renews them again.
The remaining actions are the stages of `acquire`, `get`, `refresh_if_needed` and `delete`.
`owned()` and `release()` are one step: the script behind `release()` makes the same
comparison. So are the SET and the object's note of the token.

### `CopilotStreams`, `CopilotExecutor`, `CopilotChat`

One chat session. `CopilotStreams` is the registry: the session's hash (`meta`), the turns
whose stream has its `StreamFinish` (`ended`), the calls of `mark_session_completed`
(`mark`, one per execution or cancel request) and the subscriptions (`reader`), and the two
queues as counts. `CopilotExecutor` has the pods: `handler[p]` is the message in the hands
of the consumer thread, `active[p]` and `held[p]` are the session's entries in
`active_tasks` and `_task_locks`, `run[s]` is an execution's worker thread, and `mark[s]`
its coroutine once it is in its `finally` clause; they are apart because a cancelled worker
leaves without its coroutine. `CopilotChat` adds the routes: posting a turn (`post`),
cancelling (`cancel`), subscribing, and the hash's time to live. `mortal` says whether the
hash has one: HSET (`CreateSession`) and EXPIRE (`ExpireSession`) are two commands, and a
request that dies between them (`PostFails`) leaves a hash that only the next turn or the
stale check of `get_active_session` removes (`FindStale`, after 3900 seconds).

What stands for what:

- `StreamFinish` is the only chunk. An answer that ends with an error takes the same path
  as one that ends well.
- Reading the hash at the start of `mark_session_completed` is one step with what leads
  there; the script and the publication are steps of their own.
- A message's delivery and the `SET NX` for it are one step; the `GET` that follows a
  refusal is another.
- Whether an acknowledgement had left when a connection went is chosen when the
  connection goes (`Unacknowledged`); whether a lock object's timestamp is set when it is
  asked (`Stamps`), since a refresh may have come before or not.
- `CancelledError` arrives with the cancellation of the future. It reaches the coroutine in
  its stream or in its `finally` clause.
- A session's turns are posted one after another, as its page does. The next may be
  posted while the last is still running.
- A listener under which Redis fails hands its reader a `StreamFinish`, and the response
  ends (`ReaderFails`, the stage `failed`). A browser that goes away is `Unsubscribe`.

The history `lost` grows where a turn is given up without being ended: its message is
rejected while no run of that turn is at work, its request fails before the message is
there, Redis fails in the `finally` clause or the cancellation hits it, its pod dies after
the acknowledgement, or it outlives the hash.

## 3. What is checked

The sizes are distinct states. Types are proved where §4 says so, and not asked for again
by the runs of those modules.

| run | states | shows |
|---|---|---|
| `cluster_lock` | 62 000 | two executors, crashes and one Redis error in any command: until the error one holder works under the lock, DELETE and EXPIRE touch only the caller's own key; an abandoned key expires whatever fails; and the class implements `Lock` |
| `graph_turns` | 14 000 | with a limit of one running execution and messages rejected and republished, every queued execution is executed; two requests that decide a review on one pod leave nothing paused without a reason |
| `graph_troubles` | 809 000 | any two kinds of trouble in one behaviour, or a parent and a child on two pods of which one is stopped: only those executions are forgotten whose message is known to be lost; one thread at a time works on an execution; a completed one is left alone; a paused one has something to wait for |
| `node_engine` | 247 000 | six graphs, one trouble each: outputs arrive, once, in order; nothing is stuck; the run waits for its nodes, ends, and leaves settled rows |
| `credit_ledger` | 464 000 | any three requests, a webhook, a paying customer, one crash or lost reply: the balance is what the transactions add up to but in three named cases; nobody spends into debt but over a refund, whatever races; credits only for payments; a paid checkout is credited |
| `credential_locks` | 574 000 | two requests in two processes, ageing tokens, one fault: one holder per lock until a key expires in his hands; a block has the tokens that are stored and issued last, unless they were renewed without its lock; only failures leave a lock behind; every request ends |
| `copilot_turns` | 280 000 | two turns on two pods: the end of a turn is settled once and before it is in the stream; a connection is closed early only when Redis fails under it; a cancelled turn has stopped; one worker has the session until its lock vanishes; only known losses strand a turn; turns and connections end |

Five runs show where the program departs from what it says of itself; each is a finding of
`PROJECT.json` with the line it contradicts.

| run | counterexample |
|---|---|
| `graph_forgotten_crash` | a pod dies; the redelivered message meets the dead pod's key and is rejected without requeueing; the execution stays QUEUED or RUNNING for ever |
| `graph_cancel_lost` | two pods, one execution, one stop request: the pods share one cancel queue and acknowledge what they take, so the message may go to the pod that does not run the execution, and the run goes on to its end |
| `credit_races` | two first transactions of a user start from the same fallback and the second overwrites the balance of the first; or the page and the webhook enable one top-up twice. The docstring promises no lost updates and no incorrect balance |
| `credentials_in_use` | a block holds the lock of a credential while the copilot's `get(lock=False)` renews its tokens; the docstring says that credentials must be locked while in use so that they are not invalidated |
| `credit_auto_top_up` | enabling an automatic top-up renames its row, so the key that is to limit an execution to one of them is free again: the next block that finds the balance low charges the card once more |

For each but one there is a property that says what holds all the same, checked by a passing run
and proved: `OnlyDropsForget` for `NothingForgotten`, `BalanceIsTheLedger` for
`NoIncorrectBalance`, `LockKeepsCurrent` for `UsedIsCurrent`, `OneAutoTopUpAtATime` for
`OneAutoTopUpPerExecution`. For `CancelReachesRun` there is none: with a single pod it would
hold, but the deployment has many. The copilot's cancel queue is built the same way; there
the request completes the session itself after five seconds, and `CancelEndsTurn` holds.

### Stated, and not satisfied

These are in the modules, next to the properties that hold. No run asks for them; TLC finds
each violated in small instances. The first four are promised by the repository in words:

| property | the promise | why not |
|---|---|---|
| `GraphExecution!SinglePublisher` | `executor/utils.py:992`, 1011: "to prevent race condition where two concurrent requests could both publish the same execution", "to ensure only one request publishes" | two requests resume one execution; the second's update changes nothing, it reads back QUEUED, takes that for its own and publishes again |
| `NodeEngine!NoTaskOutlivesRun` | `executor/utils.py:1132`: "Wait for all cancelled tasks to complete cancellation." | the run ends while a cancelled coroutine is still at work: `wait_for_done` waits for futures that are done already |
| `CredentialLocks!RenewedOnce` | `integrations/creds_manager.py:90`: "prevent unnecessary sequential refreshes when multiple executions try to access the same credentials simultaneously" | the copy that is examined under the refresh lock was read before the lock was taken, so the second of two coroutines renews tokens that have just been renewed; so does the second node of an activated graph |
| `CopilotChat!FinishHeardMeansOver` | `copilot/stream_registry.py:762`: "ensuring status is set before StreamFinish reaches the frontend" | a listener under which Redis fails puts a `StreamFinish` into its reader's queue (725-731) while the turn runs |

The others a reader would expect, though no line claims them:

| property | why not |
|---|---|
| `ClusterLock!MutualExclusion` | after a Redis error `refresh()` clears `_last_refresh` (`cluster_lock.py:115`), the later `release()` returns without deleting the key, and the same executor's next `try_acquire()` takes its leftover key, and what remains of its life, for a fresh lock |
| `GraphExecution!StopIsFinal` | a queued execution is terminated between the executor's read and its unconditional RUNNING |
| `CopilotChat!RunsEndOwnTurn` | completion names the session, not the turn: a late run settles the turn that has taken the place of its own |
| `CopilotChat!OnlyDuplicatesDropped` | so do the table of active tasks and the lock: the message of a new turn that arrives under the last one is rejected as its duplicate |

### Bounds, and why they are enough

- *Lock:* two objects of two owners, `Timeout` 20 ticks, polls up to 14 ticks apart and
  one tick per command: the tightest values for which the lease lasts
  (`Timeout >= RefreshInterval + MaxGap + 4 * MaxLatency`). The proofs cover the rest.
- *Executions:* one execution where the question is about one (its troubles, its messages,
  its reviews), two where they compete for the limit or are parent and child; the
  constraints `TwoKindsOrFamily` and `TurnsOrReviews` choose between these in one run. Two
  pods are a holder and a competitor; a parent and its child have one each. Four slots are
  more than the runs that can exist at a time. Two or three requests are a creation and one
  or two that decide or resume; they are alike, so they are used in order (`InOrder`), and
  no symmetry set is needed.
- *Troubles:* each kind strikes once. `graph_troubles` looks at every pair of kinds; a third
  adds nothing new to its invariants, which are proved for any number. `graph_cancel_lost`
  needs one stop and a second pod, and no other trouble.
- *Node engine:* three nodes, at most six executions. `Join` pairs two times two outputs,
  `Merge` has two sources on one pin, `Static` a value that two executions share, `Chain`
  overlapping executions of one node, `Fallible` an output named error that is routed,
  `Brief` is small enough for a crash, a cancellation or missing credits at every step.
  The risks are spread over the graphs because a cancelled or repeated run multiplies
  states; a single risk per behaviour.
- *Credits:* two coroutines, since a statement interleaves with one other at a time; three
  requests are a top-up, its double and a spending. `IntMax = 3` lets the balance clip and
  overflow, a `Threshold` of 2 with `Cost` 1 makes automatic top-ups happen, and a history
  of 1 makes the first statement of a user without a balance row count. `MaxFaults` is one
  crash or lost reply anywhere.
- *Credentials:* three coroutines on two managers: two share a mutex and its objects, the
  third competes from another process. Two requests; one credential with tokens, one API
  key, lists of one and two (one names the credential twice). `MaxAges` lets tokens age once, also while being renewed. The
  constraint `OneThingAtATime` leaves faults and ageing out while the API key is involved:
  it has no tokens, and its share is the order in which two locks are taken.
- *Copilot:* two turns, so that one can be mistaken for the other; two pods; two runs; one
  cancel request and one reader. The constraint `OneAtATime` admits one of these per
  behaviour: a trouble (each kind once), a cancellation, a reader, a second pod at work;
  around a hash without a time to live, two of them (`Bare`), since the request that left it
  so has died already. `Narrow` keeps a cancellation on one pod, and the loss of a
  connection, a shutdown or a failed cancellation to one turn. That Redis fails under a
  listener counts against nothing. Combinations beyond that are what the proofs are for:
  the safety properties are proved for any number of each. `PoolSize = 2` leaves room for
  the duplicate to reach the table.

Deadlock is not checked: these systems come to rest when there is nothing left to do.
That they rest in a good state is what `OnlyDropsForget`, `OnlyDropsStrand`, `EndsSettled`,
`NothingLeftLocked` and the liveness properties say.

### Fairness

- *Lock:* time passes, and a holder goes on polling or releases. Nobody is obliged to
  compete, crash or fail.
- *Executions:* threads, callbacks and requests go on while their process lives (weak
  fairness of each step); blocks end; a stale lock expires. Delivery has strong fairness
  for each pod and execution: a message that is rejected and republished goes to the end
  of the queue, and RabbitMQ serves its consumers in turn, so a pod that can take it
  again and again does.
- *Node engine:* the engine's thread runs and its loop visits every node; coroutines go
  on, since they share their loop cooperatively; blocks end; a coroutine that waits for
  the sink's lock gets it. Troubles need not happen: the engine's fairness names only its
  own steps, and a task or evaluation that meets trouble has ended.
- *Credits:* a coroutine goes on (weak fairness of each one's steps), and Stripe reports a
  paid session until it is answered (weak fairness of its webhook per session). The
  customer need not pay, and the page need not poll.
- *Credentials:* some coroutine that can go on does, blocks and providers return, and some
  key that has lived its 60 seconds expires. Which coroutine gets a lock is left open, so
  fairness is not claimed per coroutine; requests are finite in number, which is why all of
  them end (`RequestsEnd` says that the system becomes idle again and again).
- *Copilot:* requests, handlers, threads and coroutines go on while their process lives,
  the model's answer ends, and a hash that has a time to live goes away once its turn is
  over (weak fairness). A hash without one need not: `ReadersEnd` excepts it. Delivery is
  strongly fair per turn: a message that goes back to the queue is offered again. Lock keys
  need not expire, subscriptions need not happen, and a cancel request need not be made.

## 4. What is proved

TLAPS proves these for all values of the constants that meet the named assumptions.

| theorem | says |
|---|---|
| `ClusterLockProofs!TypeCorrect` | key and time to live exist together, whatever fails |
| `HolderAlwaysOwnsKey`, `LockExcludes` | under `Timely`, until Redis first fails, a holder owns the key, so there is one |
| `ReleaseIsSafe`, `RefreshIsSafe` | under `Timely`, until then, DELETE and EXPIRE touch only the caller's own key |
| `LockIsImplemented`, `Lock!UsersExclude` | under `Timely`, `ClusterLock` implements `Lock`, and `Lock` excludes |
| `GraphExecutionProofs!TypeCorrect` | types, for any number of executions, pods, requests and troubles |
| `OnlyDropsAreForgotten` | an execution that is QUEUED or RUNNING and attended to by nobody had its message dropped, its API server die or its pod outlive its grace period |
| `OneAtWork` | no two threads work on an execution, unless its lock went from under one that counted on it |
| `CompletionsLast` | while its lock stays with its runs, a completed execution keeps that status, however often its message is delivered |
| `PausesAreReasoned` | a paused execution waits for a review or for a request that will move it on, but for the three named exceptions |
| `CreditLedgerProofs!TypeCorrect` | the tables hold what their columns can hold: no balance leaves the range of the column |
| `BalanceExact` | the balance is what the active transactions add up to, but for the three named disturbances |
| `LedgerIsTheSum` | the auxiliary total in which `BalanceExact` is stated is the sum of the active rows |
| `CreditsArePaid` | an active top-up bears the key of a confirmed payment, and no payment is credited twice |
| `OneChargeAtATime` | one block of an execution at a time is between the charge of the card and its credit |
| `NoDebtBySpending` | a user who had no debt and was refunded nothing has none, whatever requests race: no spending takes the balance below zero |
| `CredentialLocksProofs!TypeCorrect` | Redis, mutexes and coroutines are well-formed at every stage |
| `LocksExclude` | a lock that has not expired in its holder's hands has one holder |
| `NothingStaysLocked` | a key whose setter neither died nor failed is held by him |
| `BlocksRunWithCurrentTokens` | a block whose lock has not expired runs with the newest tokens, unless somebody renewed them without that lock, or a crash or a failed save left the database behind the provider |
| `NodeEngineProofs!TypeCorrect` | types, for any graph on any nodes |
| `CompletedWaited`, `EndedSettled` | a run ends as COMPLETED only with all its tasks through, and leaves no row QUEUED or RUNNING but the two kinds named |
| `NeverQueuedTwice` | no execution is queued twice, nor again after its task has begun |
| `InputsAreKept` | no row is deleted, and no input once given is changed |
| `NoOutputLost` | a COMPLETED run has handed every output over every link |
| `OutputsInOrder` | over graphs without twin links, outputs reach each sink in order and once |
| `NoneStuck` | over graphs whose starts have no links into them and whose pins are static or not, the rows that wait at the end of a COMPLETED run all lack one same input that no earlier row could lend |
| `SettledBeforeFinish`, `ClosedAreOver` | a copilot turn whose stream has ended, or whose connection was closed while Redis answered, is not running |
| `SettledOnce` | how a turn ended is settled once |
| `CancelledHasStopped` | a cancel request that was answered leaves its turn stopped |
| `CopilotExecutorProofs!TypeCorrect` | the copilot's types, whatever fails |
| `OnlyDropsAreStranded` | a turn that the session says it is working on has somebody who will end it, or is known to be lost |
| `WorkersExclude` | while no lock has vanished under a run, one worker at a time has a turn of the session |

*The lock.* The assumptions are `LockConstants` and, for all but the types, `Timely`: one
object per executor, and a timeout that covers a rate-limited poll, the wait for the next
one, and the commands around them. The executor meets it with 300 seconds and polls a
tenth of a second apart while its thread runs. `HolderOwnsKey` is not inductive: it says
nothing about how long the key will last. `LeaseInv` adds, per stage of a call, a lower
bound of `ttl` in terms of the age of the last refresh and of the waiting time, and that
the timestamp is honest: `refreshAge` is not younger than the refresh it stands for. Time
then cannot pass a point where the lease would run out before the holder must act. The
refinement maps each command to a step of `Lock` or a stutter; the key's expiry is `Free`,
and that nobody works under the lock then is `LeaseInv` again.

*Executions.* The assumptions are those of the modules that declare the constants
(`StateConstants`, `ManagerConstants`); there may be any number of everything.
`OnlyDropsForget` is not inductive: a run could be `submitted` with a message already
settled, or a closed pod could hold a message, and the next step would forget an execution.
`IInv` adds `RunsOrdered` (the stage of a run, the verdict on its message and the mode of
its pod go together; a thread that works without a message is known to be lost) and
`HandlersConnected`. The proof has a lemma per group of actions and a step per action: each
shows that whatever attended to an execution (a publisher, a message, a thread) is replaced
by something else that does, or that the row has left QUEUED and RUNNING, or that `lost`
has grown.

`OneEngine` needs `Locking`: whoever counts on the lock of an execution, from the handler
about to submit it to the run's last write, owns the key (`RunsOwn`, `HandlersOwn`), so all
of them are on one pod; and that pod has its runs in its table (`RunsActive`), submits no
execution that is there (`SubmitsFresh`), and so runs none twice (`RunsAlone`). One contract,
`Steady`, says what every step but a submission keeps of this. The exception `unlocked` is
real. The callback of an ended run releases the lock registered under the execution's id,
which may be that of a newer run; a key may expire while its pod cannot refresh it. From then
on another pod may take the execution up, and TLC finds two threads at work with enough
troubles of that sort.

The other three rest on `Deciding`, which goes with the two invariants above it in `Safety`.
A run past its first check has not been overtaken by a completion (`StartsOpen`); that is
where the unconditional RUNNING could undo one, and exclusion is why it cannot. A review that
is decided is one that was opened, and none of those under decision waits while the execution
goes on (`PicksKnown`, `Undecided`); a run about to write REVIEW still has a reason to
(`AboutToPause`). Each action is first shown to be one of the few changes of status and
reviews that `Proceeds` admits, and the invariants are then proved to survive those. The
exception `hasty` is real too: a request whose last look at the reviews is old queues the
execution while a newer review waits, and that review's decision then finds no execution to
resume.

*Credits* (`CreditConstants`). `BalanceIsTheLedger` compares the balance with `ledger`, the
auxiliary sum, and a statement that applies an old snapshot would break it. The invariant
adds what a statement under way may rely on (`CallsOK`): if its snapshot had a balance row,
there still is one, and if it had an open transaction, it had a balance row too. The latter
needs that the first transaction brings the balance row with it, and that the snapshot's row
is the only one of its key (`RowsOK`); `TotalsOK` and `CountersOK` keep sums and counters in
the columns' ranges.

Where the money comes from needs a second invariant on top of it, `Fits`. `CallsFit` says of
each coroutine what its request and its stage promise: a top-up is posted inactive, only a
refund may leave a debt, and who is about to enable a row holds the key of a payment that
Stripe has confirmed (`PayFits`), which a coroutine keeps over every await between the two.
`RowsFit` says the same of the rows, and that a random key is as good as the row's place in
the table. `ChargeKept` keeps the inactive row of an automatic top-up in the table while its
charge is under way: that row is what turns the second block of the execution away. `Means`
says of the balance itself that it is not below zero as long as nothing was refunded, which
needs no word about lost updates: each statement compares with the row it has locked, or
with the fallback it then writes over. `SawFits` is what an enabling statement may believe of its snapshot. `LedgerAddsUp`
compares a total with a fold over the table. A fold is opened by the sequence of its partial
sums: `Accounted` says that one exists, and `SumIsTheLastSubtotal` that it ends in the fold,
by the least place at which the two would differ (`LeastNumber`).

*Credentials* (`CredentialConstants`, `MarkersDiffer`). Exclusion is not inductive, because
ownership is a question to an object that several coroutines share. `HolderSetKey` says
that of a lock that has not lapsed, the holder is the setter of the key, through the very
object he holds; `SetterHolds` says that a key which was not left behind is held by its
setter. `Hands` says which locks a request that is not a block's may hold at its stage, so
that its end leaves none behind. That there always is an object nobody refers to is a
pigeonhole argument over `Objects`, whose number grows with the coroutines.

What a block runs with needs a further invariant, `InUse`: who renews, saves or deletes
tokens has the main lock of the credential in hand, unless he asked with `lock=False`
(`Claims`); the database agrees with the provider, or somebody is about to save (`Agrees`),
of all credentials that have not gone astray (`Astray`: strayed, or bypassed); a node's copy is current from the read
under the lock on (`Copies`); and a node does not ask for a lock that it holds (`AskedOnce`,
or it would fetch tokens behind its own back). Each step then either leaves the tokens alone
or finds no unexpired main lock in other hands, which is `Exclusive`.

*Node engine* (`EngineConstants`). The nodes, the graphs, their outputs and risks are any.
`Inv` has four layers. `Typed` and `Known` are the types. `Futures` ties the stage of a
coroutine to its future, which a cancellation sets apart; `Tracked` says that what runs or
has outputs left is still in the engine's tables, and `LeftIdle` what the engine saw when it
left the loop is still so: after that, only its own thread could add work. `Evaluations` and
`OneInside` (the sink's lock) say what an evaluation may rely on between two accesses to the
database, `Placed` that a row which waits for a task is in one place, once, be it the queue
or the hands of an evaluation, and `Standing` and `Settled` that the row's status goes with
it. `Filling`, `Yielding`, `Carrying`, `Fresh`, `Landed` and `Delivering` follow an output
from the task that emits it, through the evaluation of its node, to the row that gets it.
The steps are abstracted before they are used: lemmas show that each action of a task or an
evaluation has one of a dozen effects, and the invariants are proved to survive these.

`OutputsInOrder` needs a second invariant, `Order`. The rows of a node which wait for
an input are a `Staircase`: who has it came before who has not, which is why the earliest
that lacks it is the next in order. `Chosen` says that a lookup still holds when its row is
filled, again by the sink's lock; `Linked`, `Listed`, `Sorted` and `Read` that an evaluation
goes through its links upwards, a task's outputs are in order, tasks are listed as they
started, and what was given has been read; `InTurn` and `Once` that what an evaluation carries is newer
than what its node has given, but for the link it is at. The theorem assumes `Untwinned` of the
graphs: no two links with the same output and the same pin. The table of links does not
forbid such twins (`schema.prisma`, `AgentNodeLink`), and the engine handles them one after
the other: the same output then fills the pin of two executions. TLC shows `ConsumedInOrder`
violated by such a graph; the graphs of the run have none.

`NoneStuck` needs a third, `Quiet`. Of the rows that wait, an earlier one has every input that
a later one has (`Stairs`), so that the least of them lacks what all lack; what was queued is
complete (`Full`), so that it can lend every static input; and a row that waits lacks an
input nobody can lend it (`Lacks`), unless an evaluation of its sink is about to look
(`Tended`). The hard step is the completion of one row over a link that is not static, after
which the others could borrow: the later ones lack that link's input (`Above`), and an earlier
one would, by the stairs, have been complete before. For this proof the effects of an
evaluation are sharpened by what it found of the row (`Outcome`). The theorem assumes two
things of the graphs, and TLC violates `NothingStuck` where either fails. `Unfed`: no link
leads to a starting node. An INPUT block with a link into it is a starting node all the same
(`data/graph.py:420`); its first execution is queued without that input, and as the latest one
has nothing to lend. `Uniform`: the links into one pin are all static or none is. The static
flag is the source block's (`data/graph.py:916`), so two blocks may differ on one pin; a value
that is not static then completes one row, and the others, which could borrow it, are not
looked at.

*Copilot* (`StreamConstants`). Of the executor's thirty actions only one thing matters here,
stated as `ExecutorMoves`: they leave the session, the streams and the requests alone, and
begin, give up or forget completions of runs. `IInv` adds to the two invariants that nobody
knows of a turn that is not posted (`FreshTurns`: a new turn is not ended, closed or
cancelled by what came before), that who publishes has settled (`PublishedOver`), that a
reader which saw the session at rest was right (`ClosingOver`), and that a cancellation
which completed the session, after its five seconds or because it found the session stale,
has settled it (`ForcedOver`). Neither of the action properties
needs to know who executes a turn, how often, or on how many pods.

The other two are about the executor (`ExecutorConstants`). `OnlyDropsStrand` needs of the
pods only that a slot without a run has no completion under way (`FreeQuiet`): the thread
that takes a turn then finds its coroutine at the beginning. The proof is a chain of custody:
each step that takes a turn from whoever attended to it either hands it to the next, back
to the queue (`ReturnGivesBack`: an unfinished run of a pod that leaves has its message
returned), or adds it to `lost`. `OneWorker` follows from what the consumer thread keeps
(`OnePerPod`: a pod's worker is the one in its table, and there is none while a message is
in hand) and from the key. The key is delicate because a run that ends releases the lock
that is registered by then, which may be a later run's. `HeldAlive` says that what is
registered has not been forgotten, `KeyOwned` that a handler past the lock, a worker, and a
registered lock with a timestamp all own the key; so a release takes the key from a worker
only as one of the cases that `keyLost` names, and an exiting pod only its own.

### Only model-checked

Liveness: `QueuedEnds`, `AbandonedKeyExpires`, `RunEnds`, `PaidIsCredited`, `RequestsEnd`,
`TurnsEnd` and `ReadersEnd`. The prover does not treat fairness. Every invariant and action
property that a passing run checks has a theorem.

## 5. What is not modelled

- In the executions: validation of graphs and inputs, costs, statistics and notifications,
  which change no state that the properties read; the reconnection of a pod's channel and
  its delivery tags (planned); auto-approval of reviews and edited payloads. Handing the run
  to the thread pool and its entry in `active_graph_runs` (`manager.py:1863`, 1866) are one
  step of the consumer thread.
- In the node engine: input masks and the validation of values (a row with all its pins is
  taken to be valid); moderation, which ends a run with FAILED before or after its loop;
  paused nodes, which appear as reviews in the other model; an error after the update that
  sets a row QUEUED and before the row is handed on, unless static values were being filled
  in (`EvalFails`); the `None` that a static fill writes for a pin which the latest row
  lacks (`manager.py:504`), where the model leaves the pin missing; the order in which the
  engine cancels the tasks of one node after the other (`executor/utils.py:1116`, one step
  here); inputs older than a day, which
  `upsert_execution_input` treats as missing; the expiry of the sink's lock,
  which would need an evaluation slower than its 300 seconds. `nodes_to_skip` is always
  empty in this code (`_validate_node_input_credentials` never adds to it), so the branch
  that skips a node is left out. If it came back it would deserve a look: it continues
  with the outer loop, which ends on an empty queue without polling the nodes at work, and
  it asks for COMPLETED from QUEUED, which the transition table refuses.
- In the credits: refund requests and their approval, admin grants, the monthly refill of
  the beta model, histories and notifications; sessions for which Stripe asks no payment
  (`credit.py:1026`), which keep their key; the query with which `_enable_transaction`
  begins (276-284) and the retries around it, which are part of the statement here.
- In the credentials: two fields of one node that name the same credential (the second
  would wait for the first); a key expires only when somebody waits for its lock and its
  holder is where 60 seconds may pass (in a block, at the provider, waiting); coroutines of
  one manager are interchangeable; the store's operations are single steps under its own
  lock, which is not modelled; nor is the revocation at the provider after a deletion.
  `update()` and `release_all_locks()` have no caller.
- In the copilot: the chunks before the last; other sessions in the pool (`PoolSize` is
  what a session sees of them); the resumption from a reader's last message and the limit
  of a thousand replayed ones; the notification bus; tools that block; a pool that refuses a
  turn (`copilot/executor/manager.py:401`). The stale check of `get_active_session` (3900
  seconds) matters only for a hash without a time to live, since others live 3600.
- Between the modules: `ExecutionManager` and `CopilotExecutor` have the lock as a key with
  an owner and may lose it at any time (`lapse`), rather than composing `ClusterLock` with
  its clock; `NodeEngine` is not yet composed with `ExecutionManager`, nor with
  `CreditLedger` and `CredentialLocks`, which its blocks use.
- The components with status `not_modelled` in `PROJECT.json`, each with its reason. Most
  of the repository is of this kind: blocks that call a service each, queries of single
  records, the user interface. They have no protocol a model checker would say anything
  about.

## 6. Plan

The lock and its abstract specification, executions, engine, credits, credentials and the
copilot's turns are done. What is left, the most valuable first:

1. `Engine`, the one stage that `ExecutionManager` has, as an abstract specification that
   `NodeEngine` implements; `Lock` used by `ExecutionManager` and `CopilotExecutor` in place
   of their own key.
2. `RunChannel`: delivery tags across a reconnection (`manager.py:1711`).
3. The copilot's sessions (two-level cache) and token windows; the single-flight caches.
4. The event bus between executor, websocket server and the agent block.
