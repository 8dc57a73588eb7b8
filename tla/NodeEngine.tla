----------------------------- MODULE NodeEngine -----------------------------
(***************************************************************************)
(* How one executor runs the nodes of one graph execution                  *)
(* (executor/manager.py, _on_graph_execution).  Four kinds of process take *)
(* part:                                                                   *)
(*                                                                         *)
(*   - the engine, a thread that takes node executions from its queue,     *)
(*     starts a task for each and polls the tasks' outputs;                *)
(*   - the tasks, coroutines of the execution loop, one per node           *)
(*     execution: they run the block and report its outputs;               *)
(*   - the evaluations, coroutines of the evaluation loop, at most one per *)
(*     node: each carries one output over the node's links, into the       *)
(*     earliest waiting execution of every sink, and queues the executions *)
(*     this completes;                                                     *)
(*   - whoever sets the cancel event.                                      *)
(*                                                                         *)
(* `rows' is the table of node executions in the order of addedTime, and   *)
(* survives a crash; the rest is memory of the process.  A value is the    *)
(* k-th output of a node execution: only its origin and name matter.       *)
(***************************************************************************)
EXTENDS ExecutionStatus, Naturals, Sequences, FiniteSets, FiniteSetsExt, SequencesExt

CONSTANTS
  Nodes,
  Shapes     \* the graphs that may be run

Troubles == {"raise", "task", "evaluation", "credits", "cancel", "crash"}

\* A graph: its links in order, its starting nodes, the names of the outputs each
\* node yields when its block does not raise, and what may go wrong in its runs.
IsShape(g) ==
  /\ g.links \in Seq([from : Nodes, out : STRING, to : Nodes, pin : STRING, static : BOOLEAN])
  /\ g.starts \in Seq(Nodes)
  /\ g.yields \in [Nodes -> Seq(STRING)]
  /\ g.risks \subseteq Troubles

ASSUME EngineConstants == \A g \in Shapes : IsShape(g)

VARIABLES
  graph,     \* the graph of this run
  rows,      \* AgentNodeExecution: node, status, input pins, order of queuedTime
  work,      \* the task of each row and the outputs it left for the engine
  tasks,     \* NodeExecutionProgress.tasks: the rows of a node at work, in order
  eval,      \* running_node_evaluation
  queue,     \* execution_queue
  engine,    \* where the engine's thread is
  verdict,   \* the status it ends the run with
  error,     \* InsufficientBalanceError ended the dispatch loop
  cancel,    \* the cancel event
  trouble    \* the trouble this behaviour met

volatile == <<work, tasks, eval, queue, engine, verdict, error, cancel>>
vars == <<graph, rows, volatile, trouble>>

(***************************************************************************)
(* Graph and table.                                                        *)
(***************************************************************************)

\* The positions of the links that an output of a node goes over.
LinksOf(n, out) ==
  {k \in DOMAIN graph.links : graph.links[k].from = n /\ graph.links[k].out = out}
Pins(n) == {l.pin : l \in {x \in ToSet(graph.links) : x.to = n}}
StaticPins(n) == {l.pin : l \in {x \in ToSet(graph.links) : x.to = n /\ x.static}}

Rows == DOMAIN rows
Of(n) == {i \in Rows : rows[i].node = n}
Incomplete(n) == {i \in Of(n) : rows[i].status = "INCOMPLETE"}

\* A conditional update of a row's status.
Set(rs, i, to) == [rs EXCEPT ![i].status = Moved(@, to)]

\* async_update_node_execution_status(QUEUED): the data it runs with is stored.
Queued(rs, i, data) ==
  IF rs[i].status \in AllowedFrom("QUEUED")
  THEN [rs EXCEPT ![i] = [node |-> @.node, status |-> "QUEUED", in |-> data,
                          at |-> 1 + Max({rs[j].at : j \in DOMAIN rs})]]
  ELSE rs

\* get_latest_node_execution: of those that were queued, the last.
Latest(n) == LET past == {i \in Of(n) : rows[i].status \notin {"INCOMPLETE", "REVIEW"}} IN
             {i \in past : \A j \in past : rows[j].at <= rows[i].at}

\* upsert_execution_input: the earliest execution that waits for this pin.
Waiting(n, pin) == {i \in Incomplete(n) : pin \notin DOMAIN rows[i].in}
\* Mutant of Earliest: order={"addedTime": "desc"}.
NewestWaiting(S) == IF S = {} THEN 0 ELSE Max(S)

Earliest(S) == IF S = {} THEN 0 ELSE Min(S)

\* The inputs of a row with one more.
With(in, p, v) == [q \in DOMAIN in \cup {p} |-> IF q = p THEN v ELSE in[q]]

\* Missing static pins are filled from a set of at most one earlier execution.
Filled(in, n, from) ==
  LET lent == {p \in StaticPins(n) \ DOMAIN in : \E f \in from : p \in DOMAIN f} IN
  [p \in DOMAIN in \cup lent |->
     IF p \in lent THEN (CHOOSE f \in from : p \in DOMAIN f)[p] ELSE in[p]]

Complete(in, n) == Pins(n) \subseteq DOMAIN in

NoWork == [at |-> "none", turn |-> 0, sent |-> 0, end |-> "none", future |-> "none",
           out |-> <<>>]
NoEval == [at |-> "none", val |-> [row |-> 0, k |-> 0], todo |-> {}, row |-> 0,
           mine |-> <<>>, found |-> <<>>]

OutName(v) == IF v.k <= Len(graph.yields[rows[v.row].node])
              THEN graph.yields[rows[v.row].node][v.k] ELSE "error"

\* create_graph_execution: a queued row for every starting node.
Init ==
  /\ graph \in Shapes
  /\ rows = [i \in 1..Len(graph.starts) |->
               [node |-> graph.starts[i], status |-> "QUEUED", in |-> <<>>, at |-> i]]
  /\ work = [i \in 1..Len(graph.starts) |-> NoWork]
  /\ tasks = [n \in Nodes |-> <<>>]
  /\ eval = [n \in Nodes |-> NoEval]
  /\ queue = <<>> /\ engine = "idle" /\ verdict = "RUNNING"
  /\ error = FALSE /\ cancel = FALSE /\ trouble = "none"

\* Trouble strikes at most once in a behaviour.
Strikes(kind) == kind \in graph.risks /\ trouble = "none" /\ trouble' = kind

(***************************************************************************)
(* The engine's thread.                                                    *)
(***************************************************************************)

\* The unfinished executions of an earlier attempt, last queued first.
Begin ==
  /\ engine = "idle"
  /\ LET owed == {i \in Rows : rows[i].status \in {"RUNNING", "QUEUED", "TERMINATED", "REVIEW"}}
     IN \E q \in [1..Cardinality(owed) -> owed] :
          /\ ToSet(q) = owed /\ IsInjective(q)
          /\ \A j, k \in DOMAIN q : j < k => rows[q[j]].at >= rows[q[k]].at
          /\ queue' = q
  /\ engine' = "dispatch"
  /\ UNCHANGED <<graph, rows, work, tasks, eval, verdict, error, cancel, trouble>>

\* Take the next execution and start its task.
Dispatch ==
  /\ engine = "dispatch" /\ queue # <<>> /\ ~cancel
  /\ LET i == Head(queue) IN
     /\ queue' = Tail(queue)
     /\ work' = [work EXCEPT ![i] = [NoWork EXCEPT !.at = "start", !.future = "open",
                              !.turn = 1 + Max({work[j].turn : j \in Rows})]]
     /\ tasks' = [tasks EXCEPT ![rows[i].node] = Append(@, i)]
     /\ engine' = "poll"
  /\ UNCHANGED <<graph, rows, eval, verdict, error, cancel, trouble>>

\* _charge_usage raises: the execution fails, and the loop is left.
OutOfCredits ==
  /\ engine = "dispatch" /\ queue # <<>> /\ ~cancel
  /\ Strikes("credits")
  /\ rows' = Set(rows, Head(queue), "FAILED")
  /\ queue' = Tail(queue)
  /\ error' = TRUE /\ engine' = "verdict"
  /\ UNCHANGED <<graph, work, tasks, eval, verdict, cancel>>

LoopEnds ==
  /\ engine = "dispatch" /\ (queue = <<>> \/ cancel)
  /\ engine' = "verdict"
  /\ UNCHANGED <<graph, rows, work, tasks, eval, queue, verdict, error, cancel, trouble>>

\* Mutant of Spent: a finished task is popped without a look at its outputs.
EndedUnread(i) == work[i].future # "open"

\* _pop_done_task: ended, and every output handed over.
Spent(i) == work[i].future # "open" /\ work[i].out = <<>>

\* Mutant of Remaining: finished tasks are never popped.
NothingDropped(n) == tasks[n]

\* The tasks of a node that is_done leaves: from the first that is not spent.
Remaining(n) ==
  LET kept == {k \in DOMAIN tasks[n] : ~Spent(tasks[n][k])} IN
  IF kept = {} THEN <<>> ELSE SubSeq(tasks[n], Min(kept), Len(tasks[n]))

\* Mutant of Visit: an evaluation that has ended is kept with a node that is done.
VisitKeeps(n) ==
  /\ engine = "poll" /\ ~cancel
  /\ tasks[n] # <<>> /\ eval[n].at \in {"none", "done"}
  /\ tasks' = [tasks EXCEPT ![n] = Remaining(n)]
  /\ LET first == Remaining(n) IN
     IF first # <<>> /\ work[Head(first)].out # <<>>
     THEN LET i == Head(first)
              v == [row |-> i, k |-> Head(work[i].out)] IN
          /\ work' = [work EXCEPT ![i].out = Tail(@)]
          /\ eval' = [eval EXCEPT ![n] = [NoEval EXCEPT !.at = "find", !.val = v,
                                            !.todo = LinksOf(n, OutName(v))]]
     ELSE UNCHANGED <<eval, work>>
  /\ UNCHANGED <<graph, rows, queue, engine, verdict, error, cancel, trouble>>

\* One node of the polling loop: drop its spent tasks, and if no output of its is
\* being evaluated, evaluate the next output of its first task.
Visit(n) ==
  /\ engine = "poll" /\ ~cancel
  /\ tasks[n] # <<>> /\ eval[n].at \in {"none", "done"}
  /\ tasks' = [tasks EXCEPT ![n] = Remaining(n)]
  /\ LET first == Remaining(n) IN
     IF first # <<>> /\ work[Head(first)].out # <<>>
     THEN LET i == Head(first)
              v == [row |-> i, k |-> Head(work[i].out)] IN
          /\ work' = [work EXCEPT ![i].out = Tail(@)]
          /\ eval' = [eval EXCEPT ![n] = [NoEval EXCEPT !.at = "find", !.val = v,
                                            !.todo = LinksOf(n, OutName(v))]]
     ELSE /\ eval' = [eval EXCEPT ![n] = NoEval]
          /\ UNCHANGED work
  /\ UNCHANGED <<graph, rows, queue, engine, verdict, error, cancel, trouble>>

\* Mutant of Idle: only the evaluations count as work in flight.
NothingEvaluated == \A n \in Nodes : eval[n].at = "none"

\* The queue has refilled, or nothing is at work.
Idle == \A n \in Nodes : tasks[n] = <<>> /\ eval[n].at = "none"
PollEnds ==
  /\ engine = "poll" /\ (queue # <<>> \/ Idle \/ cancel)
  /\ engine' = "dispatch"
  /\ UNCHANGED <<graph, rows, work, tasks, eval, queue, verdict, error, cancel, trouble>>

Judge ==
  /\ engine = "verdict"
  /\ verdict' = IF cancel THEN "TERMINATED" ELSE IF error THEN "FAILED" ELSE "COMPLETED"
  /\ engine' = "stop"
  /\ UNCHANGED <<graph, rows, work, tasks, eval, queue, error, cancel, trouble>>

\* _cleanup_graph_execution: the futures of the open tasks are cancelled, which
\* ends the futures at once and not the coroutines; then nothing is waited for,
\* and the outputs left are discarded.
StopTasks ==
  /\ engine = "stop"
  /\ work' = [i \in DOMAIN work |->
                [work[i] EXCEPT !.future = IF @ = "open" THEN "cancelled" ELSE @,
                                !.out = <<>>]]
  /\ tasks' = [n \in Nodes |-> <<>>]
  /\ engine' = "drain"
  /\ UNCHANGED <<graph, rows, eval, queue, verdict, error, cancel, trouble>>

\* Mutant of Drain: the inflight evaluations are not waited for.
DrainEarly ==
  /\ engine = "drain"
  /\ IF queue = <<>>
     THEN engine' = "ended" /\ UNCHANGED <<rows, queue>>
     ELSE /\ rows' = Set(rows, Head(queue), verdict)
          /\ queue' = Tail(queue)
          /\ UNCHANGED engine
  /\ UNCHANGED <<graph, work, tasks, eval, verdict, error, cancel, trouble>>

\* The evaluations are waited for; then what is still queued gets the verdict.
Drain ==
  /\ engine = "drain" /\ \A n \in Nodes : eval[n].at \in {"none", "done"}
  /\ IF queue = <<>>
     THEN engine' = "ended" /\ UNCHANGED <<rows, queue>>
     ELSE /\ rows' = Set(rows, Head(queue), verdict)
          /\ queue' = Tail(queue)
          /\ UNCHANGED engine
  /\ UNCHANGED <<graph, work, tasks, eval, verdict, error, cancel, trouble>>

(***************************************************************************)
(* The task of row i (on_node_execution).                                  *)
(***************************************************************************)

\* Only a task the engine still tracks has its outputs read.
Reported(i, k) == IF work[i].future = "open" THEN Append(work[i].out, k) ELSE work[i].out

OnlyWork == UNCHANGED <<graph, tasks, eval, queue, engine, verdict, error, cancel>>

TaskStarts(i) ==
  /\ work[i].at = "start"
  /\ rows' = Set(rows, i, "RUNNING")
  /\ work' = [work EXCEPT ![i].at = "run"]
  /\ OnlyWork /\ UNCHANGED trouble

\* The block yields; the output is stored and handed to the engine.
TaskYields(i) ==
  /\ work[i].at = "run" /\ work[i].sent < Len(graph.yields[rows[i].node])
  /\ work' = [work EXCEPT ![i].sent = @ + 1, ![i].out = Reported(i, work[i].sent + 1)]
  /\ OnlyWork /\ UNCHANGED <<rows, trouble>>

TaskReturns(i) ==
  /\ work[i].at = "run" /\ work[i].sent = Len(graph.yields[rows[i].node])
  /\ work' = [work EXCEPT ![i].at = "write", ![i].end = "COMPLETED"]
  /\ OnlyWork /\ UNCHANGED <<rows, trouble>>

\* The block raises, or storing the RUNNING status does: the error is one more output.
ErrorOutput(i) == 1 + Len(graph.yields[rows[i].node])
TaskRaises(i) ==
  /\ work[i].at \in {"start", "run"} /\ Strikes("raise")
  /\ work' = [work EXCEPT ![i].at = "write", ![i].end = "FAILED",
                          ![i].out = Reported(i, ErrorOutput(i))]
  /\ OnlyWork /\ UNCHANGED rows

\* The future is done after the last write.
TaskWrites(i) ==
  /\ work[i].at = "write"
  /\ rows' = Set(rows, i, work[i].end)
  /\ work' = [work EXCEPT ![i].at = "over",
                          ![i].future = IF @ = "open" THEN "done" ELSE @]
  /\ OnlyWork /\ UNCHANGED trouble

\* An error outside of the block's try is logged and swallowed: the task ends, and
\* its row stays as it is.
TaskBreaks(i) ==
  /\ work[i].at \in {"start", "write"} /\ Strikes("task")
  /\ work' = [work EXCEPT ![i].at = "broken",
                          ![i].future = IF @ = "open" THEN "done" ELSE @]
  /\ OnlyWork /\ UNCHANGED rows

\* The CancelledError reaches the coroutine at its next await: inside the try it
\* ends as TERMINATED, outside of it like any other error.
TaskInterrupted(i) ==
  /\ work[i].future = "cancelled" /\ work[i].end # "TERMINATED"
  /\ \/ /\ work[i].at \in {"start", "run"}
        /\ work' = [work EXCEPT ![i].at = "write", ![i].end = "TERMINATED"]
     \/ /\ work[i].at \in {"start", "write"}
        /\ work' = [work EXCEPT ![i].at = "broken"]
  /\ OnlyWork /\ UNCHANGED <<rows, trouble>>

(***************************************************************************)
(* The evaluation of an output of node n (_process_node_output,            *)
(* _enqueue_next_nodes), one link after the other.                         *)
(***************************************************************************)

Link(n) == graph.links[Min(eval[n].todo)]

\* synchronized(sink): one evaluation at a time between the lookup and the queueing.
Holds(m, sink) == eval[m].at \in {"insert", "complete", "others"} /\ Link(m).to = sink
\* Mutant of SinkFree: no synchronized block around the lookup and the update.
Unsynchronized(n) == TRUE

SinkFree(n) == \A m \in Nodes : ~Holds(m, Link(n).to)

NextLink(n) == [eval[n] EXCEPT !.at = "find", !.row = 0, !.todo = @ \ {Min(@)},
                               !.mine = <<>>, !.found = @ \o eval[n].mine]

OnlyEval == UNCHANGED <<graph, tasks, engine, verdict, error, cancel>>

EvalFinds(n) ==
  /\ eval[n].at = "find" /\ eval[n].todo # {} /\ SinkFree(n)
  /\ eval' = [eval EXCEPT ![n].at = "insert",
                          ![n].row = Earliest(Waiting(Link(n).to, Link(n).pin))]
  /\ OnlyEval /\ UNCHANGED <<rows, work, queue, trouble>>

EvalInserts(n) ==
  LET l == Link(n) IN
  /\ eval[n].at = "insert"
  /\ IF eval[n].row = 0
     THEN /\ rows' = Append(rows, [node |-> l.to, status |-> "INCOMPLETE",
                                   in |-> With(<<>>, l.pin, eval[n].val), at |-> 0])
          /\ work' = Append(work, NoWork)
          /\ eval' = [eval EXCEPT ![n].at = "complete", ![n].row = Len(rows) + 1]
     ELSE /\ rows' = [rows EXCEPT ![eval[n].row].in = With(@, l.pin, eval[n].val)]
          /\ eval' = [eval EXCEPT ![n].at = "complete"]
          /\ UNCHANGED work
  /\ OnlyEval /\ UNCHANGED <<queue, trouble>>

\* Static pins come from the latest execution; a complete row is queued.
EvalCompletes(n) ==
  LET l == Link(n)
      i == eval[n].row
      in == Filled(rows[i].in, l.to, {rows[j].in : j \in Latest(l.to)}) IN
  /\ eval[n].at = "complete"
  /\ IF Complete(in, l.to)
     THEN /\ rows' = Queued(rows, i, in)
          /\ eval' = [eval EXCEPT ![n] =
                        IF l.static THEN [@ EXCEPT !.at = "others", !.mine = <<i>>]
                        ELSE [NextLink(n) EXCEPT !.found = @ \o <<i>>]]
     ELSE /\ eval' = [eval EXCEPT ![n] = NextLink(n)]
          /\ UNCHANGED rows
  /\ OnlyEval /\ UNCHANGED <<work, queue, trouble>>

\* A static value also completes other rows that waited for it, the newest first.
EvalOthers(n) ==
  LET sink == Link(n).to
      lent == {rows[eval[n].row].in}
      ready == {i \in Incomplete(sink) : Complete(Filled(rows[i].in, sink, lent), sink)} IN
  /\ eval[n].at = "others"
  /\ IF ready = {}
     THEN /\ eval' = [eval EXCEPT ![n] = NextLink(n)]
          /\ UNCHANGED rows
     ELSE /\ rows' = Queued(rows, Max(ready), Filled(rows[Max(ready)].in, sink, lent))
          /\ eval' = [eval EXCEPT ![n].mine = Append(@, Max(ready))]
  /\ OnlyEval /\ UNCHANGED <<work, queue, trouble>>

\* An error on a link is logged, and the link counts as having queued nothing.
EvalFails(n) ==
  /\ eval[n].at \in {"find", "insert", "complete", "others"} /\ eval[n].todo # {}
  /\ Strikes("evaluation")
  /\ work' = [i \in DOMAIN work |->
                IF i \in ToSet(eval[n].mine) THEN [work[i] EXCEPT !.at = "broken"] ELSE work[i]]
  /\ eval' = [eval EXCEPT ![n] = [NextLink(n) EXCEPT !.found = eval[n].found]]
  /\ OnlyEval /\ UNCHANGED <<rows, queue>>

EvalEnds(n) ==
  /\ eval[n].at = "find" /\ eval[n].todo = {}
  /\ queue' = queue \o eval[n].found
  /\ eval' = [eval EXCEPT ![n] = [NoEval EXCEPT !.at = "done"]]
  /\ OnlyEval /\ UNCHANGED <<rows, work, trouble>>

(***************************************************************************)
(* The outside.                                                            *)
(***************************************************************************)

Cancel ==
  /\ engine \notin {"idle", "ended"} /\ Strikes("cancel")
  /\ cancel' = TRUE
  /\ UNCHANGED <<graph, rows, work, tasks, eval, queue, engine, verdict, error>>

\* The process dies; the message is redelivered, and another process begins.
Crash ==
  /\ engine \notin {"idle", "ended"} /\ Strikes("crash")
  /\ work' = [i \in DOMAIN work |-> NoWork]
  /\ tasks' = [n \in Nodes |-> <<>>]
  /\ eval' = [n \in Nodes |-> NoEval]
  /\ queue' = <<>> /\ engine' = "idle" /\ verdict' = "RUNNING"
  /\ UNCHANGED <<graph, rows, error, cancel>>

EngineNext == \/ Begin \/ Dispatch \/ OutOfCredits \/ LoopEnds \/ PollEnds \/ Judge
              \/ StopTasks \/ Drain \/ \E n \in Nodes : Visit(n)
TaskNext(i) == \/ TaskStarts(i) \/ TaskYields(i) \/ TaskReturns(i) \/ TaskRaises(i)
               \/ TaskWrites(i) \/ TaskBreaks(i) \/ TaskInterrupted(i)
EvalNext(n) == \/ EvalFinds(n) \/ EvalInserts(n) \/ EvalCompletes(n) \/ EvalOthers(n)
               \/ EvalFails(n) \/ EvalEnds(n)

Next == \/ EngineNext \/ Cancel \/ Crash
        \/ \E i \in Rows : TaskNext(i)
        \/ \E n \in Nodes : EvalNext(n)

Spec == Init /\ [][Next]_vars

\* The engine's thread runs and visits every node in turn, blocks end, and a
\* coroutine that waits for a lock gets it.
MaxRows == 8   \* more node executions than any run here has
Fairness ==
  /\ WF_vars(Begin \/ Dispatch \/ LoopEnds \/ PollEnds \/ Judge \/ StopTasks \/ Drain)
  /\ \A n \in Nodes : WF_vars(Visit(n)) /\ WF_vars(EvalNext(n))
  /\ \A i \in 1..MaxRows : WF_vars(i \in Rows /\ TaskNext(i))

FairSpec == Spec /\ Fairness

(***************************************************************************)
(* Properties.                                                             *)
(***************************************************************************)

Value == [row : Rows, k : Nat]

\* Every variable has its type.
TypeOK ==
  /\ graph \in Shapes /\ rows \in Seq(Range(rows))
  /\ \A i \in Rows : /\ rows[i].node \in Nodes /\ rows[i].status \in Statuses
                     /\ DOMAIN rows[i].in \subseteq Pins(rows[i].node)
                     /\ \A p \in DOMAIN rows[i].in : rows[i].in[p] \in Value
                     /\ rows[i].at \in Nat
  /\ work \in Seq(Range(work)) /\ DOMAIN work = Rows
  /\ \A i \in Rows : /\ work[i].at \in {"none", "start", "run", "write", "over", "broken"}
                     /\ work[i].end \in {"none", "COMPLETED", "FAILED", "TERMINATED"}
                     /\ work[i].future \in {"none", "open", "done", "cancelled"}
                     /\ work[i].sent <= Len(graph.yields[rows[i].node])
                     /\ work[i].turn \in Nat
                     /\ work[i].out \in Seq(1..ErrorOutput(i))
  /\ tasks \in [Nodes -> Seq(Rows)] /\ queue \in Seq(Rows)
  /\ \A n \in Nodes : /\ \A k \in DOMAIN tasks[n] : rows[tasks[n][k]].node = n
                      /\ eval[n].at \in {"none", "find", "insert", "complete", "others", "done"}
                      /\ eval[n].at # "none" => tasks[n] # <<>> \/ engine \in {"drain", "ended"}
                      /\ eval[n].row \in Rows \cup {0}
                      /\ eval[n].todo \subseteq DOMAIN graph.links
  /\ engine \in {"idle", "dispatch", "poll", "verdict", "stop", "drain", "ended"}
  /\ verdict \in {"RUNNING", "COMPLETED", "FAILED", "TERMINATED"}
  /\ {error, cancel} \subseteq BOOLEAN /\ trouble \in Troubles \cup {"none"}

Ended(v) == engine = "ended" /\ verdict = v
Emitted(i) == 1..work[i].sent \cup (IF work[i].end = "FAILED" THEN {ErrorOutput(i)} ELSE {})

\* A run that ends as COMPLETED has carried every output of every task over every
\* link of that output: some execution of the sink has it on the link's pin.  No
\* output is still in a progress object or an evaluation when the polling stops.
OutputsArrive ==
  Ended("COMPLETED") /\ trouble \notin {"crash", "evaluation"} =>
    \A i \in Rows : \A k \in Emitted(i) :
      LET v == [row |-> i, k |-> k] IN
      \A x \in LinksOf(rows[i].node, OutName(v)) :
        LET l == graph.links[x] IN
        \E j \in Of(l.to) : l.pin \in DOMAIN rows[j].in /\ rows[j].in[l.pin] = v

\* The outputs of a node reach a sink in the order of the executions and of the
\* outputs of each, however the tasks overlap: the engine reads the first task's
\* outputs before the next one's, and evaluates one at a time.  So none reaches it
\* twice ("the same input to be consumed multiple times" is what the sink's lock is
\* there to avoid), except over pins that are static, which share by design.
Before(v, w) == \/ work[v.row].turn < work[w.row].turn
                \/ v.row = w.row /\ v.k < w.k
ConsumedInOrder ==
  trouble # "crash" =>
    \A i, j \in Rows : i < j /\ rows[i].node = rows[j].node =>
      \A p \in (DOMAIN rows[i].in \cap DOMAIN rows[j].in) \ StaticPins(rows[i].node) :
        LET v == rows[i].in[p] w == rows[j].in[p] IN
        rows[v.row].node = rows[w.row].node => Before(v, w)

\* No execution is queued twice, or queued again once its task has started: of the
\* evaluations that complete one row, one queues it.
QueuedOnce ==
  /\ \A k \in DOMAIN queue : work[queue[k]].at = "none"
  /\ IsInjective(queue)

\* When a run has COMPLETED, the executions of a node that still wait all lack
\* one same input, of which no further value came: the inputs were not spread
\* over rows that could have been complete, nor a complete row left unqueued.
NothingStuck ==
  Ended("COMPLETED") /\ trouble \notin {"crash", "evaluation"} =>
    \A n \in Nodes : Incomplete(n) # {} =>
      \E p \in Pins(n) : /\ \A i \in Incomplete(n) : p \notin DOMAIN rows[i].in
                         /\ p \in StaticPins(n) => Latest(n) = {}

\* The run ends as COMPLETED only when every task it started is over by itself.
WaitsForAllNodes ==
  Ended("COMPLETED") =>
    \A i \in Rows : work[i].at \in {"none", "over", "broken"} /\ work[i].future # "cancelled"

\* When the run has ended, a row is still QUEUED or RUNNING only if its task was
\* cancelled or an error on its way was swallowed: the drained queue, the tasks'
\* last writes and the transition table leave no other behind.
EndsSettled ==
  engine = "ended" => \A i \in Rows :
    rows[i].status \in Live => work[i].future = "cancelled" \/ work[i].at = "broken"

\* Every run ends, in whatever order tasks, evaluations and polling meet; and none
\* outgrows the fairness above.
RunEnds == <>[](engine = "ended" /\ Len(rows) <= MaxRows)

\* NodeExecutionProgress.wait_for_done: "Wait for all cancelled tasks to complete
\* cancellation."  A cancelled future is done at once: the coroutine is not waited
\* for, and may still write its row when the run has ended.
NoTaskOutlivesRun ==
  engine = "ended" => \A i \in Rows : work[i].at \in {"none", "over", "broken"}

=============================================================================
