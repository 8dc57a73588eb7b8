--------------------------- MODULE ExecutionState ---------------------------
(***************************************************************************)
(* What the API servers and the executor pods share: the graph execution   *)
(* rows of the database, their human reviews, the run queue and the cancel *)
(* queue of RabbitMQ.                                                      *)
(*                                                                         *)
(* A run message is the id of its execution.  The queue is a bag: rejected *)
(* messages are requeued in front or republished behind, so any order is   *)
(* possible.  The cancel queue is one named queue for all the pods.        *)
(***************************************************************************)
EXTENDS Naturals, FiniteSets, ExecutionStatus

CONSTANTS
  Execs,      \* graph executions, all of one user and one graph
  RootOf,     \* [Execs -> Execs]: root_execution_id, itself for a root
  ParentOf,   \* [Execs -> Execs]: parent execution, itself for a root
  Budget      \* [Faults -> Nat]: how often each kind of trouble strikes

\* The troubles of the environment, and the client calls that are bounded.
Faults == {"crash",    \* an executor pod dies
           "drain",    \* an executor pod is told to shut down
           "grace",    \* ... and does not wait for its executions any longer
           "lapse",    \* a lock expires although its holder is at work
           "raise",    \* an execution ends with an unexpected exception
           "redis",    \* Redis cannot be reached
           "db",       \* the rate limit query fails
           "publish",  \* RabbitMQ does not confirm a message
           "api",      \* an API server dies in the middle of a request
           "review",   \* a block asks for a human review
           "stop"}     \* the user stops an execution

ASSUME StateConstants ==
  /\ Execs # {}
  /\ RootOf \in [Execs -> Execs]
  /\ ParentOf \in [Execs -> Execs]
  /\ Budget \in [Faults -> Nat]

VARIABLES
  status,     \* executionStatus of each row
  review,     \* the human reviews of each execution: how many were opened,
              \* and which of them still wait for a decision
  ready,      \* run messages waiting in the queue, per execution
  cancels,    \* messages waiting in the cancel queue, per execution
  lost,       \* history: executions whose message was dropped, never sent, or
              \* given back while a thread worked on without it
  spent       \* troubles so far

shared == <<status, review, ready, cancels, lost, spent>>

NoReviews == [opened |-> 0, waiting |-> {}]

ReviewRecord == [opened : Nat, waiting : SUBSET Nat]

SharedTypeOK ==
  /\ status \in [Execs -> Statuses \cup {Absent}]
  /\ review \in [Execs -> ReviewRecord]
  /\ ready \in [Execs -> Nat]
  /\ cancels \in [Execs -> Nat]
  /\ lost \in SUBSET Execs
  /\ spent \in [Faults -> Nat]

SharedInit ==
  /\ status = [e \in Execs |-> Absent]
  /\ review = [e \in Execs |-> NoReviews]
  /\ ready = [e \in Execs |-> 0]
  /\ cancels = [e \in Execs |-> 0]
  /\ lost = {}
  /\ spent = [f \in Faults |-> 0]

Spend(f) == spent[f] < Budget[f] /\ spent' = [spent EXCEPT ![f] = @ + 1]

\* update_graph_execution_stats: the conditional update of the status.
UpdateStatus(e, to) == status' = [status EXCEPT ![e] = Moved(@, to)]

Enqueue(e) == ready' = [ready EXCEPT ![e] = @ + 1]

=============================================================================
