-------------------------- MODULE ExecutionStatus --------------------------
(***************************************************************************)
(* data/execution.py: the statuses of graph and node executions and the    *)
(* table of transitions by which every conditional update of a status is   *)
(* filtered.  Pure definitions, shared by the modules about executions.    *)
(***************************************************************************)

Statuses ==
  {"INCOMPLETE", "QUEUED", "RUNNING", "COMPLETED", "FAILED", "TERMINATED", "REVIEW"}

\* No row in the database yet.
Absent == "ABSENT"

Terminal == {"COMPLETED", "FAILED", "TERMINATED"}

\* An executor owes these executions some work.
Live == {"QUEUED", "RUNNING"}

\* VALID_STATUS_TRANSITIONS: from which statuses a status may be set.
AllowedFrom(to) ==
  CASE to = "QUEUED"     -> {"INCOMPLETE", "TERMINATED", "REVIEW"}
    [] to = "RUNNING"    -> {"INCOMPLETE", "QUEUED", "TERMINATED", "REVIEW"}
    [] to = "COMPLETED"  -> {"RUNNING"}
    [] to = "FAILED"     -> {"INCOMPLETE", "QUEUED", "RUNNING", "REVIEW"}
    [] to = "TERMINATED" -> {"INCOMPLETE", "QUEUED", "RUNNING", "REVIEW"}
    [] to = "REVIEW"     -> {"RUNNING"}
    [] OTHER             -> {}

\* update_many with the table in its WHERE: a row in any other status is left
\* alone, and the caller is not told.
Moved(from, to) == IF from \in AllowedFrom(to) THEN to ELSE from

=============================================================================
