------------------------------ MODULE Lifecycle ------------------------------
(***************************************************************************)
(* What the runtime promises of a container, whatever invocations race on  *)
(* it: the order of the statuses its config.json is given, and what must    *)
(* be true of its process when one is given or the container is deleted.   *)
(***************************************************************************)
CONSTANT Runs

VARIABLES
  record,  \* the last status saved: none yet, running, stopped, exited; or deleted
  process, \* the container's process: unborn, alive or dead
  termed   \* that process was sent SIGTERM

lvars == <<record, process, termed>>

\* The container's process needs nobody's protection any more.
Released(r) == process[r] = "dead" \/ termed[r]

Launch(r) ==
  /\ process[r] = "unborn"
  /\ process' = [process EXCEPT ![r] = "alive"]
  /\ UNCHANGED <<record, termed>>

Die(r) ==
  /\ process[r] = "alive"
  /\ process' = [process EXCEPT ![r] = "dead"]
  /\ UNCHANGED <<record, termed>>

Terminate(r) ==
  /\ process[r] = "alive"
  /\ termed' = [termed EXCEPT ![r] = TRUE]
  /\ UNCHANGED <<record, process>>

RecordRunning(r) ==
  /\ record[r] = "none"
  /\ process[r] # "unborn"
  /\ record' = [record EXCEPT ![r] = "running"]
  /\ UNCHANGED <<process, termed>>

\* A container can be recorded as stopped after it was recorded as exited: the
\* save of a stop that began before the exit may come last.
RecordStopped(r) ==
  /\ record[r] \in {"running", "stopped", "exited"}
  /\ Released(r)
  /\ record' = [record EXCEPT ![r] = "stopped"]
  /\ UNCHANGED <<process, termed>>

RecordExited(r) ==
  /\ record[r] \in {"running", "stopped", "exited"}
  /\ process[r] = "dead"
  /\ record' = [record EXCEPT ![r] = "exited"]
  /\ UNCHANGED <<process, termed>>

Delete(r) ==
  /\ record[r] \in {"running", "stopped", "exited"}
  /\ IF record[r] = "stopped" THEN Released(r) ELSE process[r] = "dead"
  /\ record' = [record EXCEPT ![r] = "deleted"]
  /\ UNCHANGED <<process, termed>>

LInit ==
  /\ record  = [r \in Runs |-> "none"]
  /\ process = [r \in Runs |-> "unborn"]
  /\ termed  = [r \in Runs |-> FALSE]

LNext == \E r \in Runs :
  \/ Launch(r) \/ Die(r) \/ Terminate(r)
  \/ RecordRunning(r) \/ RecordStopped(r) \/ RecordExited(r) \/ Delete(r)

LSpec == LInit /\ [][LNext]_lvars
=============================================================================
