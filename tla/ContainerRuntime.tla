--------------------------- MODULE ContainerRuntime ---------------------------
(***************************************************************************)
(* container.Runtime (internal/container/container.go): the life of a      *)
(* container between its process, its config.json and the minidocker       *)
(* invocations that race on both.  There is no daemon and no lock: every    *)
(* invocation is a process of its own that reads and rewrites the same     *)
(* files, so each system call that touches shared state is one step.       *)
(*                                                                         *)
(* A run r creates one container, also called r: generateID is taken to    *)
(* give every run an ID of its own.                                        *)
(***************************************************************************)
EXTENDS Naturals

CONSTANTS
  Runs,        \* the calls of Runtime.Run
  Clients,     \* the invocations of stop, rm and exec, one command each
  Pids,        \* process ids the kernel hands out
  ForeignPids, \* the pids a process that is no container may take
  Detached,    \* the runs with -d
  Embedded,    \* the runs whose host process outlives Run (tests, library use)
  MaxCrashes,  \* bound on invocations killed from outside
  MaxFaults,   \* bound on failing system calls
  None,        \* no process, no container
  Foreign      \* the owner of a pid that belongs to no container

ASSUME ConstantsAssumption ==
  /\ None \notin Runs \cup Pids
  /\ Runs \cap Clients = {}
  /\ Foreign \notin Runs \cup {None}
  /\ ForeignPids \subseteq Pids
  /\ Detached \subseteq Runs
  /\ Embedded \subseteq Runs
  /\ MaxCrashes \in Nat
  /\ MaxFaults \in Nat

VARIABLES
  conf,    \* config.json of each container: its status, or why it cannot be read
  fds,     \* who holds each config.json open for writing
  record,  \* history: the last status a complete save left in config.json
  owner,   \* kernel: whose process a pid is
  pid,     \* kernel: the pid of each container's init process
  life,    \* kernel: the state of that process
  termed,  \* kernel: SIGTERM was delivered to that process
  rpc,     \* where each run is
  cpc,     \* where each client is
  on,      \* the container a client works on
  crashes, faults

fileVars   == <<conf, fds, record>>
kernelVars == <<owner, pid, life, termed>>
clientVars == <<cpc, on>>
boundVars  == <<crashes, faults>>
vars == <<fileVars, kernelVars, rpc, clientVars, boundVars>>

Status    == {"running", "stopped", "exited"}
ConfState == Status \cup {"nodir", "nofile", "empty", "garbage"}
Life      == {"unborn", "alive", "zombie", "reaped"}

RunPC == {"new", "dir", "started", "saving", "waiting", "finalize", "exiting",
          "writing", "done", "failed", "lost", "dead"}
ClientPC == {"idle", "stop_signal", "stop_open", "stop_write",
             "rm_check", "rm_open", "rm_write", "rm_unlink", "rm_rmdir",
             "exec_kill", "exec_enter", "end"}

TypeOK ==
  /\ conf    \in [Runs -> ConfState]
  /\ fds     \in [Runs -> SUBSET (Runs \cup Clients)]
  /\ record  \in [Runs -> Status \cup {"none", "deleted"}]
  /\ owner   \in [Pids -> Runs \cup {None, Foreign}]
  /\ pid     \in [Runs -> Pids \cup {None}]
  /\ life    \in [Runs -> Life]
  /\ termed  \in [Runs -> BOOLEAN]
  /\ rpc     \in [Runs -> RunPC]
  /\ cpc     \in [Clients -> ClientPC]
  /\ on      \in [Clients -> Runs \cup {None}]
  /\ \A k \in Clients : cpc[k] # "idle" => on[k] \in Runs
  /\ crashes \in 0 .. MaxCrashes
  /\ faults  \in 0 .. MaxFaults

-----------------------------------------------------------------------------
(* config.json: os.WriteFile truncates the file when it opens it and writes  *)
(* the new text at offset 0, so two savers can interleave.                   *)

\* The length of the file, as far as it matters: the three texts of one
\* container differ in the status only, and "exited" is one byte shorter.
\* Garbage is a short text followed by the last byte of a long one.
Size(c) == CASE c = "empty"  -> 0
             [] c = "exited" -> 1
             [] OTHER        -> 2

\* The file after the text of status s is written over content c.
Overwrite(c, s) == IF Size(c) <= Size(s) THEN s ELSE "garbage"

\* loadInfo succeeds: config.json exists and is valid JSON.
Readable(r) == conf[r] \in Status

\* Mutant: saveInfo makes the directory when it is missing.
OpenConfigMakesDir(a, r) ==
  /\ conf' = [conf EXCEPT ![r] = "empty"]
  /\ fds'  = [fds EXCEPT ![r] = @ \cup {a}]
  /\ UNCHANGED record

\* os.WriteFile's open: O_CREATE and O_TRUNC, in a directory that must exist.
OpenConfig(a, r) ==
  /\ conf[r] # "nodir"
  /\ conf' = [conf EXCEPT ![r] = "empty"]
  /\ fds'  = [fds EXCEPT ![r] = @ \cup {a}]
  /\ UNCHANGED record

\* os.WriteFile's write and close. A file unlinked since the open takes the
\* text with it.
WriteConfig(a, r, s) ==
  /\ fds' = [fds EXCEPT ![r] = @ \ {a}]
  /\ IF a \in fds[r]
     THEN /\ conf'   = [conf EXCEPT ![r] = Overwrite(@, s)]
          /\ record' = [record EXCEPT ![r] = s]
     ELSE UNCHANGED <<conf, record>>

\* The write fails, or its process is gone: the file stays as truncated.
CloseConfig(a) ==
  /\ fds' = [r \in Runs |-> fds[r] \ {a}]
  /\ UNCHANGED <<conf, record>>

Fault == faults < MaxFaults /\ faults' = faults + 1 /\ UNCHANGED crashes
Crash == crashes < MaxCrashes /\ crashes' = crashes + 1 /\ UNCHANGED faults

-----------------------------------------------------------------------------
(* The kernel's part.                                                       *)

\* kill(pid, 0) succeeds for any process with that pid, zombies included.
Responds(r) == owner[pid[r]] # None

Reap(r) ==
  /\ life'  = [life EXCEPT ![r] = "reaped"]
  /\ owner' = [owner EXCEPT ![pid[r]] = None]
  /\ UNCHANGED <<pid, termed>>

HostAlive(r) == rpc[r] # "dead"

\* A process that ends stays a zombie for its parent to wait for; without a
\* parent the host's init reaps it.
ProcessExits(r) ==
  /\ life[r] = "alive"
  /\ IF HostAlive(r)
     THEN /\ life' = [life EXCEPT ![r] = "zombie"]
          /\ UNCHANGED <<owner, pid, termed>>
     ELSE Reap(r)
  /\ UNCHANGED <<fileVars, rpc, clientVars, boundVars>>

ForeignStarts(p) ==
  /\ owner[p] = None
  /\ owner' = [owner EXCEPT ![p] = Foreign]
  /\ UNCHANGED <<fileVars, pid, life, termed, rpc, clientVars, boundVars>>

ForeignExits(p) ==
  /\ owner[p] = Foreign
  /\ owner' = [owner EXCEPT ![p] = None]
  /\ UNCHANGED <<fileVars, pid, life, termed, rpc, clientVars, boundVars>>

-----------------------------------------------------------------------------
(* Runtime.Run. Networking has its own module: its failures are warnings.   *)

RunGoes(r, from, to) == rpc[r] = from /\ rpc' = [rpc EXCEPT ![r] = to]

\* startContainer makes the container directory.
MakeDir(r) ==
  /\ RunGoes(r, "new", "dir")
  /\ conf' = [conf EXCEPT ![r] = "nofile"]
  /\ UNCHANGED <<fds, record, kernelVars, clientVars, boundVars>>

\* startContainer starts container-init as a child of the host process.
StartProcess(r, p) ==
  /\ RunGoes(r, "dir", "started")
  /\ owner[p] = None
  /\ owner' = [owner EXCEPT ![p] = r]
  /\ pid'   = [pid EXCEPT ![r] = p]
  /\ life'  = [life EXCEPT ![r] = "alive"]
  /\ UNCHANGED <<fileVars, termed, clientVars, boundVars>>

\* Building the command, attaching the logger or starting the process fails:
\* Run returns and leaves the directory behind.
StartFails(r) ==
  /\ RunGoes(r, "dir", "failed")
  /\ Fault
  /\ UNCHANGED <<fileVars, kernelVars, clientVars>>

SaveRunningOpen(r) ==
  /\ RunGoes(r, "started", "saving")
  /\ OpenConfig(r, r)
  /\ UNCHANGED <<kernelVars, clientVars, boundVars>>

\* The first save is complete: from here on Run waits, in a goroutine if
\* detached.
SaveRunningWrite(r) ==
  /\ RunGoes(r, "saving", "waiting")
  /\ WriteConfig(r, r, "running")
  /\ UNCHANGED <<kernelVars, clientVars, boundVars>>

\* saveInfo fails in its open or its write: Run returns the error and nobody
\* waits for the process.
SaveRunningFails(r) ==
  /\ RunGoes(r, "started", "lost") \/ RunGoes(r, "saving", "lost")
  /\ Fault
  /\ CloseConfig(r)
  /\ UNCHANGED <<kernelVars, clientVars>>

\* cmd.Wait returns.
WaitReturns(r) ==
  /\ RunGoes(r, "waiting", IF r \in Detached THEN "finalize" ELSE "exiting")
  /\ life[r] = "zombie"
  /\ Reap(r)
  /\ UNCHANGED <<fileVars, clientVars, boundVars>>

\* waitAndFinalize reads config.json again and gives up when it cannot; a
\* foreground Run keeps the info it has.
LoadForExit(r) ==
  /\ RunGoes(r, "finalize", IF Readable(r) THEN "exiting" ELSE "done")
  /\ UNCHANGED <<fileVars, kernelVars, clientVars, boundVars>>

SaveExitedOpen(r) ==
  /\ RunGoes(r, "exiting", "writing")
  /\ OpenConfig(r, r)
  /\ UNCHANGED <<kernelVars, clientVars, boundVars>>

\* Mutant: the last save writes back the status of the first.
SaveExitedKeepsStatus(r) ==
  /\ RunGoes(r, "writing", "done")
  /\ WriteConfig(r, r, "running")
  /\ UNCHANGED <<kernelVars, clientVars, boundVars>>

SaveExitedWrite(r) ==
  /\ RunGoes(r, "writing", "done")
  /\ WriteConfig(r, r, "exited")
  /\ UNCHANGED <<kernelVars, clientVars, boundVars>>

\* The last save fails, because the container was removed or the system call
\* failed; its error is dropped.
SaveExitedFails(r) ==
  /\ \/ RunGoes(r, "exiting", "done") /\ conf[r] = "nodir" /\ UNCHANGED boundVars
     \/ RunGoes(r, "exiting", "done") /\ Fault
     \/ RunGoes(r, "writing", "done") /\ Fault
  /\ CloseConfig(r)
  /\ UNCHANGED <<kernelVars, clientVars>>

RunStep(r) ==
  \/ MakeDir(r) \/ (\E p \in Pids : StartProcess(r, p)) \/ StartFails(r)
  \/ SaveRunningOpen(r) \/ SaveRunningWrite(r) \/ SaveRunningFails(r)
  \/ WaitReturns(r) \/ LoadForExit(r)
  \/ SaveExitedOpen(r) \/ SaveExitedWrite(r) \/ SaveExitedFails(r)

\* The host process of r is gone: its files are closed, its child orphaned.
HostGone(r) ==
  /\ rpc' = [rpc EXCEPT ![r] = "dead"]
  /\ CloseConfig(r)
  /\ IF life[r] = "zombie" THEN Reap(r) ELSE UNCHANGED kernelVars
  /\ UNCHANGED clientVars

\* Run has returned to the command line tool, whose main calls os.Exit: a
\* detached run takes its waiter goroutine with it, wherever it is.
HostExits(r) ==
  /\ r \notin Embedded
  /\ \/ rpc[r] = "lost"
     \/ r \in Detached /\ rpc[r] \in {"waiting", "finalize", "exiting", "writing"}
  /\ HostGone(r)
  /\ UNCHANGED boundVars

\* The host process is killed.
HostCrashes(r) ==
  /\ rpc[r] \notin {"new", "done", "failed", "dead"}
  /\ HostGone(r)
  /\ Crash

-----------------------------------------------------------------------------
(* stop, rm and exec. ResolveID and loadInfo both read config.json and the   *)
(* second read counts: one step. A command that cannot read it just fails.   *)

ClientGoes(k, from, to) == cpc[k] = from /\ cpc' = [cpc EXCEPT ![k] = to]

Begin(k, r, to) ==
  /\ ClientGoes(k, "idle", to)
  /\ Readable(r)
  /\ on' = [on EXCEPT ![k] = r]
  /\ UNCHANGED <<fileVars, kernelVars, rpc, boundVars>>

\* Stop: the status it reads is not looked at.
BeginStop(k, r) == Begin(k, r, "stop_signal")

\* Mutant: Stop saves its status though it sent no signal.
StopSignalsNobody(k) ==
  /\ ClientGoes(k, "stop_signal", "stop_open")
  /\ UNCHANGED <<fileVars, kernelVars, rpc, on, boundVars>>

\* A signal to a pid without a process fails Stop; to a zombie it has no
\* effect.
StopSignal(k) ==
  LET r == on[k] IN
  /\ ClientGoes(k, "stop_signal", IF Responds(r) THEN "stop_open" ELSE "end")
  /\ termed' = [c \in Runs |->
                  termed[c] \/ (life[c] = "alive" /\ owner[pid[r]] = c)]
  /\ UNCHANGED <<fileVars, owner, pid, life, rpc, on, boundVars>>

StopOpen(k) ==
  /\ ClientGoes(k, "stop_open", "stop_write")
  /\ OpenConfig(k, on[k])
  /\ UNCHANGED <<kernelVars, rpc, on, boundVars>>

StopWrite(k) ==
  /\ ClientGoes(k, "stop_write", "end")
  /\ WriteConfig(k, on[k], "stopped")
  /\ UNCHANGED <<kernelVars, rpc, on, boundVars>>

\* Stop returns the error of its save.
StopFails(k) ==
  /\ \/ ClientGoes(k, "stop_open", "end") /\ conf[on[k]] = "nodir" /\ UNCHANGED boundVars
     \/ ClientGoes(k, "stop_open", "end") /\ Fault
     \/ ClientGoes(k, "stop_write", "end") /\ Fault
  /\ CloseConfig(k)
  /\ UNCHANGED <<kernelVars, rpc, on>>

\* Remove checks the process only of a container whose status is running.
BeginRemove(k, r) ==
  Begin(k, r, IF conf[r] = "running" THEN "rm_check" ELSE "rm_unlink")

\* Mutant: Remove takes every running status for a stale one.
RemoveCheckIgnoresProcess(k) ==
  /\ ClientGoes(k, "rm_check", "rm_open")
  /\ UNCHANGED <<fileVars, kernelVars, rpc, on, boundVars>>

\* A process that responds makes Remove refuse; else the status is stale and
\* is saved as exited first.
RemoveCheck(k) ==
  /\ ClientGoes(k, "rm_check", IF Responds(on[k]) THEN "end" ELSE "rm_open")
  /\ UNCHANGED <<fileVars, kernelVars, rpc, on, boundVars>>

RemoveOpen(k) ==
  /\ ClientGoes(k, "rm_open", "rm_write")
  /\ OpenConfig(k, on[k])
  /\ UNCHANGED <<kernelVars, rpc, on, boundVars>>

RemoveWrite(k) ==
  /\ ClientGoes(k, "rm_write", "rm_unlink")
  /\ WriteConfig(k, on[k], "exited")
  /\ UNCHANGED <<kernelVars, rpc, on, boundVars>>

\* Remove drops the error of that save.
RemoveSaveFails(k) ==
  /\ \/ ClientGoes(k, "rm_open", "rm_unlink") /\ conf[on[k]] = "nodir" /\ UNCHANGED boundVars
     \/ ClientGoes(k, "rm_open", "rm_unlink") /\ Fault
     \/ ClientGoes(k, "rm_write", "rm_unlink") /\ Fault
  /\ CloseConfig(k)
  /\ UNCHANGED <<kernelVars, rpc, on>>

\* os.RemoveAll empties the directory first...
RemoveUnlink(k) ==
  LET r == on[k] IN
  /\ ClientGoes(k, "rm_unlink", "rm_rmdir")
  /\ conf' = [conf EXCEPT ![r] = IF @ = "nodir" THEN "nodir" ELSE "nofile"]
  /\ fds'  = [fds EXCEPT ![r] = {}]
  /\ UNCHANGED <<record, kernelVars, rpc, on, boundVars>>

\* ... then removes it, which fails if a saver has made config.json again.
RemoveRmdir(k) ==
  LET r == on[k] IN
  /\ ClientGoes(k, "rm_rmdir", "end")
  /\ IF conf[r] = "nofile"
     THEN /\ conf'   = [conf EXCEPT ![r] = "nodir"]
          /\ record' = [record EXCEPT ![r] = "deleted"]
     ELSE UNCHANGED <<conf, record>>
  /\ UNCHANGED <<fds, kernelVars, rpc, on, boundVars>>

\* Exec looks at the status, then at the process, then lets nsenter look up
\* the pid again.
BeginExec(k, r) == conf[r] = "running" /\ Begin(k, r, "exec_kill")

ExecKill(k) ==
  /\ ClientGoes(k, "exec_kill", IF Responds(on[k]) THEN "exec_enter" ELSE "end")
  /\ UNCHANGED <<fileVars, kernelVars, rpc, on, boundVars>>

ExecEnter(k) ==
  /\ ClientGoes(k, "exec_enter", "end")
  /\ UNCHANGED <<fileVars, kernelVars, rpc, on, boundVars>>

ClientStep(k) ==
  \/ StopSignal(k) \/ StopOpen(k) \/ StopWrite(k) \/ StopFails(k)
  \/ RemoveCheck(k) \/ RemoveOpen(k) \/ RemoveWrite(k) \/ RemoveSaveFails(k)
  \/ RemoveUnlink(k) \/ RemoveRmdir(k)
  \/ ExecKill(k) \/ ExecEnter(k)

\* The invocation is killed.
ClientCrashes(k) ==
  /\ cpc[k] \notin {"idle", "end"}
  /\ cpc' = [cpc EXCEPT ![k] = "end"]
  /\ CloseConfig(k)
  /\ Crash
  /\ UNCHANGED <<kernelVars, rpc, on>>

-----------------------------------------------------------------------------
Init ==
  /\ conf    = [r \in Runs |-> "nodir"]
  /\ fds     = [r \in Runs |-> {}]
  /\ record  = [r \in Runs |-> "none"]
  /\ owner   = [p \in Pids |-> None]
  /\ pid     = [r \in Runs |-> None]
  /\ life    = [r \in Runs |-> "unborn"]
  /\ termed  = [r \in Runs |-> FALSE]
  /\ rpc     = [r \in Runs |-> "new"]
  /\ cpc     = [k \in Clients |-> "idle"]
  /\ on      = [k \in Clients |-> None]
  /\ crashes = 0
  /\ faults  = 0

Next ==
  \/ \E r \in Runs : RunStep(r) \/ ProcessExits(r) \/ HostExits(r) \/ HostCrashes(r)
  \/ \E k \in Clients, r \in Runs : BeginStop(k, r) \/ BeginRemove(k, r) \/ BeginExec(k, r)
  \/ \E k \in Clients : ClientStep(k) \/ ClientCrashes(k)
  \/ \E p \in ForeignPids : ForeignStarts(p) \/ ForeignExits(p)

Spec == Init /\ [][Next]_vars

\* An invocation that has begun keeps running, and os.Exit follows Run's
\* return; when the workload ends and what users type is left open.
Fairness ==
  /\ \A r \in Runs : WF_vars(RunStep(r)) /\ WF_vars(HostExits(r))
  /\ \A k \in Clients : WF_vars(ClientStep(k))

FairSpec == Spec /\ Fairness

-----------------------------------------------------------------------------
(* Properties.                                                              *)

\* A status of exited is never wrong: whoever saved it, the run that waited or
\* an rm that found a stale status, the process is gone for good.
ExitedIsDead == \A r \in Runs : conf[r] = "exited" => life[r] = "reaped"

\* A live container stays visible as long as no system call fails and no
\* invocation is killed: while its run waits for it, nobody is saving its
\* config.json and no rm has begun to empty its directory, config.json can be
\* read.
LiveIsReadable ==
  \A r \in Runs :
    /\ crashes = 0 /\ faults = 0
    /\ life[r] = "alive" /\ rpc[r] = "waiting" /\ fds[r] = {}
    => conf[r] \in {"running", "stopped", "nofile", "nodir"}

\* The container's process is dead or was sent SIGTERM.
Released(r) == life[r] \in {"zombie", "reaped"} \/ termed[r]

\* The metadata of a container is final or deleted only once its process is
\* released, whatever the order of stop, rm, exit and crash.
FinalOnlyWhenReleased ==
  \A r \in Runs : record[r] \in {"stopped", "exited", "deleted"} => Released(r)

\* A container removed by rm does not come back: a save that was under way,
\* of a stop or of the run itself, does not recreate its directory.
RemovedStaysRemoved ==
  [][\A r \in Runs : record[r] = "deleted" => conf'[r] = "nodir"]_vars

\* The runtime implements the abstract lifecycle.
LifecycleOf == INSTANCE Lifecycle WITH
  process <- [r \in Runs |-> IF life[r] \in {"zombie", "reaped"} THEN "dead" ELSE life[r]]

ImplementsLifecycle == LifecycleOf!LSpec

\* The death of a container's process is recorded: from some time after it on,
\* config.json does not say running.
DeathIsRecorded ==
  \A r \in Runs : life[r] \in {"zombie", "reaped"} ~> [](conf[r] # "running")

-----------------------------------------------------------------------------
(* The inductive invariant: why the properties above hold.                  *)

\* A process that was not waited for keeps its pid.
PidIsHeld ==
  \A r \in Runs : /\ pid[r] = None <=> life[r] = "unborn"
                  /\ life[r] \in {"alive", "zombie"} => owner[pid[r]] = r

\* How far a run has come fixes what can be true of its process and record.
PhaseFixes ==
  \A r \in Runs :
    /\ rpc[r] \in {"new", "dir", "failed"} => life[r] = "unborn"
    /\ rpc[r] \in {"started", "saving", "lost"} => life[r] # "unborn"
    /\ rpc[r] \in {"waiting", "finalize", "exiting", "writing", "done"} => record[r] # "none"
    /\ rpc[r] \in {"finalize", "exiting", "writing", "done"} => life[r] = "reaped"
    /\ rpc[r] = "saving" => r \in fds[r]
    /\ rpc[r] = "new" => conf[r] = "nodir"
    /\ rpc[r] \in {"new", "dir", "started", "saving", "failed", "lost"} => record[r] = "none"

\* What a readable config.json says is the last complete save; a missing one
\* is open to nobody.
RecordIsOfFile ==
  \A r \in Runs :
    /\ conf[r] \in Status => record[r] = conf[r]
    /\ conf[r] \in {"nodir", "nofile"} => fds[r] = {}
    /\ record[r] = "none" => conf[r] \in {"nodir", "nofile", "empty"}
    /\ record[r] = "deleted" => conf[r] = "nodir"

\* What must be true of a process before each status is recorded.
RecordIsJustified ==
  \A r \in Runs :
    /\ record[r] # "none" => life[r] # "unborn"
    /\ record[r] = "exited" => life[r] = "reaped"
    /\ record[r] \in {"stopped", "deleted"} => Released(r)

\* What a client has found out about its container stays true while it acts on it.
ClientIsJustified ==
  \A k \in Clients :
    /\ cpc[k] \notin {"idle", "end"} => record[on[k]] # "none"
    /\ cpc[k] \in {"stop_open", "stop_write", "rm_unlink", "rm_rmdir"} => Released(on[k])
    /\ cpc[k] \in {"rm_open", "rm_write"} => life[on[k]] = "reaped"
    /\ cpc[k] \in {"rm_unlink", "rm_rmdir"} /\ record[on[k]] = "running"
         => life[on[k]] = "reaped"

RecordInv ==
  /\ TypeOK
  /\ PidIsHeld /\ PhaseFixes /\ RecordIsOfFile /\ RecordIsJustified /\ ClientIsJustified

\* Who has config.json open: the run in one of its two saves, or a client in its own.
WritersAreSaving ==
  \A r \in Runs : \A a \in fds[r] :
    \/ a = r /\ rpc[r] \in {"saving", "writing"}
    \/ a \in Clients /\ on[a] = r /\ cpc[a] \in {"stop_write", "rm_write"}

\* Until the process was waited for, only a failing call or a kill leaves the file
\* truncated: each save that has truncated it is still to write it.
EmptyIsBeingSaved ==
  crashes = 0 /\ faults = 0 =>
    \A r \in Runs : /\ rpc[r] # "lost"
                    /\ life[r] # "reaped" /\ conf[r] = "empty" => fds[r] # {}

\* A text ends in the rest of a longer one only if exited was written over it.
GarbageIsOfDead == \A r \in Runs : conf[r] = "garbage" => life[r] = "reaped"

TextInv == WritersAreSaving /\ EmptyIsBeingSaved /\ GarbageIsOfDead

IInv == RecordInv /\ TextInv

-----------------------------------------------------------------------------
(* Claims of the documents, which interleavings of the code refute.         *)

\* README: container metadata is JSON. When nobody is saving it, it is.
ConfigIsJson == \A r \in Runs : fds[r] = {} => conf[r] \notin {"empty", "garbage"}

\* README: rm refuses a container whose PID still responds to signal 0.
RemoveRefusesLive ==
  [][\A r \in Runs : record[r] # "deleted" /\ record'[r] = "deleted"
                         => life[r] # "alive"]_vars

\* README, state diagram: the only way out of exited is rm.
ExitedIsFinal ==
  [][\A r \in Runs : record[r] = "exited" => record'[r] \in {"exited", "deleted"}]_vars

\* container.go: Stop sends SIGTERM to a running container. The process that
\* gets the signal is that container's.
StopSignalsItsContainer ==
  [][\A k \in Clients : cpc[k] = "stop_signal" /\ cpc'[k] = "stop_open"
                            => owner[pid[on[k]]] = on[k]]_vars

\* container.go: Exec runs a command inside a running container's namespaces.
\* The process nsenter finds is not that of something else.
ExecEntersItsContainer ==
  [][\A k \in Clients : cpc[k] = "exec_enter" /\ cpc'[k] = "end"
                            => owner[pid[on[k]]] \in {on[k], None}]_vars
=============================================================================
