---------------------------- MODULE ContainerInit ----------------------------
(***************************************************************************)
(* container-init (cmd/container-init/main.go): from the exec of the       *)
(* helper to its exit. Its main goroutine prepares the rootfs, starts the   *)
(* workload and waits for children; a second goroutine forwards the signals *)
(* the Go runtime puts into a channel of length one.                       *)
(***************************************************************************)
EXTENDS Naturals, Sequences

CONSTANTS
  Workload, \* the process of the container's command
  Orphans,  \* processes it leaves behind for init to adopt
  Signals,  \* the signals init is sent: SIGINT is 2, SIGTERM is 15
  Codes,    \* the exit codes of processes
  Killed,   \* what init leaves instead of an exit code when a signal ends it
  Starting, \* the forwarder has not begun to run
  None

ASSUME InitAssumption ==
  /\ Workload \notin Orphans
  /\ Signals \subseteq 1 .. 127 /\ Codes \subseteq 0 .. 255
  /\ {None, Killed, Starting} \cap Nat = {}

VARIABLES
  hostPID,  \* --pid=host: init is not process 1 of a namespace of its own
  phase,    \* where the main goroutine is
  code,     \* the code init exited with
  proc,     \* the state of each process
  status,   \* how each process ended: with a code or by a signal
  queued,   \* the signals the Go runtime has caught and not yet sent on
  sigCh,    \* the channel
  hand,     \* the forwarder: Starting, None when idle, or the signal it holds
  got,      \* the signals the workload was sent
  asked     \* history: the signals init was sent once it handled signals

signalVars == <<queued, sigCh, hand, got, asked>>
vars == <<hostPID, phase, code, proc, status, signalVars>>

Processes == {Workload} \cup Orphans
Status    == [signaled : {FALSE}, value : Codes] \cup [signaled : {TRUE}, value : Signals]

InitPhase == {"exec", "setup", "start", "notify", "wait", "exited"}

-----------------------------------------------------------------------------
\* Init is gone: the kernel kills what else is in its PID namespace.
ExitWith(c) ==
  /\ phase' = "exited"
  /\ code'  = c
  /\ IF hostPID THEN UNCHANGED proc
     ELSE proc' = [p \in Processes |-> IF proc[p] = "unborn" THEN "unborn" ELSE "gone"]

Goes(from, to) == phase = from /\ phase' = to

\* The Go runtime starts and installs its signal handlers.
Boot ==
  /\ Goes("exec", "setup")
  /\ UNCHANGED <<hostPID, code, proc, status, signalVars>>

\* PrepareRootfs and SetNoNewPrivileges.
Setup ==
  /\ \/ Goes("setup", "start") /\ UNCHANGED <<code, proc>>
     \/ phase = "setup" /\ ExitWith(1)
  /\ UNCHANGED <<hostPID, status, signalVars>>

Start ==
  /\ \/ /\ Goes("start", "notify")
        /\ proc' = [proc EXCEPT ![Workload] = "alive"]
        /\ UNCHANGED code
     \/ phase = "start" /\ ExitWith(1)
  /\ UNCHANGED <<hostPID, status, signalVars>>

\* signal.Notify; the forwarder is created and runs some time later.
Notify ==
  /\ Goes("notify", "wait")
  /\ UNCHANGED <<hostPID, code, proc, status, signalVars>>

ForwarderRuns ==
  /\ phase = "wait" /\ hand = Starting
  /\ hand' = None
  /\ UNCHANGED <<hostPID, phase, code, proc, status, queued, sigCh, got, asked>>

\* Mutant: the status of any child is taken for that of the workload.
ReapEndsWithAnyChild(p) ==
  /\ phase = "wait" /\ proc[p] = "zombie"
  /\ ExitWith(IF status[p].signaled THEN 128 + status[p].value ELSE status[p].value)
  /\ UNCHANGED <<hostPID, status, signalVars>>

\* Mutant: init waits for the workload only.
ReapWorkloadOnly(p) ==
  /\ p = Workload
  /\ phase = "wait" /\ proc[p] = "zombie"
  /\ ExitWith(IF status[p].signaled THEN 128 + status[p].value ELSE status[p].value)
  /\ UNCHANGED <<hostPID, status, signalVars>>

\* Wait4(-1) returns some child that has ended. The workload's end is init's.
Reap(p) ==
  /\ phase = "wait" /\ proc[p] = "zombie"
  /\ IF p = Workload
     THEN ExitWith(IF status[p].signaled THEN 128 + status[p].value ELSE status[p].value)
     ELSE proc' = [proc EXCEPT ![p] = "gone"] /\ UNCHANGED <<phase, code>>
  /\ UNCHANGED <<hostPID, status, signalVars>>

-----------------------------------------------------------------------------
(* Signals.                                                                 *)

\* A signal comes. Before the runtime has its handlers process 1 of a namespace
\* ignores it and any other process dies; from then on until Notify the runtime
\* ends init; after it the runtime queues the signal, once.
SignalArrives(s) ==
  /\ phase # "exited"
  /\ IF phase = "wait"
     THEN queued' = queued \cup {s} /\ UNCHANGED <<phase, code, proc>>
     ELSE /\ UNCHANGED queued
          /\ IF hostPID THEN ExitWith(Killed)
             ELSE IF phase = "exec" THEN UNCHANGED <<phase, code, proc>>
             ELSE ExitWith(2)
  /\ asked' = IF phase = "exec" THEN asked ELSE asked \cup {s}
  /\ UNCHANGED <<hostPID, status, sigCh, hand, got>>

\* Mutant: the channel has no buffer, and the forwarder may not be there yet.
DispatchUnbuffered(s) ==
  /\ phase = "wait" /\ s \in queued
  /\ queued' = queued \ {s}
  /\ hand'   = IF hand = None THEN s ELSE hand
  /\ UNCHANGED <<hostPID, phase, code, proc, status, sigCh, got, asked>>

\* The runtime sends the signal to the channel, or drops it if that is full.
Dispatch(s) ==
  /\ phase = "wait" /\ s \in queued
  /\ queued' = queued \ {s}
  /\ sigCh'  = IF sigCh = <<>> THEN <<s>> ELSE sigCh
  /\ UNCHANGED <<hostPID, phase, code, proc, status, hand, got, asked>>

Take ==
  /\ phase = "wait" /\ hand = None /\ sigCh # <<>>
  /\ hand'  = Head(sigCh)
  /\ sigCh' = Tail(sigCh)
  /\ UNCHANGED <<hostPID, phase, code, proc, status, queued, got, asked>>

\* cmd.Process.Signal
Forward ==
  /\ phase = "wait" /\ hand \in Signals
  /\ hand' = None
  /\ got'  = IF proc[Workload] = "alive" THEN got \cup {hand} ELSE got
  /\ UNCHANGED <<hostPID, phase, code, proc, status, queued, sigCh, asked>>

-----------------------------------------------------------------------------
(* The other processes. Those that are orphaned in the host's PID namespace *)
(* are adopted by the host's init.                                          *)

Adopt(p) ==
  /\ ~hostPID /\ phase # "exited"
  /\ proc[p] = "unborn" /\ proc[Workload] = "alive"
  /\ proc' = [proc EXCEPT ![p] = "alive"]
  /\ UNCHANGED <<hostPID, phase, code, status, signalVars>>

\* A process ends: with a code, or by a signal, which may be one it was sent.
ProcessEnds(p, how) ==
  /\ proc[p] = "alive"
  /\ proc'   = [proc EXCEPT ![p] = IF phase = "exited" THEN "gone" ELSE "zombie"]
  /\ status' = [status EXCEPT ![p] = how]
  /\ UNCHANGED <<hostPID, phase, code, signalVars>>

Init ==
  /\ hostPID \in BOOLEAN
  /\ phase  = "exec"
  /\ code   = None
  /\ proc   = [p \in Processes |-> "unborn"]
  /\ status = [p \in Processes |-> None]
  /\ queued = {} /\ sigCh = <<>> /\ hand = Starting
  /\ got = {} /\ asked = {}

Main      == Boot \/ Setup \/ Start \/ Notify \/ \E p \in Processes : Reap(p)
Forwarder == ForwarderRuns \/ Take \/ Forward
Runtime   == \E s \in Signals : Dispatch(s)

Next ==
  \/ Main \/ Forwarder \/ Runtime
  \/ \E s \in Signals : SignalArrives(s)
  \/ \E p \in Orphans : Adopt(p)
  \/ \E p \in Processes, how \in Status : ProcessEnds(p, how)

Spec == Init /\ [][Next]_vars

\* The goroutines are scheduled; when processes end is left open.
FairSpec == Spec /\ WF_vars(Main) /\ WF_vars(Forwarder) /\ WF_vars(Runtime)

-----------------------------------------------------------------------------
(* Properties.                                                              *)

TypeOK ==
  /\ hostPID \in BOOLEAN
  /\ phase  \in InitPhase
  /\ code   \in 0 .. 255 \cup {Killed, None}
  /\ proc   \in [Processes -> {"unborn", "alive", "zombie", "gone"}]
  /\ status \in [Processes -> Status \cup {None}]
  /\ queued \subseteq Signals
  /\ sigCh  \in {<<>>} \cup {<<s>> : s \in Signals}
  /\ hand   \in Signals \cup {Starting, None}
  /\ got    \subseteq Signals
  /\ asked  \subseteq Signals

\* Once init waits it ends only after the workload has, and its exit code tells
\* how the workload ended, whatever other children and signals come before.
ExitTellsWorkload ==
  [][phase = "wait" /\ phase' = "exited" =>
       /\ proc[Workload] = "zombie"
       /\ code' = status[Workload].value + IF status[Workload].signaled THEN 128 ELSE 0]_vars

\* No orphan stays a zombie, even if the workload never ends.
OrphansAreReaped == \A p \in Orphans : proc[p] = "zombie" ~> proc[p] = "gone"

\* A signal sent to init, whatever goroutine is where and however many signals
\* come together, does not get lost without any effect: the workload is sent
\* one, or has ended, or never starts.
SignalHasEffect ==
  asked # {} ~> got # {} \/ proc[Workload] \in {"zombie", "gone"} \/ phase = "exited"

\* README: a container that exited is one whose process finished; nothing of it
\* keeps running once init is gone.
WorkloadEndsWithInit == phase = "exited" => proc[Workload] # "alive"
=============================================================================
