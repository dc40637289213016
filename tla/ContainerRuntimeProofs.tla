------------------------ MODULE ContainerRuntimeProofs ------------------------
(***************************************************************************)
(* The safety properties of ContainerRuntime for any set of runs, clients  *)
(* and pids, any number of crashes and failing system calls.               *)
(***************************************************************************)
EXTENDS ContainerRuntime, TLAPS

LEMMA OverwriteFile ==
  ASSUME NEW c \in ConfState, NEW s \in Status
  PROVE  Overwrite(c, s) \in {s, "garbage"}
BY DEF Overwrite

-----------------------------------------------------------------------------
(* Type correctness.                                                        *)

LEMMA WriteConfigType ==
  ASSUME TypeOK, NEW a \in Runs \cup Clients, NEW r \in Runs, NEW s \in Status,
         WriteConfig(a, r, s)
  PROVE  /\ conf'   \in [Runs -> ConfState]
         /\ fds'    \in [Runs -> SUBSET (Runs \cup Clients)]
         /\ record' \in [Runs -> Status \cup {"none", "deleted"}]
BY OverwriteFile DEF WriteConfig, TypeOK, ConfState, Status, Overwrite

LEMMA OpenConfigType ==
  ASSUME TypeOK, NEW a \in Runs \cup Clients, NEW r \in Runs, OpenConfig(a, r)
  PROVE  /\ conf'   \in [Runs -> ConfState]
         /\ fds'    \in [Runs -> SUBSET (Runs \cup Clients)]
         /\ record' \in [Runs -> Status \cup {"none", "deleted"}]
BY DEF OpenConfig, TypeOK, ConfState

LEMMA CloseConfigType ==
  ASSUME TypeOK, NEW a \in Runs \cup Clients, CloseConfig(a)
  PROVE  /\ conf'   \in [Runs -> ConfState]
         /\ fds'    \in [Runs -> SUBSET (Runs \cup Clients)]
         /\ record' \in [Runs -> Status \cup {"none", "deleted"}]
BY DEF CloseConfig, TypeOK

LEMMA ReapType ==
  ASSUME TypeOK, NEW r \in Runs, Reap(r)
  PROVE  /\ owner'  \in [Pids -> Runs \cup {None, Foreign}]
         /\ pid'    \in [Runs -> Pids \cup {None}]
         /\ life'   \in [Runs -> Life]
         /\ termed' \in [Runs -> BOOLEAN]
BY DEF Reap, TypeOK, Life

LEMMA FaultType ==
  ASSUME TypeOK, Fault PROVE faults' \in 0 .. MaxFaults /\ crashes' = crashes
BY ConstantsAssumption DEF Fault, TypeOK, ConstantsAssumption

LEMMA CrashType ==
  ASSUME TypeOK, Crash PROVE crashes' \in 0 .. MaxCrashes /\ faults' = faults
BY ConstantsAssumption DEF Crash, TypeOK, ConstantsAssumption

LEMMA TypeInit == ASSUME Init PROVE TypeOK
BY ConstantsAssumption DEF ConstantsAssumption, Init, TypeOK, ConfState, Status, Life, RunPC, ClientPC

LEMMA TypeStep == ASSUME TypeOK, [Next]_vars PROVE TypeOK'
<1> USE DEF fileVars, kernelVars, clientVars, boundVars
<1>1. ASSUME NEW r \in Runs, MakeDir(r) PROVE TypeOK'
  BY <1>1 DEF MakeDir, RunGoes, RunPC, ConfState, TypeOK
<1>2. ASSUME NEW r \in Runs, StartFails(r) PROVE TypeOK'
  BY <1>2, FaultType DEF StartFails, RunGoes, RunPC, TypeOK
<1>3. ASSUME NEW r \in Runs, SaveRunningOpen(r) PROVE TypeOK'
  BY <1>3, OpenConfigType DEF SaveRunningOpen, RunGoes, RunPC, TypeOK
<1>4. ASSUME NEW r \in Runs, SaveRunningWrite(r) PROVE TypeOK'
  BY <1>4, WriteConfigType DEF SaveRunningWrite, RunGoes, RunPC, Status, TypeOK
<1>5. ASSUME NEW r \in Runs, SaveRunningFails(r) PROVE TypeOK'
  BY <1>5, CloseConfigType, FaultType DEF SaveRunningFails, RunGoes, RunPC, TypeOK
<1>6. ASSUME NEW r \in Runs, WaitReturns(r) PROVE TypeOK'
  BY <1>6, ReapType DEF WaitReturns, RunGoes, RunPC, TypeOK
<1>7. ASSUME NEW r \in Runs, LoadForExit(r) PROVE TypeOK'
  BY <1>7 DEF LoadForExit, RunGoes, RunPC, TypeOK
<1>8. ASSUME NEW r \in Runs, SaveExitedOpen(r) PROVE TypeOK'
  BY <1>8, OpenConfigType DEF SaveExitedOpen, RunGoes, RunPC, TypeOK
<1>9. ASSUME NEW r \in Runs, SaveExitedWrite(r) PROVE TypeOK'
  BY <1>9, WriteConfigType DEF SaveExitedWrite, RunGoes, RunPC, Status, TypeOK
<1>10. ASSUME NEW r \in Runs, SaveExitedFails(r) PROVE TypeOK'
  BY <1>10, CloseConfigType, FaultType DEF SaveExitedFails, RunGoes, RunPC, TypeOK
<1>11. ASSUME NEW r \in Runs, NEW p \in Pids, StartProcess(r, p) PROVE TypeOK'
  BY <1>11 DEF StartProcess, RunGoes, RunPC, Life, TypeOK
<1>12. ASSUME NEW r \in Runs, ProcessExits(r) PROVE TypeOK'
  BY <1>12, ReapType DEF ProcessExits, Life, TypeOK
<1>13. ASSUME NEW r \in Runs, HostGone(r), crashes' \in 0 .. MaxCrashes, faults' \in 0 .. MaxFaults
       PROVE  TypeOK'
  BY <1>13, ReapType, CloseConfigType DEF HostGone, RunPC, TypeOK
<1>14. ASSUME NEW r \in Runs, HostExits(r) PROVE TypeOK'
  BY <1>14, <1>13 DEF HostExits, TypeOK
<1>15. ASSUME NEW r \in Runs, HostCrashes(r) PROVE TypeOK'
  BY <1>15, <1>13, CrashType DEF HostCrashes, TypeOK
<1>16. ASSUME NEW k \in Clients, NEW r \in Runs, BeginStop(k, r) PROVE TypeOK'
  BY <1>16 DEF BeginStop, Begin, ClientGoes, ClientPC, TypeOK
<1>17. ASSUME NEW k \in Clients, NEW r \in Runs, BeginRemove(k, r) PROVE TypeOK'
  BY <1>17 DEF BeginRemove, Begin, ClientGoes, ClientPC, TypeOK
<1>18. ASSUME NEW k \in Clients, NEW r \in Runs, BeginExec(k, r) PROVE TypeOK'
  BY <1>18 DEF BeginExec, Begin, ClientGoes, ClientPC, TypeOK
<1>19. ASSUME NEW k \in Clients, StopSignal(k) PROVE TypeOK'
  BY <1>19 DEF StopSignal, ClientGoes, ClientPC, Responds, TypeOK
<1>20. ASSUME NEW k \in Clients, StopOpen(k) PROVE TypeOK'
  BY <1>20, OpenConfigType DEF StopOpen, ClientGoes, ClientPC, TypeOK
<1>21. ASSUME NEW k \in Clients, StopWrite(k) PROVE TypeOK'
  BY <1>21, WriteConfigType DEF StopWrite, ClientGoes, ClientPC, Status, TypeOK
<1>22. ASSUME NEW k \in Clients, StopFails(k) PROVE TypeOK'
  BY <1>22, CloseConfigType, FaultType DEF StopFails, ClientGoes, ClientPC, TypeOK
<1>23. ASSUME NEW k \in Clients, RemoveCheck(k) PROVE TypeOK'
  BY <1>23 DEF RemoveCheck, ClientGoes, ClientPC, Responds, TypeOK
<1>24. ASSUME NEW k \in Clients, RemoveOpen(k) PROVE TypeOK'
  BY <1>24, OpenConfigType DEF RemoveOpen, ClientGoes, ClientPC, TypeOK
<1>25. ASSUME NEW k \in Clients, RemoveWrite(k) PROVE TypeOK'
  BY <1>25, WriteConfigType DEF RemoveWrite, ClientGoes, ClientPC, Status, TypeOK
<1>26. ASSUME NEW k \in Clients, RemoveSaveFails(k) PROVE TypeOK'
  BY <1>26, CloseConfigType, FaultType DEF RemoveSaveFails, ClientGoes, ClientPC, TypeOK
<1>27. ASSUME NEW k \in Clients, RemoveUnlink(k) PROVE TypeOK'
  BY <1>27 DEF RemoveUnlink, ClientGoes, ClientPC, ConfState, TypeOK
<1>28. ASSUME NEW k \in Clients, RemoveRmdir(k) PROVE TypeOK'
  BY <1>28 DEF RemoveRmdir, ClientGoes, ClientPC, ConfState, TypeOK
<1>29. ASSUME NEW k \in Clients, ExecKill(k) PROVE TypeOK'
  BY <1>29 DEF ExecKill, ClientGoes, ClientPC, Responds, TypeOK
<1>30. ASSUME NEW k \in Clients, ExecEnter(k) PROVE TypeOK'
  BY <1>30 DEF ExecEnter, ClientGoes, ClientPC, TypeOK
<1>31. ASSUME NEW k \in Clients, ClientCrashes(k) PROVE TypeOK'
  BY <1>31, CloseConfigType, CrashType DEF ClientCrashes, ClientPC, TypeOK
<1>32. ASSUME NEW p \in Pids, ForeignStarts(p) PROVE TypeOK'
  BY <1>32 DEF ForeignStarts, TypeOK
<1>33. ASSUME NEW p \in Pids, ForeignExits(p) PROVE TypeOK'
  BY <1>33 DEF ForeignExits, TypeOK
<1>34. CASE UNCHANGED vars
  BY <1>34 DEF vars, TypeOK
<1> QED
  BY <1>1, <1>2, <1>3, <1>4, <1>5, <1>6, <1>7, <1>8, <1>9, <1>10, <1>11, <1>12, <1>13, <1>14, <1>15, <1>16, <1>17, <1>18, <1>19, <1>20, <1>21, <1>22, <1>23, <1>24, <1>25, <1>26, <1>27, <1>28, <1>29, <1>30, <1>31, <1>32, <1>33, <1>34, ConstantsAssumption
     DEF Next, RunStep, ClientStep, ConstantsAssumption

-----------------------------------------------------------------------------
(* The inductive invariant.                                                 *)

LEMMA InvInit == ASSUME Init PROVE RecordInv
BY TypeInit, ConstantsAssumption
   DEF Init, RecordInv, PidIsHeld, PhaseFixes, RecordIsOfFile, RecordIsJustified,
       ClientIsJustified, Status, ConstantsAssumption

LEMMA InvStep == ASSUME RecordInv, [Next]_vars PROVE RecordInv'
<1> USE DEF fileVars, kernelVars, clientVars, boundVars, Status, Released, Life
<1>0. TypeOK /\ TypeOK'
  BY TypeStep DEF RecordInv
<1>i. /\ None \notin Runs \cup Pids
      /\ Foreign \notin Runs \cup {None}
      /\ ForeignPids \subseteq Pids
      /\ Runs \cap Clients = {}
  BY ConstantsAssumption DEF ConstantsAssumption
<1>1. ASSUME NEW r \in Runs, MakeDir(r) PROVE RecordInv'
  BY <1>1, <1>0, <1>i DEF MakeDir, RunGoes,
    RecordInv, PidIsHeld, PhaseFixes, RecordIsOfFile, RecordIsJustified, ClientIsJustified, TypeOK
<1>2. ASSUME NEW r \in Runs, StartFails(r) PROVE RecordInv'
  BY <1>2, <1>0, <1>i DEF StartFails, RunGoes,
    RecordInv, PidIsHeld, PhaseFixes, RecordIsOfFile, RecordIsJustified, ClientIsJustified, TypeOK
<1>3. ASSUME NEW r \in Runs, SaveRunningOpen(r) PROVE RecordInv'
  BY <1>3, <1>0, <1>i DEF SaveRunningOpen, RunGoes, OpenConfig,
    RecordInv, PidIsHeld, PhaseFixes, RecordIsOfFile, RecordIsJustified, ClientIsJustified, TypeOK
<1>4. ASSUME NEW r \in Runs, SaveRunningWrite(r) PROVE RecordInv'
  BY <1>4, <1>0, <1>i DEF SaveRunningWrite, RunGoes, WriteConfig, Overwrite, Size,
    RecordInv, PidIsHeld, PhaseFixes, RecordIsOfFile, RecordIsJustified, ClientIsJustified, TypeOK
<1>5. ASSUME NEW r \in Runs, SaveRunningFails(r) PROVE RecordInv'
  BY <1>5, <1>0, <1>i DEF SaveRunningFails, RunGoes, CloseConfig,
    RecordInv, PidIsHeld, PhaseFixes, RecordIsOfFile, RecordIsJustified, ClientIsJustified, TypeOK
<1>6. ASSUME NEW r \in Runs, WaitReturns(r) PROVE RecordInv'
  BY <1>6, <1>0, <1>i DEF WaitReturns, RunGoes, Reap,
    RecordInv, PidIsHeld, PhaseFixes, RecordIsOfFile, RecordIsJustified, ClientIsJustified, TypeOK
<1>7. ASSUME NEW r \in Runs, LoadForExit(r) PROVE RecordInv'
  BY <1>7, <1>0, <1>i DEF LoadForExit, RunGoes, Readable,
    RecordInv, PidIsHeld, PhaseFixes, RecordIsOfFile, RecordIsJustified, ClientIsJustified, TypeOK
<1>8. ASSUME NEW r \in Runs, SaveExitedOpen(r) PROVE RecordInv'
  BY <1>8, <1>0, <1>i DEF SaveExitedOpen, RunGoes, OpenConfig,
    RecordInv, PidIsHeld, PhaseFixes, RecordIsOfFile, RecordIsJustified, ClientIsJustified, TypeOK
<1>9. ASSUME NEW r \in Runs, SaveExitedWrite(r) PROVE RecordInv'
  BY <1>9, <1>0, <1>i DEF SaveExitedWrite, RunGoes, WriteConfig, Overwrite, Size,
    RecordInv, PidIsHeld, PhaseFixes, RecordIsOfFile, RecordIsJustified, ClientIsJustified, TypeOK
<1>10. ASSUME NEW r \in Runs, SaveExitedFails(r) PROVE RecordInv'
  BY <1>10, <1>0, <1>i DEF SaveExitedFails, RunGoes, CloseConfig,
    RecordInv, PidIsHeld, PhaseFixes, RecordIsOfFile, RecordIsJustified, ClientIsJustified, TypeOK
<1>11. ASSUME NEW r \in Runs, NEW p \in Pids, StartProcess(r, p) PROVE RecordInv'
  BY <1>11, <1>0, <1>i DEF StartProcess, RunGoes,
    RecordInv, PidIsHeld, PhaseFixes, RecordIsOfFile, RecordIsJustified, ClientIsJustified, TypeOK
<1>12. ASSUME NEW r \in Runs, ProcessExits(r) PROVE RecordInv'
  BY <1>12, <1>0, <1>i DEF ProcessExits, Reap, HostAlive,
    RecordInv, PidIsHeld, PhaseFixes, RecordIsOfFile, RecordIsJustified, ClientIsJustified, TypeOK
<1>13. ASSUME NEW r \in Runs, HostGone(r), rpc[r] \notin {"new", "failed"} PROVE RecordInv'
  BY <1>13, <1>0, <1>i DEF HostGone, CloseConfig, Reap,
    RecordInv, PidIsHeld, PhaseFixes, RecordIsOfFile, RecordIsJustified, ClientIsJustified, TypeOK
<1>14. ASSUME NEW r \in Runs, HostExits(r) PROVE RecordInv'
  BY <1>14, <1>13 DEF HostExits
<1>15. ASSUME NEW r \in Runs, HostCrashes(r) PROVE RecordInv'
  BY <1>15, <1>13 DEF HostCrashes
<1>16. ASSUME NEW k \in Clients, NEW r \in Runs, BeginStop(k, r) PROVE RecordInv'
  BY <1>16, <1>0, <1>i DEF BeginStop, Begin, ClientGoes, Readable,
    RecordInv, PidIsHeld, PhaseFixes, RecordIsOfFile, RecordIsJustified, ClientIsJustified, TypeOK
<1>17. ASSUME NEW k \in Clients, NEW r \in Runs, BeginRemove(k, r) PROVE RecordInv'
  BY <1>17, <1>0, <1>i DEF BeginRemove, Begin, ClientGoes, Readable,
    RecordInv, PidIsHeld, PhaseFixes, RecordIsOfFile, RecordIsJustified, ClientIsJustified, TypeOK
<1>18. ASSUME NEW k \in Clients, NEW r \in Runs, BeginExec(k, r) PROVE RecordInv'
  BY <1>18, <1>0, <1>i DEF BeginExec, Begin, ClientGoes, Readable,
    RecordInv, PidIsHeld, PhaseFixes, RecordIsOfFile, RecordIsJustified, ClientIsJustified, TypeOK
<1>19. ASSUME NEW k \in Clients, StopSignal(k) PROVE RecordInv'
  <2>1. on[k] \in Runs /\ record[on[k]] # "none"
    BY <1>19, <1>0 DEF StopSignal, ClientGoes, RecordInv, ClientIsJustified, TypeOK
  <2>2. /\ UNCHANGED <<conf, fds, record, owner, pid, life, rpc, on>>
        /\ cpc' = [cpc EXCEPT ![k] = IF Responds(on[k]) THEN "stop_open" ELSE "end"]
        /\ \A c \in Runs : termed[c] => termed'[c]
    BY <1>19 DEF StopSignal, ClientGoes
  <2>3. life[on[k]] = "alive" => termed'[on[k]]
    BY <1>19, <2>1 DEF StopSignal, RecordInv, PidIsHeld
  <2>4. life[on[k]] # "unborn"
    BY <2>1 DEF RecordInv, RecordIsJustified
  <2>5. Released(on[k])'
    BY <2>1, <2>2, <2>3, <2>4, <1>0 DEF TypeOK
  <2>6. (PidIsHeld /\ PhaseFixes /\ RecordIsOfFile /\ RecordIsJustified)'
    BY <2>2, <1>0 DEF RecordInv, PidIsHeld, PhaseFixes, RecordIsOfFile, RecordIsJustified, TypeOK
  <2>7. ClientIsJustified'
    BY <2>1, <2>2, <2>5, <1>0 DEF RecordInv, ClientIsJustified, TypeOK
  <2> QED
    BY <2>6, <2>7, <1>0 DEF RecordInv
<1>20. ASSUME NEW k \in Clients, StopOpen(k) PROVE RecordInv'
  BY <1>20, <1>0, <1>i DEF StopOpen, ClientGoes, OpenConfig,
    RecordInv, PidIsHeld, PhaseFixes, RecordIsOfFile, RecordIsJustified, ClientIsJustified, TypeOK
<1>21. ASSUME NEW k \in Clients, StopWrite(k) PROVE RecordInv'
  BY <1>21, <1>0, <1>i DEF StopWrite, ClientGoes, WriteConfig, Overwrite, Size,
    RecordInv, PidIsHeld, PhaseFixes, RecordIsOfFile, RecordIsJustified, ClientIsJustified, TypeOK
<1>22. ASSUME NEW k \in Clients, StopFails(k) PROVE RecordInv'
  BY <1>22, <1>0, <1>i DEF StopFails, ClientGoes, CloseConfig,
    RecordInv, PidIsHeld, PhaseFixes, RecordIsOfFile, RecordIsJustified, ClientIsJustified, TypeOK
<1>23. ASSUME NEW k \in Clients, RemoveCheck(k) PROVE RecordInv'
  BY <1>23, <1>0, <1>i DEF RemoveCheck, ClientGoes, Responds,
    RecordInv, PidIsHeld, PhaseFixes, RecordIsOfFile, RecordIsJustified, ClientIsJustified, TypeOK
<1>24. ASSUME NEW k \in Clients, RemoveOpen(k) PROVE RecordInv'
  BY <1>24, <1>0, <1>i DEF RemoveOpen, ClientGoes, OpenConfig,
    RecordInv, PidIsHeld, PhaseFixes, RecordIsOfFile, RecordIsJustified, ClientIsJustified, TypeOK
<1>25. ASSUME NEW k \in Clients, RemoveWrite(k) PROVE RecordInv'
  BY <1>25, <1>0, <1>i DEF RemoveWrite, ClientGoes, WriteConfig, Overwrite, Size,
    RecordInv, PidIsHeld, PhaseFixes, RecordIsOfFile, RecordIsJustified, ClientIsJustified, TypeOK
<1>26. ASSUME NEW k \in Clients, RemoveSaveFails(k) PROVE RecordInv'
  BY <1>26, <1>0, <1>i DEF RemoveSaveFails, ClientGoes, CloseConfig,
    RecordInv, PidIsHeld, PhaseFixes, RecordIsOfFile, RecordIsJustified, ClientIsJustified, TypeOK
<1>27. ASSUME NEW k \in Clients, RemoveUnlink(k) PROVE RecordInv'
  BY <1>27, <1>0, <1>i DEF RemoveUnlink, ClientGoes,
    RecordInv, PidIsHeld, PhaseFixes, RecordIsOfFile, RecordIsJustified, ClientIsJustified, TypeOK
<1>28. ASSUME NEW k \in Clients, RemoveRmdir(k) PROVE RecordInv'
  BY <1>28, <1>0, <1>i DEF RemoveRmdir, ClientGoes,
    RecordInv, PidIsHeld, PhaseFixes, RecordIsOfFile, RecordIsJustified, ClientIsJustified, TypeOK
<1>29. ASSUME NEW k \in Clients, ExecKill(k) PROVE RecordInv'
  BY <1>29, <1>0, <1>i DEF ExecKill, ClientGoes, Responds,
    RecordInv, PidIsHeld, PhaseFixes, RecordIsOfFile, RecordIsJustified, ClientIsJustified, TypeOK
<1>30. ASSUME NEW k \in Clients, ExecEnter(k) PROVE RecordInv'
  BY <1>30, <1>0, <1>i DEF ExecEnter, ClientGoes,
    RecordInv, PidIsHeld, PhaseFixes, RecordIsOfFile, RecordIsJustified, ClientIsJustified, TypeOK
<1>31. ASSUME NEW k \in Clients, ClientCrashes(k) PROVE RecordInv'
  BY <1>31, <1>0, <1>i DEF ClientCrashes, CloseConfig,
    RecordInv, PidIsHeld, PhaseFixes, RecordIsOfFile, RecordIsJustified, ClientIsJustified, TypeOK
<1>32. ASSUME NEW p \in Pids, ForeignStarts(p) PROVE RecordInv'
  BY <1>32, <1>0, <1>i DEF ForeignStarts,
    RecordInv, PidIsHeld, PhaseFixes, RecordIsOfFile, RecordIsJustified, ClientIsJustified, TypeOK
<1>33. ASSUME NEW p \in Pids, ForeignExits(p) PROVE RecordInv'
  BY <1>33, <1>0, <1>i DEF ForeignExits,
    RecordInv, PidIsHeld, PhaseFixes, RecordIsOfFile, RecordIsJustified, ClientIsJustified, TypeOK
<1>34. CASE UNCHANGED vars
  BY <1>34, <1>0, <1>i DEF vars,
    RecordInv, PidIsHeld, PhaseFixes, RecordIsOfFile, RecordIsJustified, ClientIsJustified, TypeOK
<1> QED
  BY <1>1, <1>2, <1>3, <1>4, <1>5, <1>6, <1>7, <1>8, <1>9, <1>10, <1>11, <1>12, <1>13, <1>14, <1>15, <1>16, <1>17, <1>18, <1>19, <1>20, <1>21, <1>22, <1>23, <1>24, <1>25, <1>26, <1>27, <1>28, <1>29, <1>30, <1>31, <1>32, <1>33, <1>34, <1>i
     DEF Next, RunStep, ClientStep

\* What is recorded of a container is justified by its process, in every reachable state.
THEOREM RecordInvariance == Spec => []RecordInv
<1>1. Init => RecordInv
  BY InvInit
<1>2. RecordInv /\ [Next]_vars => RecordInv'
  BY InvStep
<1> QED
  BY <1>1, <1>2, PTL DEF Spec

\* Every variable keeps its type.
THEOREM TypeCorrect == Spec => []TypeOK
<1>1. RecordInv => TypeOK
  BY DEF RecordInv
<1> QED
  BY <1>1, RecordInvariance, PTL

\* Whatever stop, rm, the run's own last save, pid reuse and crashes interleave
\* to, a container whose config.json says exited has no process left.
THEOREM ExitedIsDeadAlways == Spec => []ExitedIsDead
<1>1. RecordInv => ExitedIsDead
  BY DEF RecordInv, ExitedIsDead, RecordIsOfFile, RecordIsJustified, Status
<1> QED
  BY <1>1, RecordInvariance, PTL

\* No container is recorded as stopped or exited, and none is deleted, before
\* its process died or was sent SIGTERM.
THEOREM FinalOnlyWhenReleasedAlways == Spec => []FinalOnlyWhenReleased
<1>1. RecordInv => FinalOnlyWhenReleased
  BY DEF RecordInv, FinalOnlyWhenReleased, RecordIsJustified, Released
<1> QED
  BY <1>1, RecordInvariance, PTL

-----------------------------------------------------------------------------
(* The text of config.json.                                                 *)

LEMMA TextInit == ASSUME Init PROVE TextInv
BY DEF Init, TextInv, WritersAreSaving, EmptyIsBeingSaved, GarbageIsOfDead

LEMMA TextStep == ASSUME IInv, [Next]_vars PROVE TextInv'
<1> USE DEF fileVars, kernelVars, clientVars, boundVars, Status, Life,
      TextInv, WritersAreSaving, EmptyIsBeingSaved, GarbageIsOfDead
<1>0. /\ TypeOK /\ PhaseFixes /\ RecordIsOfFile /\ ClientIsJustified /\ RecordInv'
      /\ TextInv
  BY InvStep DEF IInv, RecordInv
<1> USE DEF TypeOK, PhaseFixes, RecordIsOfFile, ClientIsJustified
<1>i. Runs \cap Clients = {}
  BY ConstantsAssumption DEF ConstantsAssumption
<1>1. ASSUME NEW r \in Runs, SaveRunningOpen(r) PROVE TextInv'
  BY <1>1, <1>0, <1>i DEF SaveRunningOpen, RunGoes, OpenConfig
<1>2. ASSUME NEW r \in Runs, SaveRunningWrite(r) PROVE TextInv'
  BY <1>2, <1>0, <1>i DEF SaveRunningWrite, RunGoes, WriteConfig, Overwrite, Size
<1>3. ASSUME NEW r \in Runs, SaveRunningFails(r) PROVE TextInv'
  BY <1>3, <1>0, <1>i DEF SaveRunningFails, RunGoes, CloseConfig, Fault
<1>4. ASSUME NEW r \in Runs, SaveExitedOpen(r) PROVE TextInv'
  BY <1>4, <1>0, <1>i DEF SaveExitedOpen, RunGoes, OpenConfig
<1>5. ASSUME NEW r \in Runs, SaveExitedWrite(r) PROVE TextInv'
  BY <1>5, <1>0, <1>i DEF SaveExitedWrite, RunGoes, WriteConfig, Overwrite, Size
<1>6. ASSUME NEW r \in Runs, SaveExitedFails(r) PROVE TextInv'
  BY <1>6, <1>0, <1>i DEF SaveExitedFails, RunGoes, CloseConfig, Fault
<1>7. ASSUME NEW r \in Runs, HostExits(r) PROVE TextInv'
  BY <1>7, <1>0, <1>i DEF HostExits, HostGone, CloseConfig, Reap
<1>8. ASSUME NEW r \in Runs, HostCrashes(r) PROVE TextInv'
  BY <1>8, <1>0, <1>i DEF HostCrashes, HostGone, CloseConfig, Reap, Crash
<1>9. ASSUME NEW r \in Runs, MakeDir(r) PROVE TextInv'
  BY <1>9, <1>0, <1>i DEF MakeDir, RunGoes
<1>10. ASSUME NEW r \in Runs, WaitReturns(r) PROVE TextInv'
  BY <1>10, <1>0, <1>i DEF WaitReturns, RunGoes, Reap
<1>11. ASSUME NEW r \in Runs, LoadForExit(r) PROVE TextInv'
  BY <1>11, <1>0, <1>i DEF LoadForExit, RunGoes
<1>12. ASSUME NEW r \in Runs, ProcessExits(r) PROVE TextInv'
  BY <1>12, <1>0, <1>i DEF ProcessExits, Reap
<1>13. ASSUME NEW r \in Runs, StartFails(r) PROVE TextInv'
  BY <1>13, <1>0, <1>i DEF StartFails, RunGoes, Fault
<1>14. ASSUME NEW r \in Runs, NEW p \in Pids, StartProcess(r, p) PROVE TextInv'
  BY <1>14, <1>0, <1>i DEF StartProcess, RunGoes
<1>15. ASSUME NEW k \in Clients, NEW r \in Runs, BeginStop(k, r) PROVE TextInv'
  BY <1>15, <1>0, <1>i DEF BeginStop, Begin, ClientGoes
<1>16. ASSUME NEW k \in Clients, NEW r \in Runs, BeginRemove(k, r) PROVE TextInv'
  BY <1>16, <1>0, <1>i DEF BeginRemove, Begin, ClientGoes
<1>17. ASSUME NEW k \in Clients, NEW r \in Runs, BeginExec(k, r) PROVE TextInv'
  BY <1>17, <1>0, <1>i DEF BeginExec, Begin, ClientGoes
<1>18. ASSUME NEW k \in Clients, StopSignal(k) PROVE TextInv'
  BY <1>18, <1>0, <1>i DEF StopSignal, ClientGoes
<1>19. ASSUME NEW k \in Clients, StopOpen(k) PROVE TextInv'
  BY <1>19, <1>0, <1>i DEF StopOpen, ClientGoes, OpenConfig
<1>20. ASSUME NEW k \in Clients, StopWrite(k) PROVE TextInv'
  BY <1>20, <1>0, <1>i DEF StopWrite, ClientGoes, WriteConfig, Overwrite, Size
<1>21. ASSUME NEW k \in Clients, StopFails(k) PROVE TextInv'
  BY <1>21, <1>0, <1>i DEF StopFails, ClientGoes, CloseConfig, Fault
<1>22. ASSUME NEW k \in Clients, RemoveCheck(k) PROVE TextInv'
  BY <1>22, <1>0, <1>i DEF RemoveCheck, ClientGoes
<1>23. ASSUME NEW k \in Clients, RemoveOpen(k) PROVE TextInv'
  BY <1>23, <1>0, <1>i DEF RemoveOpen, ClientGoes, OpenConfig
<1>24. ASSUME NEW k \in Clients, RemoveWrite(k) PROVE TextInv'
  BY <1>24, <1>0, <1>i DEF RemoveWrite, ClientGoes, WriteConfig, Overwrite, Size
<1>25. ASSUME NEW k \in Clients, RemoveSaveFails(k) PROVE TextInv'
  BY <1>25, <1>0, <1>i DEF RemoveSaveFails, ClientGoes, CloseConfig, Fault
<1>26. ASSUME NEW k \in Clients, RemoveUnlink(k) PROVE TextInv'
  BY <1>26, <1>0, <1>i DEF RemoveUnlink, ClientGoes
<1>27. ASSUME NEW k \in Clients, RemoveRmdir(k) PROVE TextInv'
  BY <1>27, <1>0, <1>i DEF RemoveRmdir, ClientGoes
<1>28. ASSUME NEW k \in Clients, ExecKill(k) PROVE TextInv'
  BY <1>28, <1>0, <1>i DEF ExecKill, ClientGoes
<1>29. ASSUME NEW k \in Clients, ExecEnter(k) PROVE TextInv'
  BY <1>29, <1>0, <1>i DEF ExecEnter, ClientGoes
<1>30. ASSUME NEW k \in Clients, ClientCrashes(k) PROVE TextInv'
  BY <1>30, <1>0, <1>i DEF ClientCrashes, CloseConfig, Crash
<1>31. ASSUME NEW p \in ForeignPids, ForeignStarts(p) \/ ForeignExits(p) PROVE TextInv'
  BY <1>31, <1>0, <1>i DEF ForeignStarts, ForeignExits
<1>32. CASE UNCHANGED vars
  BY <1>32, <1>0 DEF vars
<1> QED
  BY <1>1, <1>2, <1>3, <1>4, <1>5, <1>6, <1>7, <1>8, <1>9, <1>10, <1>11, <1>12, <1>13, <1>14, <1>15, <1>16, <1>17, <1>18, <1>19, <1>20, <1>21, <1>22, <1>23, <1>24, <1>25, <1>26, <1>27, <1>28, <1>29, <1>30, <1>31, <1>32 DEF Next, RunStep, ClientStep, IInv

\* The inductive invariant holds in every reachable state.
THEOREM Invariance == Spec => []IInv
<1>1. Init => IInv
  BY InvInit, TextInit DEF IInv
<1>2. IInv /\ [Next]_vars => IInv'
  BY InvStep, TextStep DEF IInv
<1> QED
  BY <1>1, <1>2, PTL DEF Spec

\* Without faults and kills a live container that its run waits for, and that nobody
\* is saving, has a config.json with the whole text of running or stopped, however
\* many saves overlapped, unless an rm is about to delete it.
THEOREM LiveIsReadableAlways == Spec => []LiveIsReadable
<1>1. IInv => LiveIsReadable
  BY DEF IInv, RecordInv, TypeOK, ConfState, Status, RecordIsOfFile, RecordIsJustified,
    TextInv, EmptyIsBeingSaved, GarbageIsOfDead, LiveIsReadable
<1> QED
  BY <1>1, Invariance, PTL

-----------------------------------------------------------------------------
(* Removal is final.                                                        *)

LEMMA DeletedStep ==
  ASSUME RecordInv, [Next]_vars, NEW q \in Runs, record[q] = "deleted"
  PROVE  conf'[q] = "nodir"
<1> USE DEF fileVars
<1>0. TypeOK /\ conf[q] = "nodir" /\ fds[q] = {} /\ rpc[q] # "new"
  BY DEF RecordInv, RecordIsOfFile, PhaseFixes
<1>1. ASSUME NEW r \in Runs, MakeDir(r) PROVE conf'[q] = "nodir"
  BY <1>1, <1>0 DEF MakeDir, RunGoes, TypeOK
<1>2. ASSUME NEW r \in Runs, SaveRunningOpen(r) \/ SaveExitedOpen(r)
       PROVE  conf'[q] = "nodir"
  BY <1>2, <1>0 DEF SaveRunningOpen, SaveExitedOpen, OpenConfig, TypeOK
<1>3. ASSUME NEW r \in Runs, SaveRunningWrite(r) \/ SaveExitedWrite(r)
       PROVE  conf'[q] = "nodir"
  BY <1>3, <1>0 DEF SaveRunningWrite, SaveExitedWrite, WriteConfig, TypeOK
<1>4. ASSUME NEW k \in Clients, StopOpen(k) \/ RemoveOpen(k)
       PROVE  conf'[q] = "nodir"
  BY <1>4, <1>0 DEF StopOpen, RemoveOpen, OpenConfig, TypeOK
<1>5. ASSUME NEW k \in Clients, StopWrite(k) \/ RemoveWrite(k)
       PROVE  conf'[q] = "nodir"
  BY <1>5, <1>0 DEF StopWrite, RemoveWrite, WriteConfig, TypeOK
<1>6. ASSUME NEW k \in Clients, RemoveUnlink(k) \/ RemoveRmdir(k)
       PROVE  conf'[q] = "nodir"
  BY <1>6, <1>0 DEF RemoveUnlink, RemoveRmdir, TypeOK
<1>7. ASSUME NEW r \in Runs,
         \/ StartFails(r) \/ SaveRunningFails(r) \/ WaitReturns(r) \/ LoadForExit(r)
         \/ SaveExitedFails(r) \/ ProcessExits(r) \/ HostExits(r) \/ HostCrashes(r)
         \/ \E p \in Pids : StartProcess(r, p)
       PROVE  UNCHANGED conf
  BY <1>7 DEF StartFails, SaveRunningFails, WaitReturns, LoadForExit, SaveExitedFails,
    ProcessExits, HostExits, HostCrashes, HostGone, StartProcess, CloseConfig
<1>8. ASSUME NEW k \in Clients,
         \/ StopSignal(k) \/ StopFails(k) \/ RemoveCheck(k) \/ RemoveSaveFails(k)
         \/ ExecKill(k) \/ ExecEnter(k) \/ ClientCrashes(k)
         \/ \E r \in Runs : BeginStop(k, r) \/ BeginRemove(k, r) \/ BeginExec(k, r)
       PROVE  UNCHANGED conf
  BY <1>8 DEF StopSignal, StopFails, RemoveCheck, RemoveSaveFails, ExecKill, ExecEnter,
    ClientCrashes, BeginStop, BeginRemove, BeginExec, Begin, CloseConfig
<1>9. ASSUME NEW p \in ForeignPids, ForeignStarts(p) \/ ForeignExits(p) PROVE UNCHANGED conf
  BY <1>9 DEF ForeignStarts, ForeignExits
<1>10. CASE UNCHANGED vars
  BY <1>10, <1>0 DEF vars
<1> QED
  BY <1>0, <1>1, <1>2, <1>3, <1>4, <1>5, <1>6, <1>7, <1>8, <1>9, <1>10 DEF Next, RunStep, ClientStep

\* Nothing recreates a container that rm has deleted: neither the save of a stop
\* nor the last save of the run that were under way.
THEOREM RemovedStaysRemovedAlways == Spec => RemovedStaysRemoved
<1>1. RecordInv /\ [Next]_vars => [\A r \in Runs : record[r] = "deleted" => conf'[r] = "nodir"]_vars
  BY DeletedStep
<1> QED
  BY <1>1, RecordInvariance, PTL DEF Spec, RemovedStaysRemoved

-----------------------------------------------------------------------------
(* The refinement of the abstract lifecycle.                                *)

\* A complete save is a step of the lifecycle, or changes nothing in it.
LEMMA SaveStep ==
  ASSUME RecordInv, NEW a \in Runs \cup Clients, NEW r \in Runs, NEW s \in Status,
         WriteConfig(a, r, s), UNCHANGED <<life, termed>>,
         life[r] # "unborn",
         s = "running" => record[r] = "none",
         s # "running" => record[r] # "none",
         s = "stopped" => Released(r),
         s = "exited"  => life[r] = "reaped"
  PROVE  LifecycleOf!LNext \/ UNCHANGED LifecycleOf!lvars
<1>1. CASE a \notin fds[r]
  BY <1>1 DEF WriteConfig, LifecycleOf!lvars
<1>2. CASE a \in fds[r]
  <2>1. record' = [record EXCEPT ![r] = s] /\ record[r] # "deleted"
    BY <1>2 DEF WriteConfig, RecordInv, RecordIsOfFile
  <2> QED
    BY <2>1 DEF RecordInv, TypeOK, Status, Life, Released, LifecycleOf!LNext, LifecycleOf!RecordRunning,
      LifecycleOf!RecordStopped, LifecycleOf!RecordExited, LifecycleOf!Released
<1> QED
  BY <1>1, <1>2

LEMMA LifecycleInit == ASSUME Init PROVE LifecycleOf!LInit
BY DEF Init, LifecycleOf!LInit

LEMMA LifecycleStep ==
  ASSUME RecordInv, [Next]_vars PROVE LifecycleOf!LNext \/ UNCHANGED LifecycleOf!lvars
<1> USE DEF fileVars, kernelVars, clientVars, LifecycleOf!lvars
<1> DEFINE Goal == LifecycleOf!LNext \/ UNCHANGED LifecycleOf!lvars
<1>0. TypeOK /\ PidIsHeld /\ PhaseFixes /\ RecordIsOfFile /\ RecordIsJustified /\ ClientIsJustified
  BY DEF RecordInv
<1>i. None \notin Runs \cup Pids
  BY ConstantsAssumption DEF ConstantsAssumption
(* Births and deaths. *)
<1>1. ASSUME NEW r \in Runs, NEW p \in Pids, StartProcess(r, p) PROVE Goal
  <2>1. life[r] = "unborn" /\ life' = [life EXCEPT ![r] = "alive"] /\ UNCHANGED <<record, termed>>
    BY <1>1, <1>0 DEF StartProcess, RunGoes, PhaseFixes
  <2>2. LifecycleOf!Launch(r)
    BY <2>1, <1>0 DEF TypeOK, LifecycleOf!Launch
  <2> QED
    BY <2>2 DEF LifecycleOf!LNext
<1>2. ASSUME NEW r \in Runs, ProcessExits(r) PROVE Goal
  BY <1>2, <1>0 DEF ProcessExits, Reap, TypeOK, LifecycleOf!LNext, LifecycleOf!Die
<1>3. ASSUME NEW r \in Runs, WaitReturns(r) PROVE Goal
  BY <1>3, <1>0 DEF WaitReturns, Reap, TypeOK
<1>4. ASSUME NEW r \in Runs, HostExits(r) \/ HostCrashes(r) PROVE Goal
  BY <1>4, <1>0 DEF HostExits, HostCrashes, HostGone, CloseConfig, Reap, TypeOK
(* SIGTERM. *)
<1>5. ASSUME NEW k \in Clients, StopSignal(k) PROVE Goal
  <2> DEFINE p == pid[on[k]]
  <2>1. /\ UNCHANGED <<record, life>>
        /\ termed' = [c \in Runs |-> termed[c] \/ (life[c] = "alive" /\ owner[p] = c)]
    BY <1>5 DEF StopSignal
  <2>2. CASE \E c \in Runs : life[c] = "alive" /\ owner[p] = c
    <3>1. PICK c \in Runs : life[c] = "alive" /\ owner[p] = c
      BY <2>2
    <3>2. termed' = [termed EXCEPT ![c] = TRUE]
      BY <2>1, <3>1, <1>0 DEF TypeOK
    <3> QED
      BY <2>1, <3>1, <3>2 DEF LifecycleOf!LNext, LifecycleOf!Terminate
  <2>3. CASE \A c \in Runs : ~(life[c] = "alive" /\ owner[p] = c)
    BY <2>1, <2>3, <1>0 DEF TypeOK
  <2> QED
    BY <2>2, <2>3
(* The four complete saves. *)
<1>6. ASSUME NEW r \in Runs, SaveRunningWrite(r) PROVE Goal
  BY <1>6, <1>0, SaveStep DEF SaveRunningWrite, RunGoes, PhaseFixes, TypeOK, Status
<1>7. ASSUME NEW r \in Runs, SaveExitedWrite(r) PROVE Goal
  BY <1>7, <1>0, SaveStep DEF SaveExitedWrite, RunGoes, PhaseFixes, TypeOK, Status
<1>8. ASSUME NEW k \in Clients, StopWrite(k) PROVE Goal
  BY <1>8, <1>0, SaveStep
     DEF StopWrite, ClientGoes, ClientIsJustified, RecordIsJustified, TypeOK, Status
<1>9. ASSUME NEW k \in Clients, RemoveWrite(k) PROVE Goal
  BY <1>9, <1>0, SaveStep
     DEF RemoveWrite, ClientGoes, ClientIsJustified, RecordIsJustified, TypeOK, Status
(* The removal. *)
<1>10. ASSUME NEW k \in Clients, RemoveRmdir(k) PROVE Goal
  <2> DEFINE r == on[k]
  <2>1. r \in Runs /\ record[r] # "none" /\ Released(r)
        /\ (record[r] = "running" => life[r] = "reaped")
    BY <1>10, <1>0 DEF RemoveRmdir, ClientGoes, ClientIsJustified, TypeOK
  <2>2. CASE conf[r] # "nofile"
    BY <1>10, <2>2 DEF RemoveRmdir
  <2>3. CASE conf[r] = "nofile"
    <3>1. record[r] \in {"running", "stopped", "exited"}
      BY <2>1, <2>3, <1>0 DEF RecordIsOfFile, TypeOK, Status
    <3>2. record' = [record EXCEPT ![r] = "deleted"] /\ UNCHANGED <<life, termed>>
      BY <1>10, <2>3 DEF RemoveRmdir
    <3> QED
      BY <2>1, <3>1, <3>2, <1>0 DEF RecordIsJustified, Released, LifecycleOf!LNext,
        LifecycleOf!Delete, LifecycleOf!Released
  <2> QED
    BY <2>2, <2>3
(* The steps the lifecycle does not see. *)
<1>11. ASSUME NEW r \in Runs,
         \/ MakeDir(r) \/ StartFails(r) \/ SaveRunningOpen(r) \/ SaveRunningFails(r)
         \/ LoadForExit(r) \/ SaveExitedOpen(r) \/ SaveExitedFails(r)
       PROVE  Goal
  BY <1>11 DEF MakeDir, StartFails, SaveRunningOpen, SaveRunningFails, LoadForExit,
    SaveExitedOpen, SaveExitedFails, OpenConfig, CloseConfig
<1>12. ASSUME NEW k \in Clients,
         \/ StopOpen(k) \/ StopFails(k) \/ RemoveCheck(k) \/ RemoveOpen(k)
         \/ RemoveSaveFails(k) \/ RemoveUnlink(k) \/ ExecKill(k) \/ ExecEnter(k)
         \/ ClientCrashes(k)
         \/ \E r \in Runs : BeginStop(k, r) \/ BeginRemove(k, r) \/ BeginExec(k, r)
       PROVE  Goal
  BY <1>12 DEF StopOpen, StopFails, RemoveCheck, RemoveOpen, RemoveSaveFails, RemoveUnlink,
    ExecKill, ExecEnter, ClientCrashes, BeginStop, BeginRemove, BeginExec, Begin,
    OpenConfig, CloseConfig
<1>13. ASSUME NEW p \in ForeignPids, ForeignStarts(p) \/ ForeignExits(p) PROVE Goal
  BY <1>13 DEF ForeignStarts, ForeignExits
<1>14. CASE UNCHANGED vars
  BY <1>14 DEF vars
<1> QED
  BY <1>1, <1>2, <1>3, <1>4, <1>5, <1>6, <1>7, <1>8, <1>9, <1>10, <1>11, <1>12, <1>13, <1>14
     DEF Next, RunStep, ClientStep

\* The runtime implements the abstract lifecycle: whatever its invocations
\* interleave to, the statuses a container's config.json is given, and its
\* deletion, come in an order and at a time the lifecycle allows.
THEOREM LifecycleImplemented == Spec => ImplementsLifecycle
<1>1. Init => LifecycleOf!LInit
  BY LifecycleInit
<1>2. RecordInv /\ [Next]_vars => [LifecycleOf!LNext]_(LifecycleOf!lvars)
  BY LifecycleStep
<1> QED
  BY <1>1, <1>2, RecordInvariance, PTL DEF Spec, ImplementsLifecycle, LifecycleOf!LSpec

=============================================================================
