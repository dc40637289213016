-------------------------- MODULE ContainerDirectory --------------------------
(***************************************************************************)
(* The directory of a container, <root>/<id>/, as the runtime and the logger *)
(* share it: a run makes it and its files (startContainer, and Logger.Attach *)
(* in internal/log/log.go), the workload's output goes into stdout.log and  *)
(* stderr.log, and logs and rm find it by a prefix of its ID (ResolveID) and *)
(* read or remove it meanwhile. Run and rm are those of ContainerRuntime,    *)
(* without reused pids and with rm's save of a stale status in one step;    *)
(* here the IDs are those of Identifiers, and two runs may have one.        *)
(***************************************************************************)
EXTENDS Identifiers, FiniteSets, FiniteSetsExt

CONSTANTS
  Runs,      \* the runs, one container each
  Detached,  \* the sets of runs that may have -d
  Starts,    \* the times the runs may start at: functions from Runs to Time
  Clients,   \* the invocations of logs and rm
  Commands,  \* what each may be: records with a verb, a prefix and a tail
  MaxWrites, \* bound on what each workload writes to a stream, in pieces
  Unlucky,   \* the runs that may fail to start or be killed
  MaxMishaps,\* bound on that and on failing writes
  Hole,      \* zeros that a write behind the end of a file leaves
  None

Streams == {"stdout", "stderr"}
IDs     == {generateID(s[r]) : s \in Starts, r \in Runs}
Texts   == Seq([run : Runs, stream : Streams, number : Nat] \cup {Hole})

ASSUME DirectoryAssumption ==
  /\ None \notin IDs \cup Texts \cup {"missing", "printed", "nothing", "removed", "failed"}
  /\ Detached \subseteq SUBSET Runs
  /\ Starts \subseteq [Runs -> Time]
  /\ \A k \in Clients : \A c \in Commands[k] :
       c.verb \in {"logs", "rm"} /\ c.prefix \in Seq(Digit) \ {<<>>} /\ c.tail \in Nat
  /\ MaxWrites \in [Runs -> Nat] /\ MaxMishaps \in Nat

VARIABLES
  start,   \* the time each run starts at
  detached,\* the runs with -d: their workload writes to the files itself
  rpc,     \* where each run is
  info,    \* whose metadata each run saves
  life,    \* the container's processes
  wrote,   \* how many pieces the workload wrote to each stream
  moved,   \* how many of them were written to the log file
  cut,     \* the streams of which nobody reads the pipe any more
  dirs,    \* the directories in the container root
  config,  \* their config.json
  file,    \* their log files: what they hold
  linked,  \* the streams whose log file, as a run has it open, still has a name
  saving,  \* the runs that have the config.json that is there open to save it
  client,  \* where each logs or rm is, and what it has found
  held,    \* history: the containers readable ever since a client's listing, while it lasts, began
  mishaps

args       == <<start, detached>>
runVars    == <<args, rpc, info, life>>
outputVars == <<wrote, moved, cut>>
logVars    == <<file, linked>>
confVars   == <<config, saving, held>>
vars == <<runVars, outputVars, dirs, logVars, confVars, client, mishaps>>

IDOf(r) == generateID(start[r])

Piece(r, s, n)  == [run |-> r, stream |-> s, number |-> n]
Pieces(r, s, n) == [i \in 1 .. n |-> Piece(r, s, i)]

Unsaved  == {"none", "torn"}
Readable == {d \in dirs : config[d].status \notin Unsaved}

Steps(r, from, to) == rpc[r] = from /\ rpc' = [rpc EXCEPT ![r] = to] /\ UNCHANGED args
Goes(r, from, to)  == Steps(r, from, to) /\ UNCHANGED info
Mishap == mishaps < MaxMishaps /\ mishaps' = mishaps + 1

\* config.json gets the text of a run and a status, or none that can be read.
SetConfig(d, r, status) ==
  /\ config' = [config EXCEPT ![d] = [run |-> r, status |-> status]]
  /\ held' = [k \in Clients |-> IF status \in Unsaved THEN held[k] \ {d} ELSE held[k]]

-----------------------------------------------------------------------------
(* The run.                                                                 *)

\* startContainer makes the directory and Attach both log files: os.Create empties
\* one that is there. One step: no command finds a container before its first save.
Attach(r) ==
  /\ Goes(r, "new", "start")
  /\ dirs'   = dirs \cup {IDOf(r)}
  /\ file'   = [file EXCEPT ![IDOf(r)] = [s \in Streams |-> <<>>]]
  /\ linked' = [linked EXCEPT ![r] = Streams]
  /\ UNCHANGED <<life, outputVars, confVars, client, mishaps>>

\* From here on the workload writes, to the files or to two pipes.
Start(r) ==
  /\ Goes(r, "start", "save")
  /\ life' = [life EXCEPT ![r] = "alive"]
  /\ UNCHANGED <<outputVars, dirs, logVars, confVars, client, mishaps>>

\* saveInfo, in its two steps: the status of running, later that of exited.
SaveOpen(r) ==
  /\ IDOf(r) \in dirs
  /\ Goes(r, "save", "running") \/ Goes(r, "exit", "exited")
  /\ SetConfig(IDOf(r), None, "torn")
  /\ saving' = saving \cup {r}
  /\ UNCHANGED <<life, outputVars, dirs, logVars, client, mishaps>>

SaveWrite(r) ==
  /\ Goes(r, "running", "wait") \/ Goes(r, "exited", "done")
  /\ saving' = saving \ {r}
  /\ IF r \in saving THEN SetConfig(IDOf(r), info[r], rpc[r])
                     ELSE UNCHANGED <<config, held>>
  /\ UNCHANGED <<life, outputVars, dirs, logVars, client, mishaps>>

\* cmd.Wait first waits for the process ...
Reap(r) ==
  /\ rpc[r] = "wait" /\ life[r] = "zombie"
  /\ life' = [life EXCEPT ![r] = "gone"]
  /\ UNCHANGED <<args, rpc, info, outputVars, dirs, logVars, confVars, client, mishaps>>

\* Mutant: the log files are closed as soon as the process has ended.
WaitReturnsEarly(r) ==
  /\ life[r] = "gone"
  /\ Goes(r, "wait", "exit")
  /\ UNCHANGED <<life, outputVars, dirs, logVars, confVars, client, mishaps>>

\* ... then for the goroutines that copy its output. Run saves the metadata it has;
\* the goroutine of a detached run, waitAndFinalize, what it reads there, if it can.
WaitReturns(r) ==
  /\ life[r] = "gone" /\ \A s \in Streams : s \in cut[r] \/ moved[r][s] = wrote[r][s]
  /\ IF r \in detached /\ IDOf(r) \in Readable
     THEN Steps(r, "wait", "exit") /\ info' = [info EXCEPT ![r] = config[IDOf(r)].run]
     ELSE Goes(r, "wait", IF r \in detached THEN "done" ELSE "exit")
  /\ UNCHANGED <<life, outputVars, dirs, logVars, confVars, client, mishaps>>

\* The host process is gone. A workload that writes to pipes has no reader any
\* more, and the host's init reaps it.
HostGone(r) ==
  /\ cut'    = [cut EXCEPT ![r] = IF r \in detached THEN @ ELSE Streams]
  /\ saving' = saving \ {r}
  /\ life'   = [life EXCEPT ![r] = IF @ = "zombie" THEN "gone" ELSE @]
  /\ UNCHANGED <<wrote, moved, dirs, logVars, config, held, client>>

\* The directory is gone and a save fails: Run returns the error, or drops that of
\* its last save, and main exits.
DirMissing(r) ==
  /\ IDOf(r) \notin dirs
  /\ Goes(r, "save", "left") \/ Goes(r, "exit", "done")
  /\ HostGone(r)
  /\ UNCHANGED mishaps

\* Run returned right after the first save of a detached run, and main exits,
\* wherever waitAndFinalize is.
Returned(r) == r \in detached /\ rpc[r] \in {"wait", "exit", "exited"}

MainExits(r) ==
  /\ Returned(r)
  /\ Goes(r, rpc[r], "left")
  /\ HostGone(r)
  /\ UNCHANGED mishaps

\* The start fails, or the host process is killed.
HostFails(r) ==
  /\ r \in Unlucky /\ rpc[r] \notin {"new", "left", "done"} /\ ~Returned(r)
  /\ Goes(r, rpc[r], "left")
  /\ HostGone(r)
  /\ Mishap

-----------------------------------------------------------------------------
(* The workload and its output.                                             *)

\* A piece written at offset n, by a writer that knows only its own offset.
Put(content, n, p) ==
  [i \in 1 .. Max({n, Len(content)}) |->
     IF i = n THEN p ELSE IF i \in DOMAIN content THEN content[i] ELSE Hole]

\* The next piece of a stream gets into its log file.
Log(r, s) ==
  /\ moved' = [moved EXCEPT ![r][s] = @ + 1]
  /\ file'  = IF s \notin linked[r] THEN file
              ELSE [file EXCEPT ![IDOf(r)][s] = Put(@, moved'[r][s], Piece(r, s, moved'[r][s]))]
  /\ UNCHANGED linked

Write(r, s) ==
  /\ life[r] = "alive" /\ s \notin cut[r]
  /\ wrote[r][s] < MaxWrites[r]
  /\ wrote' = [wrote EXCEPT ![r][s] = @ + 1]
  /\ IF r \in detached THEN Log(r, s) ELSE UNCHANGED <<moved, logVars>>
  /\ UNCHANGED <<runVars, cut, dirs, confVars, client, mishaps>>

\* There is something in the pipe and a copying goroutine of os/exec for it.
Copying(r, s) ==
  /\ r \notin detached /\ rpc[r] \in {"save", "running", "wait"}
  /\ s \notin cut[r] /\ moved[r][s] < wrote[r][s]
  /\ UNCHANGED <<runVars, wrote, dirs, confVars, client>>

\* io.MultiWriter writes to the terminal, then to the file ...
Copy(r, s) == Copying(r, s) /\ Log(r, s) /\ UNCHANGED <<cut, mishaps>>

\* ... and if either fails the goroutine closes the pipe and ends.
CopyFails(r, s) ==
  /\ Copying(r, s)
  /\ cut' = [cut EXCEPT ![r] = @ \cup {s}]
  /\ Mishap
  /\ UNCHANGED <<moved, logVars>>

\* The processes of the container end; SIGPIPE, once a pipe has no reader, is
\* one reason.
End(r) ==
  /\ life[r] = "alive"
  /\ life' = [life EXCEPT ![r] = IF rpc[r] = "left" THEN "gone" ELSE "zombie"]
  /\ UNCHANGED <<args, rpc, info, outputVars, dirs, logVars, confVars, client, mishaps>>

-----------------------------------------------------------------------------
(* logs and rm.                                                             *)

Idle == [pc |-> "idle", verb |-> None, prefix |-> <<>>, tail |-> 0, entries |-> <<>>,
         matches |-> {}, target |-> None, logged |-> None, got |-> <<>>, names |-> {},
         outcome |-> None]

At(k, pc) == client[k].pc = pc /\ UNCHANGED <<runVars, outputVars, mishaps>>
Files == <<dirs, logVars, confVars>>

Before(d, e) == \E n \in 1 .. 12 : SubSeq(d, 1, n - 1) = SubSeq(e, 1, n - 1) /\ d[n] < e[n]

\* List: os.ReadDir, sorted by name.
Begin(k, c) ==
  /\ At(k, "idle")
  /\ \E names \in [1 .. Cardinality(dirs) -> dirs] :
       /\ Range(names) = dirs
       /\ \A i, j \in DOMAIN names : i < j => Before(names[i], names[j])
       /\ client' = [client EXCEPT ![k].pc = "load", ![k].entries = names,
                                   ![k].verb = c.verb, ![k].prefix = c.prefix, ![k].tail = c.tail]
  /\ held' = [held EXCEPT ![k] = Readable]
  /\ UNCHANGED <<dirs, logVars, config, saving>>

Named(k, d) == IF d \in Readable /\ Matches(d, client[k].prefix) THEN {d} ELSE {}

\* Mutant: the listing ends at the first container that cannot be read.
LoadStops(k) ==
  /\ At(k, "load") /\ client[k].entries # <<>>
  /\ LET d == Head(client[k].entries) IN
     client' = [client EXCEPT ![k].matches = @ \cup Named(k, d),
                              ![k].entries = IF d \in Readable THEN Tail(@) ELSE <<>>]
  /\ UNCHANGED Files

\* List: loadInfo of one entry after the other; one that cannot be read is left out.
Load(k) ==
  /\ At(k, "load") /\ client[k].entries # <<>>
  /\ client' = [client EXCEPT ![k].matches = @ \cup Named(k, Head(client[k].entries)),
                              ![k].entries = Tail(@)]
  /\ UNCHANGED Files

\* The listing is over, and the history no longer kept.
Listed(k) ==
  /\ At(k, "load") /\ client[k].entries = <<>>
  /\ held' = [held EXCEPT ![k] = {}]
  /\ UNCHANGED <<dirs, logVars, config, saving>>

\* ResolveID wants exactly one match.
Resolve(k) ==
  /\ Listed(k)
  /\ \E d \in IDs :
       /\ client[k].matches = {d}
       /\ client' = [client EXCEPT ![k].pc = IF client[k].verb = "logs" THEN "stdout" ELSE "check",
                                   ![k].target = d, ![k].logged = file[d]]

Ends(k, with) == client' = [client EXCEPT ![k].pc = "end", ![k].outcome = with]

ResolveFails(k) ==
  /\ Listed(k) /\ Cardinality(client[k].matches) # 1
  /\ Ends(k, IF client[k].matches = {} THEN "missing" ELSE "ambiguous")

\* A log file that is missing is skipped.
Content(d, s) == IF file[d][s] = None THEN <<>> ELSE file[d][s]

\* The last pieces of a text, or all of it.
LastOf(text, tail) ==
  IF tail > 0 /\ Len(text) > tail THEN SubSeq(text, Len(text) - tail + 1, Len(text)) ELSE text

ReadStdout(k) ==
  /\ At(k, "stdout")
  /\ client' = [client EXCEPT ![k].pc = "stderr", ![k].got = Content(client[k].target, "stdout")]
  /\ UNCHANGED Files

Output(k, text) ==
  client' = [client EXCEPT ![k].pc = "end", ![k].got = LastOf(text, client[k].tail),
                           ![k].outcome = IF text = <<>> THEN "nothing" ELSE "printed"]

\* Mutant: a container without standard output is taken to have no logs.
ReadStderrAfterStdout(k) ==
  /\ At(k, "stderr")
  /\ LET out == client[k].got IN
     Output(k, IF out = <<>> THEN out ELSE out \o Content(client[k].target, "stderr"))
  /\ UNCHANGED Files

ReadStderr(k) ==
  /\ At(k, "stderr")
  /\ Output(k, client[k].got \o Content(client[k].target, "stderr"))
  /\ UNCHANGED Files

\* Remove loads config.json again, and refuses while the process responds.
Responds(r) == life[r] \in {"alive", "zombie"}
Refuses(d)  == config[d].status = "running" /\ Responds(config[d].run)

\* Mutant: the log files are removed before the check.
CheckFailsLate(k) ==
  LET d == client[k].target IN
  /\ At(k, "check") /\ d \in Readable /\ Refuses(d) /\ Ends(k, "refused")
  /\ file'   = [file EXCEPT ![d] = [s \in Streams |-> None]]
  /\ linked' = [r \in Runs |-> IF IDOf(r) = d THEN {} ELSE linked[r]]
  /\ UNCHANGED <<dirs, confVars>>

CheckFails(k) ==
  LET d == client[k].target IN
  /\ At(k, "check")
  /\ \/ d \notin Readable /\ Ends(k, "missing")
     \/ d \in Readable /\ Refuses(d) /\ Ends(k, "refused")
  /\ UNCHANGED Files

Names(d) == {s \in Streams : file[d][s] # None}
              \cup {n \in {"config.json"} : config[d].status # "none"}

Check(k) ==
  LET d == client[k].target IN
  /\ At(k, "check") /\ d \in Readable /\ ~Refuses(d)
  /\ SetConfig(d, config[d].run, "exited")
  /\ client' = [client EXCEPT ![k].pc = "unlink", ![k].names = Names(d)]
  /\ UNCHANGED <<dirs, logVars, saving>>

\* os.RemoveAll takes the files it finds, in any order ...
Unlink(k, name) ==
  LET d == client[k].target IN
  /\ At(k, "unlink") /\ name \in client[k].names
  /\ client' = [client EXCEPT ![k].names = @ \ {name}]
  /\ IF name = "config.json"
     THEN /\ SetConfig(d, None, "none")
          /\ saving' = {r \in saving : IDOf(r) # d}
          /\ UNCHANGED logVars
     ELSE /\ file'   = [file EXCEPT ![d][name] = None]
          /\ linked' = [r \in Runs |-> IF IDOf(r) = d THEN linked[r] \ {name} ELSE linked[r]]
          /\ UNCHANGED confVars
  /\ UNCHANGED dirs

\* ... and fails to take the directory if one has been made meanwhile.
Rmdir(k) ==
  LET d == client[k].target IN
  /\ At(k, "unlink") /\ client[k].names = {}
  /\ \/ Names(d) = {} /\ Ends(k, "removed") /\ dirs' = dirs \ {d}
     \/ Names(d) # {} /\ Ends(k, "failed") /\ UNCHANGED dirs
  /\ UNCHANGED <<logVars, confVars>>

-----------------------------------------------------------------------------
Init ==
  /\ start \in Starts /\ detached \in Detached
  /\ rpc    = [r \in Runs |-> "new"]
  /\ info   = [r \in Runs |-> r]
  /\ life   = [r \in Runs |-> "unborn"]
  /\ wrote  = [r \in Runs |-> [s \in Streams |-> 0]]
  /\ moved  = wrote
  /\ cut    = [r \in Runs |-> {}]
  /\ dirs   = {}
  /\ config = [d \in IDs |-> [run |-> None, status |-> "none"]]
  /\ file   = [d \in IDs |-> [s \in Streams |-> None]]
  /\ linked = [r \in Runs |-> {}]
  /\ saving = {}
  /\ client = [k \in Clients |-> Idle]
  /\ held   = [k \in Clients |-> {}]
  /\ mishaps = 0

RunStep(r) ==
  \/ Attach(r) \/ Start(r)
  \/ SaveOpen(r) \/ SaveWrite(r) \/ Reap(r) \/ WaitReturns(r)
  \/ DirMissing(r) \/ MainExits(r) \/ HostFails(r)

ClientStep(k) ==
  \/ \E c \in Commands[k] : Begin(k, c)
  \/ Load(k) \/ Resolve(k) \/ ResolveFails(k)
  \/ ReadStdout(k) \/ ReadStderr(k)
  \/ CheckFails(k) \/ Check(k) \/ Rmdir(k)
  \/ \E name \in Streams \cup {"config.json"} : Unlink(k, name)

Next ==
  \/ \E r \in Runs : RunStep(r) \/ End(r)
  \/ \E r \in Runs, s \in Streams : Write(r, s) \/ Copy(r, s) \/ CopyFails(r, s)
  \/ \E k \in Clients : ClientStep(k)

Spec == Init /\ [][Next]_vars

-----------------------------------------------------------------------------
(* Properties.                                                              *)

RunPC    == {"new", "start", "save", "running", "wait", "exit", "exited", "left", "done"}
ClientPC == {"idle", "load", "stdout", "stderr", "check", "unlink", "end"}

Statuses == {"none", "torn", "running", "exited"}
Records  == [pc : ClientPC, verb : {"logs", "rm", None}, prefix : Seq(Digit), tail : Nat,
             entries : Seq(IDs), matches : SUBSET IDs, target : IDs \cup {None},
             logged : [Streams -> Texts \cup {None}] \cup {None}, got : Texts,
             names : SUBSET (Streams \cup {"config.json"}),
             outcome : {"missing", "ambiguous", "printed", "nothing", "refused", "removed", "failed", None}]

TypeOK ==
  /\ start \in Starts /\ detached \in Detached
  /\ rpc \in [Runs -> RunPC] /\ info \in [Runs -> Runs \cup {None}]
  /\ life \in [Runs -> {"unborn", "alive", "zombie", "gone"}]
  /\ wrote \in [Runs -> [Streams -> Nat]] /\ moved \in [Runs -> [Streams -> Nat]]
  /\ \A r \in Runs, s \in Streams : moved[r][s] <= wrote[r][s] /\ wrote[r][s] <= MaxWrites[r]
  /\ cut \in [Runs -> SUBSET Streams] /\ linked \in [Runs -> SUBSET Streams]
  /\ dirs \subseteq IDs /\ IsFiniteSet(dirs) /\ saving \subseteq Runs
  /\ config \in [IDs -> [run : Runs \cup {None}, status : Statuses]]
  /\ file \in [IDs -> [Streams -> Texts \cup {None}]]
  /\ \A d \in IDs \ dirs : Names(d) = {}
  /\ client \in [Clients -> Records]
  /\ \A k \in Clients : client[k].pc \notin {"idle", "load", "end"} => client[k].target \in IDs
  /\ held \in [Clients -> SUBSET dirs] /\ mishaps \in 0 .. MaxMishaps

\* No other run started within the same 65 microseconds.
OwnID(r) == \A q \in Runs \ {r} : SubSeq(start[q], 1, 12) # SubSeq(start[r], 1, 12)

\* ResolveID, whose listing takes many steps, misses no container that was there
\* and readable all the while: not found means that none such matches, and an ID
\* it returns matches and is the only such one.
ResolvesAmongHeld ==
  [][\A k \in Clients : client[k].pc = "load" /\ client'[k].pc # "load" =>
       LET found == {d \in held[k] : Matches(d, client[k].prefix)} IN
       /\ client'[k].outcome = "missing" => found = {}
       /\ client'[k].target # None =>
            found \subseteq {client'[k].target} /\ Matches(client'[k].target, client[k].prefix)]_vars

\* As long as a log file has a name it holds what the workload wrote, in order,
\* with nothing of another container in between; and nothing is missing from it
\* if the workload writes to it itself or Run has returned undisturbed.
LogTellsWorkload ==
  \A r \in Runs, s \in Streams : OwnID(r) /\ s \in linked[r] =>
    /\ file[IDOf(r)][s] = Pieces(r, s, moved[r][s])
    /\ r \in detached \/ (rpc[r] = "done" /\ s \notin cut[r]) => moved[r][s] = wrote[r][s]

\* Some rm has gone past its check for d.
Removing(d) == \E k \in Clients :
  /\ client[k].target = d
  /\ client[k].pc = "unlink" \/ client[k].outcome \in {"removed", "failed"}

\* What logs prints is the standard output of the one container it found and then
\* its standard error, as they were at two moments: each has all that had been
\* logged when the container was found, unless an rm took it. So "no logs" means
\* that nothing had been logged.
LogsAreCurrent ==
  \A k \in Clients, r \in Runs :
    LET c == client[k] IN
    c.verb = "logs" /\ c.outcome \in {"printed", "nothing"} /\ c.target = IDOf(r) /\ OwnID(r) =>
      \E out \in 0 .. wrote[r]["stdout"], err \in 0 .. wrote[r]["stderr"] :
        /\ c.got = LastOf(Pieces(r, "stdout", out) \o Pieces(r, "stderr", err), c.tail)
        /\ ~Removing(c.target) => /\ out >= Len(c.logged["stdout"])
                                  /\ err >= Len(c.logged["stderr"])
        /\ c.outcome = "nothing" <=> out + err = 0

-----------------------------------------------------------------------------
(* The inductive invariant behind them.                                     *)

\* What is open to be saved, was listed as readable or is written by name is there.
NamesAreThere ==
  /\ \A r \in saving : config[IDOf(r)].status # "none"
  /\ \A k \in Clients : held[k] \subseteq Readable
  /\ \A r \in Runs : \A s \in linked[r] : file[IDOf(r)][s] # None

\* A workload writes nothing before its start; a detached one has all it wrote
\* in its files; of another, Run passes cmd.Wait only once its output is moved or lost.
OutputIsKnown == \A r \in Runs :
  /\ rpc[r] = "new" => linked[r] = {}
  /\ rpc[r] \in {"new", "start"} =>
       life[r] = "unborn" /\ \A s \in Streams : wrote[r][s] = 0 /\ moved[r][s] = 0
  /\ life[r] = "unborn" => \A s \in Streams : wrote[r][s] = 0
  /\ r \in detached => \A s \in Streams : moved[r][s] = wrote[r][s]
  /\ r \notin detached /\ rpc[r] \in {"exit", "exited", "done"} =>
       life[r] = "gone" /\ \A s \in Streams : s \in cut[r] \/ moved[r][s] = wrote[r][s]

\* The directory of a run with an ID of its own is there only once that run has
\* made it, and its files go only with an rm.
DirectoryIsOwn == \A r \in Runs : OwnID(r) =>
  /\ rpc[r] = "new" =>
       /\ IDOf(r) \notin dirs
       /\ \A k \in Clients : IDOf(r) \notin client[k].matches \cup {client[k].target}
  /\ rpc[r] # "new" => \A s \in Streams \ linked[r] : file[IDOf(r)][s] = None /\ Removing(IDOf(r))

\* A listing has seen, or will see, what it can miss; what it found has the prefix.
ListingIsKnown == \A k \in Clients :
  LET c == client[k] IN
  /\ c.pc # "end" => c.outcome = None
  /\ c.pc \in {"idle", "load"} => c.target = None
  /\ c.pc = "idle" => c.matches = {}
  /\ c.pc = "load" => \A d \in held[k] : Matches(d, c.prefix) => d \in c.matches \cup Range(c.entries)
  /\ \A d \in c.matches : Matches(d, c.prefix)

\* What logs noted when it found a container, and what it has read, is a beginning
\* of what the workload wrote.
IsBeginning(text, r, s) == \E n \in 0 .. moved[r][s] : text = Pieces(r, s, n)

ReadingIsKnown == \A k \in Clients, r \in Runs :
  LET c == client[k] IN
  c.pc \in {"stdout", "stderr"} /\ c.target = IDOf(r) /\ OwnID(r) =>
    /\ ~Removing(c.target) => \A s \in Streams : IsBeginning(c.logged[s], r, s)
    /\ c.pc = "stderr" =>
         \E out \in 0 .. moved[r]["stdout"] :
           /\ c.got = Pieces(r, "stdout", out)
           /\ ~Removing(c.target) => out >= Len(c.logged["stdout"])

IInv ==
  /\ TypeOK /\ NamesAreThere /\ OutputIsKnown /\ DirectoryIsOwn /\ LogTellsWorkload
  /\ ListingIsKnown /\ ReadingIsKnown /\ LogsAreCurrent

-----------------------------------------------------------------------------
(* Claims of the documents, which the code refutes.                         *)

\* README: each run creates config.json, stdout.log and stderr.log under its
\* own folder; with IDs that are cut off, two runs can have one folder.
RunsHaveOwnDirectory == \A r, q \in Runs :
  r # q /\ rpc[r] # "new" /\ rpc[q] # "new" => IDOf(r) # IDOf(q)

\* log.go: the writers of Attach tee the output to log files. All of it is there
\* once Run has returned.
LogIsComplete == \A r \in Runs, s \in Streams :
  OwnID(r) /\ rpc[r] = "done" => moved[r][s] = wrote[r][s]
=============================================================================
