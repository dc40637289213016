# minidocker: specification, model checking and proofs

This directory holds a TLA+ model of minidocker, TLC configurations that check it
on small instances, and theorems about its core with proofs for TLAPS. Paths such
as `container.go:371` are relative to the package they name (`internal/container`,
`internal/network`, `internal/image`, `internal/isolation`, `internal/log`,
`cmd/minidocker`, `cmd/container-init`). `PROJECT.json` has the exact lines behind
each definition, the mutant that breaks each property and the list of hazards.

    tlc -workers 2 -config rt_safety.cfg MCContainerRuntime
    for m in *Proofs.tla; do tlapm $m; done

## 1. The system

minidocker has no daemon. Every command is a process of its own that reads and
writes the same files, the same iptables rules and the same network interfaces,
and nothing takes a lock. So the hard behaviour is almost all of one kind: several
invocations whose steps interleave, one that is killed or fails half way, and
knowledge (a pid, a status, a list of users) that is stale when it is used.

| part | state | operations | talks to |
|---|---|---|---|
| container runtime (`container.go`) | `config.json` per container: status, pid, mappings; the container's process | Run, Stop, Remove, Exec; List, Inspect, Logs only read | kernel (start, wait, kill), network manager, image store |
| container-init (`cmd/container-init`) | goroutines, signal channel, children | prepare rootfs, start workload, forward signals, reap, exit | kernel, isolation |
| isolation (`setup_linux.go`, `wrapper.go`) | mounts and root of the init; `.pivot_root` in the image | PrepareRootfs; Wrap builds a command line | the rootfs that all containers of an image share |
| network manager (`network.go`) | bridge `minidocker0`, veth pairs, namespaces | Setup, Teardown | `ip`, `nsenter` |
| ports (`port.go`, `registry.go`, `nat.go`) | iptables rules; the registry is the set of `config.json` files | ParsePortMapping, LoadPortRegistry, CheckConflicts, Apply/RemovePortMappings | `iptables`, the container root |
| image store (`image.go`, `oci.go`) | `rootfs/`, `meta`, `manifest.json` per image | Pull, InstallFromTar, InstallFromOCI, RootfsPath, Remove; List, Inspect only read | containers, through rmi |
| layers (`layer.go`) | the rootfs being extracted | ExtractLayers, ApplyLayer | image store |
| manifests (`manifest.go`, `oci.go`) | the documents of a layout, read one by one | ParseIndex, ParseManifest, LayerDigests | image store |
| logs (`log.go`) | `stdout.log`, `stderr.log` | Attach, Read, ReadTail | container runtime, the workload |
| identifiers (`generateID`, `ResolveID`, `hostVethName`, `allocateIP`) | none | functions of a time or an ID, and a listing of the container root | runtime, network |
| command line (`cmd/minidocker`) | none | takes options out of the words; composes the calls above; exits | all |

What is hard in it, and what therefore has to be right:

- **Runtime.** A status in `config.json` is written by the run, by a stop and by an
  rm, each with a truncation and a write (`saveInfo` is `os.WriteFile`). It must
  never be *ahead* of the process (exited while it lives, deleted while nobody
  asked it to end), never bring a removed container back, and, if anybody is left
  to do it, in the end not stay *behind* it. Pids are reused.
- **Ports.** The check, the rules and the save that makes the next check see them
  are separate steps. Rules must stay as long as their container and no longer.
- **Bridge.** Setup is a list of commands that share names with other Setups. What
  an interrupted one leaves must not stop the next, and a container that was given
  an address must stay connected.
- **Images.** `meta`, `rootfs` and `manifest.json` are replaced one by one. What
  `meta` says must be what the rootfs holds; rmi must not take an image in use.
- **Layers.** The result must not depend on the order of a tarball's entries.
- **Container directory.** A workload, a copying goroutine, a reader and an rm use the
  same files at once, and the container is found by a prefix while others come and go.
  The log must tell what this workload wrote.
- **Documents and words.** A layout is accepted stage by stage, after some of which the
  old image is gone. A command line passes two parsers, one of which must not take
  anything from the other's.
- **Init.** Exit code, orphans and signals must come out right whichever child
  ends first and whenever a signal comes.
- **Rootfs.** No workload may start with the host's root still mounted, though
  all inits of an image use one directory to put it in.

## 2. The modules

Each component module has its state as VARIABLES, one action per system call or
command that touches shared state, bounds as CONSTANTS, and its properties at its
end. The MC module beside it gives the constants values. Definitions called
`...Forgotten`, `...IgnoresProcess` and so on under a comment `Mutant:` are wrong
variants of the definition after them; no specification uses them.

| module | models | abstraction |
|---|---|---|
| `ContainerRuntime` | `Runtime.Run`, `Stop`, `Remove`, `Exec`, the waiter goroutine, `os.Exit` of the command line, processes, pids | one container per run; a JSON text is its status; lengths matter only as far as a shorter text leaves the end of a longer one |
| `Lifecycle` | abstract specification of what the runtime promises: record, process, SIGTERM | |
| `PortMappings` | `ParsePortMapping`, `ValidatePortMappings`, `CheckConflicts`, `portMappingRules`, `insertAfter` as operators; the argument syntax of iptables | an argument of `-p` is its parts between colons: a number, an address or a word |
| `PortCases` | the operators on every input of a small instance | |
| `PortPublishing` | registry check, rules, save and `Remove` of concurrent runs; iptables as a bag of rules | `config.json` is absent, truncated, or says running or something final |
| `BridgeNetwork` | `Setup`, `Teardown` command by command, on the links that the names of the commands find, whoever made them | a namespace is the set of things configured in it |
| `Identifiers` | `generateID`, `hostVethName`, `allocateIP`, the prefix test of `ResolveID` | a time is its sixteen hexadecimal digits |
| `ContainerDirectory` | `Logger.Attach` and the two ways of the output, `ResolveID`, `Read`, `ReadTail`, and `Remove` file by file | what a workload writes is numbered pieces; a write behind the end of a file leaves `Hole` |
| `CommandLine` | `cmdRun`'s options, `Wrapper.Command`, `CloneFlags`, and `flag.Parse` of container-init | a word is in one of the sets of words the code tells apart |
| `ImageStore` | the three installs, `rmi`, and runs as far as they use images | a rootfs has two paths; each file is the install it came from |
| `Layers` | `ExtractLayers`, `ApplyLayer`, beside an order-free overlay | no symbolic links, no modes; hard links and other types are entries that are skipped, as `ApplyLayer` does |
| `OCIInstall` | `InstallFromOCI` stage by stage, `ParseIndex`, `ParseManifest`, `Inspect` | a document that is no JSON is `None`; a digest is an algorithm and a hash |
| `ContainerInit` | main goroutine, forwarder, the Go runtime's signal queue, PID namespace | `PrepareRootfs` is one step |
| `RootfsSetup` | `PrepareRootfs` of several inits on one rootfs, call by call | only `.pivot_root` is shared |
| `InitOnImage` | the two together: one container-init from exec to exit beside other inits on its image | |
| `<Module>Proofs` | the theorems about `ContainerRuntime`, `PortPublishing`, `BridgeNetwork`, `ImageStore`, `ContainerDirectory`, `OCIInstall` (with `Layers`) and `InitOnImage` (with `RootfsSetup`); `CasesProofs` those about `PortCases` and `CommandLine` | |

Composition. `PortPublishing` EXTENDS `PortMappings` and runs its operators on the
shared state. `InitOnImage` EXTENDS `ContainerInit` and `RootfsSetup`: the one step of
the first for `PrepareRootfs` is replaced by the calls of the second, and a signal
that ends init there is a crash of the second. `OCIInstall` EXTENDS `Layers`, whose steps
are one of its stages. `ContainerDirectory` EXTENDS `Identifiers`, and the instances of
`BridgeNetwork` and `PortPublishing` take their `VethOf` and `IPOf` from it, so that two of the
runs have one name or address is what the code computes for their times. `ContainerRuntime` has
`Lifecycle` as an INSTANCE under a refinement mapping. The modules otherwise meet in what they
abstract of each other: the steps of `Run` and `Remove` in `PortPublishing`, `BridgeNetwork`,
`ImageStore` and `ContainerDirectory` are those of `ContainerRuntime` with the detail
the property does not need left out (the comment at the head of each says which).

State of `ContainerRuntime` in terms of the code: `conf[r]` is the file
`<root>/<id>/config.json`; `fds[r]` the invocations between the open and the write
in `os.WriteFile`, emptied when the file is unlinked, because their write then goes to a
file nobody can reach; `owner`, `pid` and `life` are the kernel's; `rpc[r]` is the
program counter of Run and, after the first save, of `cmd.Wait` and what follows;
`cpc[k]` that of a stop, rm or exec; `record[r]` is a history variable, the last
complete save, which properties need because the file itself may be torn.

External definitions (marked in `PROJECT.json`) are what the code relies on: wait and
reparenting, pid allocation, wait statuses, `iptables` argument syntax, `ip link del`,
file offsets and unlinked files, Go's `flag` package, and what the Go runtime does with a
signal before and after `signal.Notify`.

## 3. What TLC checks

Deadlock is not checked, except in `cases` and `port_bindip`, which only
stutter: every other system really stops when all invocations have ended.

### ContainerRuntime

`rt_safety`: a foreground and a detached run, two clients that each do one of stop,
rm or exec on any container, two pids which foreign processes take as well, one
killed invocation, one failing system call (1.2 million states with symmetry in
clients and pids).

| property | says |
|---|---|
| `ExitedIsDead` | a readable status of exited is true for ever: process gone and waited for |
| `FinalOnlyWhenReleased` | stopped, exited or deleted is recorded only once the process is dead or was sent SIGTERM |
| `LiveIsReadable` | without faults and kills, a live container that nobody is saving or removing has a readable `config.json`. The saves of an rm and of a stop both end in a whole text as long as nobody writes exited for a live one |
| `RemovedStaysRemoved` | no save that was under way, of a stop or the run, recreates a removed container |
| `ImplementsLifecycle` | every step is one of `Lifecycle` or none |
| `IInv` | the inductive invariant of the proofs (section 4), of which the types are a part |

`rt_fair`: `DeathIsRecorded` under fairness, for a run whose host process outlives
Run, against two clients. `rt_waiter`: the same property for the command line,
where it fails (section 5).

Two clients are enough for the races the code has: each hazard is between the run
and one client (save against save, exit against stop) or between two clients (stop
against rm, exec against both). A third adds no new pair, and the theorems hold
for any number. Two pids and two runs let a pid go from one container to another.

### Ports and command lines

`cases` evaluates operators, one case per initial state. All pairs of mappings (two
addresses and the empty one, two ports, three spellings of the protocol) and all arguments of
one to four parts, with ports from 0 to `MaxPort + 1`:

- `ConflictIsOverlap`: the conflict test is exactly overlap of the destinations taken, and
  the test within one `-p` list refuses exactly two bindings that take over the same.
- `ConnectionsReachContainer` (README 405: "traffic to the host port reaches the container's bridge
  IP"): the rules of two mappings that do not conflict, of two containers, are installed up to the
  first that iptables refuses. A connection to an address of the host, from outside or from the host,
  is then followed through the DNAT rules and FORWARD: it reaches the container that publishes its
  port on all interfaces, and no other. The rules of such a mapping have no `-d`, so they take
  connections to other hosts at that port as well; the property is about those to this one.
  `0.0.0.0` is to the code, and to iptables, an address like any other.
- `ParseInvertsWriting`: an argument is accepted if and only if it is a way to write
  a mapping, and gives that mapping.

All command lines of up to four words of thirteen, and of five of ten of them (every option
in every place, a mode taken back, a mapping given twice, `--`, a word that looks like a
flag, and the empty word):

- `OptionsAsGiven`: run starts if and only if the options are right wherever they stand, and
  publishes, detaches and clones as they say; the words are counted by position, not in the
  order the loop takes them.
- `InitRunsCommand`: what is left over goes through the second parser untouched.

`publishing`: two runs with a conflict and one address (`SharedIP`, of two IDs with the same
digits in another order), one of which may use the host's network, a stop, two rms, and one
failing command or killed run (1.4 million states with symmetry in the rms). Two containers
publish overlapping bindings only if their runs overlapped, or one read the other's file
while it was being rewritten (`ConflictNeedsRace`). A container's rules stay, each as often as
its list has it, until its own rm, unless the rm of a container with its address tries to remove
more than was installed for that one: after a list installed in part, on the host's network, or
with another rm of the same container (`RulesStay`). If no command fails, iptables has no rule more
often than the containers that are not removed installed it (`RulesGo`), so that what was
installed of a list in part goes as well: the first run's list is, when it is not on the host's
network, since iptables refuses its second mapping (section 5). The second run has two mappings
to one container port, which makes two *equal* FORWARD rules, and its first mapping makes the
rules of the first run's, so the bag matters. `RegistryInv` and `RulesInv`, the inductive
invariants of the proofs, are not among its invariants, which would only repeat them; added to
the cfg they hold as well (347 594 states with `MaxStops = 0`).

### BridgeNetwork

`bridge`: three runs of which two started within four seconds of each other, so that their
links have one name (`SharedName`), a host with or without eth0, a process that may end at any
command, and one mishap (a failing command or a killed run; 506 439 states).

- `StaysConnected`: a container that Setup returned an address for is connected until its process
  ends or its own rm, or `robbed` has it: a command of another one took its link. Only the rm of a
  container with the same link name does that; a Setup that finds the name taken fails and leaves
  the link alone, and so does its cleanup.
- `FailureHasReason`: Setup fails only because a command failed by itself, its process ended,
  another Setup overlapped, or a container was connected under its name. What earlier runs left
  behind is no reason.
- `NoPairLeft`: no pair outlives its container if no command fails by itself.
- `BridgeInv`, the inductive invariant of the proofs, and under fairness `BridgeGetsReady`.

Three runs allow two that overlap after one that has left something behind, and two of one name
beside a third.

### ImageStore

`image_store`: two installs of every combination of the three kinds, a run, an rmi,
one mishap, all on one name (850 218 states with symmetry in the installs). `MetaTellsContent`:
when nobody is at work there, the `meta` of an image is that of the install that filled its rootfs,
and an OCI image has its own `manifest.json`, unless the directory is `broken`: an install failed
there, was killed, or overlapped another or an rmi, *and* no undisturbed install or rmi went
through since. So whatever is left over, the next install mends it.
`RmiTakesUsedOnlyByRace`: rmi takes the image of a container only if it overlapped
the run or a save of its `config.json`. `StartsOnWholeImage`: a run starts on a rootfs
that was completely installed, unless an install or rmi overlapped it or the directory is broken.
`IInv`: the inductive invariant of the proofs.

### ContainerDirectory

`container_dirs`: two runs 65 microseconds apart whose IDs share three digits; the second is in the
foreground, the first may be detached, writes one piece to each stream, and may fail to start or be
killed; `logs -n 1` by the common prefix; rm by a full ID; one mishap (1.4 million states).
A detached run's goroutine (`waitAndFinalize`) may get as far as it likes before main exits
(`MainExits`), and saves what it reads; a foreground run saves what it has.
`LogTellsWorkload`: as long as a log file has a name, it holds what its workload wrote, in
order, and all of it if the workload writes to it itself or Run has returned undisturbed.
`LogsAreCurrent`: what logs prints was there at two moments after it found the container.
`ResolvesAmongHeld`: the listing misses no container that was readable all the while, so an
ID it returns is the only one. `IInv`: the inductive invariant of the proofs. One piece is enough for a reader
to see one stream with it and the other without; a second run is needed for ambiguous prefixes.
The run has IDs of 65 microseconds apart; the theorems of `ContainerDirectoryProofs` are of any
`Starts`, runs within the same 65 microseconds, who share a directory, among them, where they
speak of the containers that have an ID of their own.

### Layers

`oci_install`: the layouts of all images of two layers of up to three entries, skipped ones among
them, over the paths a, a/b and c, and eighteen layouts with an unusual or defective document or blob, each
installed over nothing, over an image of a tarball and over one of another layout.
`ExtractsOverlay`: an extraction that succeeds gives the overlay of
the layers (at each path, what the uppermost layer that tells of it says), for layers without opaque markers that do not white out what they add themselves.
`InstallsWellFormed`: a layout is accepted if and only if it has all that its install will
use, so no stage trusts what a later one needs. `RejectedKeepsImage`: an index or
manifest that cannot be used leaves the stored image as it was. `InstalledIsTold`: what
`inspect-image` tells is the layers the rootfs was made of, whatever was stored before.
Three paths have a parent, a child and a sibling; two layers are what one whiteout needs.

### Init and rootfs

`init_on_image`: a container-init with its workload, an orphan, two exit codes, SIGINT and SIGTERM, in a PID
namespace of its own and in the host's, on an image that another init sets up at the same
time, with one failing call and one kill.

- `OldRootIsGone`, `FailureHasReason` (overlap or fault, never leftovers) and `ImageIsTidy`:
  the shared `.pivot_root`.
- `ProcessesAreConfined`: no process of the container ever runs while its init can reach
  the host's root.
- `ExitTellsWorkload`: once init waits it ends only with the workload, with its code or 128
  plus its signal. `OrphansAreReaped`. `SignalHasEffect`: a channel of length one can drop a
  signal when several come together, but one of them comes through, or the workload has ended.
- `HelperInv`: the inductive invariant of the proofs.

One other init makes every overlap of two setups; the theorems hold for any number.

### Fairness

- `ContainerRuntime`: weak fairness of the steps of each invocation (a process that
  runs is scheduled and its system calls return) and of `HostExits` (main calls
  `os.Exit` right after Run, `main.go:34-36`). When a workload ends, whether a
  command is typed, and kills and faults have no fairness. In the foreground, `cmd.Wait`
  also waits until the output pipes are closed; the model lets it return when the process
  has ended, which is what it does unless a grandchild holds the pipe.
- `BridgeNetwork`: weak fairness of the steps of each Setup, likewise.
- `InitOnImage`: weak fairness of the main goroutine (its calls of `PrepareRootfs` included), of
  the forwarder and of the Go runtime's delivery; none for processes that end, signals that
  come, or the other inits.

## 4. What is proved

Each theorem holds for all values of the constants that satisfy the named assumptions of the
module, which state what the code guarantees of them (special values are none of the ordinary
ones, sets of actors are disjoint, bounds are naturals). A hypothesis beyond that is named in the
theorem. TLC checked every inductive invariant before its proof, on the instances of section 3.
The step lemmas have one step per action and under it one per conjunct the action disturbs.

### ContainerRuntimeProofs

For any sets of runs, clients and pids, any choice of detached and embedded runs, any number of
kills and faults (`ConstantsAssumption`).

| theorem | |
|---|---|
| `RecordInvariance`, `Invariance` | `Spec => []RecordInv`, `Spec => []IInv` |
| `TypeCorrect` | `Spec => []TypeOK` |
| `ExitedIsDeadAlways`, `FinalOnlyWhenReleasedAlways` | the two safety invariants about the record, from `RecordInv` |
| `LiveIsReadableAlways` | without faults and kills a live container's file can be read, from `IInv` |
| `RemovedStaysRemovedAlways` | the action property, from `RecordInv` |
| `LifecycleImplemented` | `Spec => LifecycleOf!LSpec`: the refinement |

Why the invariant is more than the properties. That exited means dead is true when
the last save says so, but the save was decided earlier, by an actor that looked at
something else. So the induction needs, for each actor, that what it found out stays true
while it acts on it:

- `PidIsHeld`: a process that was not waited for keeps its pid. This makes
  a failed `kill(pid, 0)` in Remove a proof of death, though a successful one proves
  nothing.
- `PhaseFixes`: how far Run has come fixes what can be true of its process and record.
- `RecordIsOfFile`: a readable file is the last complete save; a file that does not exist
  is open to nobody, so nobody's late write recreates it.
- `RecordIsJustified`: what must hold of the process for each record.
- `ClientIsJustified`: between a client's look and its write its container
  stays released (for a stop, an rm of a final one) or reaped (for an rm that relabels).

These are `RecordInv`. `LiveIsReadable` is about the text and needs `TextInv` beside it, whose
induction uses `RecordInv`: `WritersAreSaving` (who has the file open is between its open and its
write), `EmptyIsBeingSaved` (without faults and kills a truncated file has a writer left) and
`GarbageIsOfDead` (only `exited`, the shortest status, leaves the end of a longer text behind, and
it is written only for a process that was waited for).

`LifecycleStep` maps the saves to `RecordRunning`, `RecordStopped` and `RecordExited`,
`RemoveRmdir` to `Delete`, starting and ending of the process and the signal to
`Launch`, `Die` and `Terminate`, and everything else to stuttering.

### CasesProofs

For all addresses, ports and words (`MappingAssumption`; `CasesAssumption`: a host has at least
two addresses, its loopback address and one more. With a single address a mapping for that address
and one for all would take over the same connections under different keys).

| theorem | |
|---|---|
| `ConflictIsOverlapAlways` | the registry's conflict test is overlap of the destinations, the test of one list equality |
| `ConnectionsReachContainerAlways` | a connection to a published port reaches its container through the rules that iptables accepts, for any two containers and mappings that do not conflict |
| `ParseInvertsWritingAlways` | an argument of one to four parts is parsed if and only if it writes a mapping (`WrittenParses`, `ParsedIsWritten`), so no argument stands for two |

And for all command lines, sequences of words of any length (`LineAssumption`; `WordAssumption`:
a word that `ParsePortMapping` accepts begins with no dash, and a word of the open classes
`OtherModes` and `OtherDashed` is none of the known options):

| theorem | |
|---|---|
| `OptionsAsGivenAlways` | run starts if and only if each `-p` has a mapping behind it, no two the same, no mode is unknown, and an image and a command are left over; it then starts with just these options, of each mode the last one given |
| `InitRunsCommandAlways` | container-init gets from its own parser the rootfs, the hostname and the command that run was given |

`cmdRun` gathers options while it walks over the words, the property names the places where they
stand. `Tells` relates the two for the first n words: which switches are on, that the ports are the
words behind the `-p`s and differ if and only if these do, and that as many words are left over as
there are other places, the first two of them at the first two. It goes from n to n + 1 by one
lemma per conjunct (`GoodStep`, `SwitchesStep`, `PortsStep`, `RestStep`). `FlagsAreParsed` follows
the second parser over the two flags and the `--` that run puts before the command, after which it
takes nothing more out.

### PortPublishingProofs

For any runs, clients and publish lists (`PublishingAssumption`: each list consists of mappings).

| theorem | |
|---|---|
| `RegistryInvariance` | `Spec => []RegistryInv` |
| `ConflictNeedsRaceAlways` | two containers publish overlapping bindings only after a race |
| `RulesInvariance` | `Spec => []RulesInv`, which includes the whole `TypeOK` |
| `RulesStayAlways` | rules stay until their container's own rm, whatever addresses others have, unless an rm tries to remove more than was installed |
| `RulesGoAlways` | if no command fails, no rule is there more often than containers that are not removed installed it |

The registry check is true when it is made; what matters is that it stays true until the save. So
`RegistryInv` follows the listing: `PublishersAreSeen` says that a run that loads the registry
has seen each rival that publishes, or has it still to read, or has raced with it, and past the
check only the last is left; `RivalsInFlightRaced` covers a rival that has not saved yet;
`UpHasSaved` makes an unreadable file of a published container one that is being rewritten.

iptables keeps rules in a bag: two mappings of one container make equal rules, so do two
containers with one address (`allocateIP` is a sum of bytes modulo 250, so addresses agree often), each
is installed and removed by its place in a list, and a removal takes one copy. So the invariant
counts places, of all containers together: `Laid` are the places where a rule was installed, `Held`
those of them that no rm has passed. `NoneInExcess` bounds the copies in the bag by the places held
from above, as long as no command failed; it holds also if several rms remove one list at once,
since each place they pass goes only once. `NoneIsMissing` bounds them from below, as long as nobody
who has the rule in a list takes more than his own (`TakesItsOwn`: an rm of a container passes only
places where its run installed, and one rm does). A step of a run or an rm then adds or takes one
place and one copy. `RemovesSaved` keeps an rm from beginning while the list is being installed,
and `RemovedIsPassed` makes the places of a removed container places an rm has passed.
`RulesTellAddress` says that every rule of a list, through the folds that build it, names the
address of its container, so only containers with one address share any.

### BridgeNetworkProofs

For any number of runs, failing commands and kills (`NetworkAssumption`).

| theorem | |
|---|---|
| `BridgeTypeCorrect` | `Spec => []TypeOK`, which includes that nothing without a link is attached or up |
| `BridgeInvariance` | `Spec => []BridgeInv` |
| `StaysConnectedAlways` | an address that was returned stays connected, unless the rm of a namesake takes the link |
| `NoPairLeftAlways` | no pair outlives its container if no command fails by itself |
| `FailureHasReasonAlways` | Setup fails only for a reason, never for what earlier runs left |

Names are those of the code, and may agree: runs within four seconds of each other, nearly every two
that overlap, have one link name. `OneHasTheName` is what the kernel makes of that: of the containers
with one name at most one has a link. So a Setup under a name that is taken ends at its first
command, and each later command of a Setup finds its own link, unless an rm of another
container with that name deleted it, and perhaps a third one made it anew. Whom that happens to is
in the history variable `robbed`, and `TakenOnlyByRm` says that nothing but an rm puts anybody there.
`BridgeInv` says, for a living container that is not among them, which commands' effects Setup may
count on at each point (`CommandsDone`); that rests on the peer of a pair being nowhere but on the
host or with its own run (`PairIsOwn`), on there being only one interface called eth0 on the host
(`Eth0IsOwn`, so the move takes the run's own), and on a pair being reclaimed with its
process (`PairIsReclaimed`). `FailureHasReason` needs that a Setup which has no excuse meets the
bridge, the host and its name as its own commands left them (`BlamelessGoesWell`), and that a peer in
the host's namespace has a run that is still to move or delete it (`HostPairHasOwner`). Without the
exception for an rm the property fails (`StaysConnectedToo`, section 5).

### ImageStoreProofs

For any installs of any kinds, runs and removals under any names and directories, any number of
mishaps (`StoreAssumption`).

| theorem | |
|---|---|
| `Invariance` | `Spec => []IInv` |
| `MetaTellsContentAlways` | the metadata of an image whose last install was undisturbed is that of its rootfs |
| `StartsOnWholeImageAlways` | action property: a container starts on a whole rootfs unless somebody overlapped |
| `RmiTakesUsedOnlyByRaceAlways` | action property: rmi takes an image in use only by a race |

Nobody is told of the others, so the invariant relates what each has done to who has overlapped
it: `BusyTogether` (two at work in one directory are noted as a pair), `LoneInstallIsKnown` (an
install without company finds what it left, `Progress`, whatever was there before it began),
`UnbrokenIsSettled` (between installs a directory that is not broken holds no image or all of
one; an undisturbed install or rmi makes it so), `UnseenUserOverlaps` (a user that rmi did not find
was saved while it ran) and `FoundIsWhole` (what run looked up stays true until it starts).

### ContainerDirectoryProofs

For any runs and clients, start times, prefixes, amounts of output and mishaps, runs with equal IDs
included (`DirectoryAssumption`; the properties speak of containers with an ID of their own).

| theorem | |
|---|---|
| `Invariance` | `Spec => []IInv` |
| `LogTellsWorkloadAlways` | a log holds what its workload wrote, in order, and all of it when Run vouches for it |
| `LogsAreCurrentAlways` | what logs prints is at least all that had been logged when it found the container |
| `ResolvesAmongHeldAlways` | action property: a listing misses no container that was readable all the while |

`OutputIsKnown` counts what has left the workload, the pipe and the copying goroutine,
`DirectoryIsOwn` says that only an rm takes the files of a directory, `ListingIsKnown` that what
a listing can still miss is behind it or in front of it, and `ReadingIsKnown` that a read ends in a
beginning of the output no shorter than the one noted.

### OCIInstallProofs

For any layouts, layers, entries and paths closed under parents, over any stored image
(`InstallAssumption`, `PathAssumption`).

| theorem | |
|---|---|
| `Invariance` | `InstallSpec => []IInv` |
| `InstallsWellFormedAlways` | a layout is installed if and only if it has all it needs, or a file is in the way of a directory |
| `RejectedKeepsImageAlways` | a rejected index or manifest leaves the stored image |
| `InstalledIsToldAlways` | inspect-image tells the layers the rootfs was made of |
| `ExtractsOverlayAlways` | an extraction that succeeds leaves the overlay, in whatever order the entries come |

`StagesAsk` and `LayersAsk` say what has been asked of the layout at each stage.
`TreeIsExplained` names, for what is in the rootfs, the entry that put it there, so a failing entry
proves a `Clash`. `TreeIsOverlay` makes the overlay hold at every step, of the part extracted
so far: an entry of the topmost layer changes the rootfs as it changes the overlay, also when a
whiteout takes a whole subtree or comes after the entries beside it.

### InitOnImageProofs

First about `RootfsSetup` alone, for any number of inits on one image, any number of failing calls
and of kills (`RootfsAssumption`: `NoDir` is no init, the bounds are naturals):

| theorem | |
|---|---|
| `SetupInvariance` | `SetupSpec => []IInv` |
| `OldRootIsGoneAlways` | no workload starts with the host's root mounted |
| `FailureHasReasonAlways` | a setup fails only by a failing call or by overlap |
| `ImageIsTidyAlways` | without faults and kills `.pivot_root` does not stay in the image |

`.pivot_root` can change hands between two calls of one init, so its `IInv` says whose
view of it can be trusted:

- `Unmounted`: past its unmount an init has no mount of the old root left.
- `AloneIsUndisturbed`: an init that no other has overlapped is alone in its setup and
  finds the directory it made, with its old root on it.
- `MakerHoldsDir`: without faults and kills the directory, if it is there, belongs to an
  init that is between making and removing it. All that init's calls before the removal
  find the directory, so they succeed.

Then about the composition, for any orphans, signals and exit codes and both kinds of PID
namespace (`InitAssumption`, `RootfsAssumption`, `MeAssumption`: `me` is one of the inits):

| theorem | |
|---|---|
| `HelperInvariance` | `HelperSpec => []HelperInv` |
| `HelperImplementsSetup` | `HelperSpec => SetupSpec`: on the image, an init with its processes is one of the inits of `RootfsSetup`, so the theorems above hold for it |
| `ProcessesAreConfinedAlways` | no process of the container runs while its init can reach the host's root |
| `ExitTellsWorkloadAlways` | the exit code is the workload's |

`HelperInv` joins the two invariants by `PhaseFollowsSetup` (where the main goroutine is says
how far `PrepareRootfs` has come and whether there are processes; the other inits cannot
change either) and `ZombiesHaveStatus` (Wait4 returns the status the process left, which a
later signal does not change).

### Lists of any length

The library states induction with an operator as a parameter, which the provers cannot
instantiate. The lemmas about lists and folds here do without it: `NumbersInduction` of
`PortPublishingProofs` and of `CasesProofs` is induction over a *set* of numbers, from the
well-foundedness of `<`. `Flattens...`, `GatheredIs` and `ParsedFlagsIs` use it to prove that the
recursive functions behind `FlattenSeq` and behind the two parsers exist, and what they return. No recursive definition is needed for the overlay, which names the uppermost layer that
decides a path.

### Model-checked only

- Liveness (`DeathIsRecorded`, `BridgeGetsReady`, `OrphansAreReaped`, `SignalHasEffect`), which
  the prover does not do under fairness.
- `allocateIP` and `generateID`, which the instances compute for given times.


## 5. Where code and documents disagree

Three disagreements have a run of their own:

| run | claim | what happens |
|---|---|---|
| `rt_waiter` | README 424: with `-d` "a background goroutine waits for exit" | main exits after Run returns and takes the goroutine along; `config.json` says running for ever |
| `port_bindip` | README 413: `-p 127.0.0.1:8080:80` listens on localhost only | `insertAfter` puts `-d` between `-p` and the protocol; iptables rejects the rule, and Run only warns |
| `layers_opaque` | `layer.go:14`: whiteouts of both kinds are honored; README 301: "mirrors Docker overlay semantics" | the opaque marker is skipped, lower entries stay visible; README 301-304 says that it is skipped, in the same sentence |

The rest follows from the absence of locks, or from names and addresses that
are too short. Each is a definition at the end of its module, under the comment of the
document it quotes. Put it in the place of the properties of the configuration named here
and TLC prints the behaviour within seconds.

| claim | cfg | what happens |
|---|---|---|
| `ConfigIsJson` (README 362) | `rt_safety` | a kill, or two saves that overlap, leave a file that is not JSON |
| `RemoveRefusesLive` (README 230) | `rt_safety` | after a stop, rm deletes a container whose process still responds |
| `ExitedIsFinal` (README 220) | `rt_safety` | a late save of a stop overwrites exited |
| `StopSignalsItsContainer` (`container.go:357`) | `rt_safety` | the pid belongs to another process by now |
| `ExecEntersItsContainer` (`container.go:287`) | `rt_safety` | likewise |
| `NoConflict` (README 432) | `publishing` | two runs check before either has saved |
| `LaterRunIsRejected` (`registry.go:21`) | `publishing` | the registry skips a file that is being rewritten |
| `MasqueradeOnce` (README 418) | `publishing` | once per process is once per run |
| `RulesStayToo` (README 419) | `publishing` | the rm of a container on the host's network, or with a list installed in part, removes a whole list of rules for the address derived from its ID, which may be another's |
| `BridgeIsReady` (README 402) | `bridge` | a bridge that was just added is taken as it is |
| `FailureHasReason` without its first condition | `bridge` | the peer is called eth0 in the host's namespace; a run killed before the move leaves it there |
| `StaysConnectedToo` (README 403) | `bridge` | two IDs that agree in eight characters share a link name: the rm of one container deletes the link of the other |
| `StoredIsWholeInSequence` (README 249) | `image_store` | a failed install leaves the old meta beside a partial rootfs |
| `ManifestIsOCIOnly` (README 288) | `image_store` | a pull keeps the old `manifest.json` |
| `RunsStoredImage` (README 249) | `image_store` | run asks for the directory only |
| `RmiSparesUsed` (README 252) | `image_store` | a run saves its use of an image after rmi has asked |
| `RmiSparesEarlierUsers` (README 252) | `image_store`, `Name <- TwoNames` | two names have one directory, users are compared by name |
| `WorkloadEndsWithInit` (README 228) | `init_on_image` | with `--pid=host`, a signal between Start and Notify ends init only |
| `SetupsAreIndependent` (README 236) | `init_on_image` | one init's removal of `.pivot_root` makes another's setup fail |
| `RunsHaveOwnDirectory` (README 427) | `container_dirs`, `Starts <- AnyStarts` | two runs within 65 microseconds have one ID |
| `LogIsComplete` (`log.go:25`) | `container_dirs` | when the log cannot be written, nobody reads the pipe any more, and what a foreground workload wrote to it is lost |
| `OthersAreExtracted` (README 301) | `layers_opaque` | hard links, devices and fifos of a layer are skipped, and the extraction succeeds |
| `ListedIsRemovable` (README 249) | `oci_install` | a layout rejected after its manifest leaves a meta without rootfs: images lists it, rmi does not find it |
| `FailedKeepsImage` (README 249) | `oci_install` | the old rootfs is removed before layers and config are looked at |
| `CommandIsVerbatim` (`main.go:23`) | `cases` | options are taken out of the command as well |

Where a claim fails only under a condition, the property that is checked states the
condition (`ConflictNeedsRace`, `RulesGo`, `FailureHasReason`, `MetaTellsContent`,
`RmiTakesUsedOnlyByRace`), so a change that makes it fail otherwise is noticed.

## 6. Not modelled

- Symbolic links and modes in layers. Entries of the types that `ApplyLayer` has no case for (hard
  links, devices, fifos) are skipped in the model as in the code.
- The text of documents: JSON and `meta` are decoded or not, and what is checked of a
  decoded document is in `OCIInstall` and `ImageStore`. Byte counts of digests.
- What `ps`, `inspect`, `images` and `inspect-image` print. A `ps` changes nothing: it
  does not update a stale status. Its listing is that of `ResolveID`, which is modelled.
- URLs of the demo images; where the helper binary is searched for (`wrapper.go`), which reads the
  environment and keeps no state. `harden_linux.go` sets one flag of the calling process:
  it is the step of `ContainerInit` that may fail.
- `os.RemoveAll` of a rootfs and of a layer's path is one step. Removal of a
  container's or an image's directory is two (content, directory), and in `ContainerDirectory`
  one for every file, since a concurrent save can come in between.
- A concurrent `extractTar` on one path, which opens without truncating: the model
  lets the last one win, and the properties speak of undisturbed installs only.
- Tests, their harness and the fixture scripts: no part of the program.

## 7. Plan

Done: every component of section 1, model-checked, and a theorem for every safety property of a
passing run. Next, in this order:

1. Abstract specifications of the port registry (an atomic reserve and release) and of
   the image store (an atomic replace), with the exact condition under which the code implements them.
2. `Layers` with symbolic links.
