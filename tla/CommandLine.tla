----------------------------- MODULE CommandLine -----------------------------
(***************************************************************************)
(* How the words after `minidocker run` reach the container: cmdRun        *)
(* (cmd/minidocker/main.go) takes its options out of them, Wrapper.Command  *)
(* (internal/isolation/wrapper.go) makes arguments and clone flags of the   *)
(* rest, and flag.Parse in container-init takes the arguments apart again.  *)
(* A word is a string; what matters of it is which of these sets it is in.  *)
(***************************************************************************)
EXTENDS Naturals, Sequences, SequencesExt

CONSTANTS
  CommandLines, \* what may follow `minidocker run`
  Published,    \* the words ParsePortMapping accepts
  Binding,      \* bindingKey of the mapping it makes of each of them
  OtherModes,   \* the words that begin with --net= or --pid= and go on as none known
  OtherDashed   \* the other words of more than one character that begin with a dash

ASSUME LineAssumption == CommandLines \subseteq Seq(STRING) /\ DOMAIN Binding = Published

VARIABLE words

LineSpec == words \in CommandLines /\ [][UNCHANGED words]_words

-----------------------------------------------------------------------------
(* cmdRun.                                                                  *)

Detach  == {"-d", "--detach"}
Publish == {"-p", "--publish"}
Modes   == {"--net=host", "--net=bridge", "--pid=host", "--pid=private"}

\* What is gathered before the first word; publish is true when -p was the last.
NoOptions == [ok |-> TRUE, publish |-> FALSE, detach |-> FALSE, ports |-> <<>>,
              HostNetwork |-> FALSE, HostPID |-> FALSE, positional |-> <<>>]

\* The word behind -p, which must be a mapping.
TakePort(run, word) ==
  [run EXCEPT !.publish = FALSE, !.ok = @ /\ (word \in Published), !.ports = Append(@, word)]

\* Mutant: a mode is not taken back by a later one.
TakeModeOnce(run, word) ==
  [run EXCEPT !.HostNetwork = @ \/ (word = "--net=host"), !.HostPID = @ \/ (word = "--pid=host")]

\* A mode stands until a later one of the same kind.
TakeMode(run, word) ==
  [run EXCEPT !.HostNetwork = (word = "--net=host") \/ (@ /\ word # "--net=bridge"),
              !.HostPID     = (word = "--pid=host") \/ (@ /\ word # "--pid=private")]

\* The next word, wherever it stands.
Take(run, word) ==
  IF run.publish THEN TakePort(run, word) ELSE
  CASE word \in Detach     -> [run EXCEPT !.detach = TRUE]
    [] word \in Publish    -> [run EXCEPT !.publish = TRUE]
    [] word \in Modes      -> TakeMode(run, word)
    [] word \in OtherModes -> [run EXCEPT !.ok = FALSE]
    [] OTHER               -> [run EXCEPT !.positional = Append(@, word)]

\* What is gathered of the first n words.
Gathered[n \in 0 .. Len(words)] ==
  IF n = 0 THEN NoOptions ELSE Take(Gathered[n - 1], words[n])

cmdRun == Gathered[Len(words)]

\* ValidatePortMappings, the number of words, and Config.Validate.
Starts ==
  /\ cmdRun.ok /\ ~cmdRun.publish
  /\ IsInjective([i \in DOMAIN cmdRun.ports |-> Binding[cmdRun.ports[i]]])
  /\ Len(cmdRun.positional) >= 2 /\ cmdRun.positional[2] # ""

Image   == cmdRun.positional[1]
Command == Tail(cmdRun.positional)

\* Profile.CloneFlags: the namespaces the container gets.
CloneFlags == {"uts", "mnt", "ipc"} \cup (IF cmdRun.HostPID THEN {} ELSE {"pid"})
                                    \cup (IF cmdRun.HostNetwork THEN {} ELSE {"net"})

-----------------------------------------------------------------------------
(* Wrapper.Command and container-init.                                      *)

Rootfs == "/images/rootfs"
ID     == "184f0000aaaa"

\* Mutant: nothing tells the command from the flags.
InitArgsUnseparated == <<"--rootfs", Rootfs, "--hostname", ID>> \o Command

InitArgs == <<"--rootfs", Rootfs, "--hostname", ID, "--">> \o Command

NoFlags == [ok |-> TRUE, expects |-> "nothing", over |-> FALSE,
            rootfs |-> "", hostname |-> "", args |-> <<>>]

Dashed == Detach \cup Publish \cup Modes \cup OtherModes \cup OtherDashed

ASSUME WordAssumption ==
  /\ Published \cap (Dashed \cup {"--", ""}) = {}
  /\ (OtherModes \cup OtherDashed) \cap (Detach \cup Publish \cup Modes \cup {"--", ""}) = {}

\* flag.Parse: it ends at the first word that is no flag, and -- is no argument.
ParseFlag(init, word) ==
  IF init.over THEN [init EXCEPT !.args = Append(@, word)] ELSE
  CASE init.expects = "rootfs"   -> [init EXCEPT !.expects = "nothing", !.rootfs = word]
    [] init.expects = "hostname" -> [init EXCEPT !.expects = "nothing", !.hostname = word]
    [] init.expects = "nothing"  ->
         CASE word = "--"         -> [init EXCEPT !.over = TRUE]
           [] word = "--rootfs"   -> [init EXCEPT !.expects = "rootfs"]
           [] word = "--hostname" -> [init EXCEPT !.expects = "hostname"]
           [] word \in Dashed \ {"--rootfs", "--hostname"} -> [init EXCEPT !.ok = FALSE]
           [] OTHER               -> [init EXCEPT !.over = TRUE, !.args = <<word>>]

\* What is parsed of the first n arguments.
ParsedFlags[n \in 0 .. Len(InitArgs)] ==
  IF n = 0 THEN NoFlags ELSE ParseFlag(ParsedFlags[n - 1], InitArgs[n])

containerInit == ParsedFlags[Len(InitArgs)]

-----------------------------------------------------------------------------
(* Properties.                                                              *)

Places(kind) == {i \in DOMAIN words : words[i] \in kind}
Values       == {i + 1 : i \in Places(Publish)}
Rest         == DOMAIN words \ (Places(Detach \cup Publish \cup Modes) \cup Values)

\* A run starts if and only if every -p has a mapping behind it, no two with one binding,
\* no mode is unknown, and two words are left over, the second not empty. It then
\* publishes what is behind a -p, and a mode is the last one given of its kind.
OptionsAsGiven ==
  /\ Starts <=> /\ Values \subseteq Places(Published) /\ Places(OtherModes) = {}
                /\ \A i, j \in Values : i # j => Binding[words[i]] # Binding[words[j]]
                /\ Cardinality(Rest) >= 2 /\ words[Min(Rest \ {Min(Rest)})] # ""
  /\ Starts =>
       /\ cmdRun.detach <=> Places(Detach) # {}
       /\ ToSet(cmdRun.ports) = {words[i] : i \in Values}
       /\ "net" \in CloneFlags <=> \A i \in Places({"--net=host"}) :
                                    \E j \in Places({"--net=bridge"}) : i < j
       /\ "pid" \in CloneFlags <=> \A i \in Places({"--pid=host"}) :
                                    \E j \in Places({"--pid=private"}) : i < j

\* What container-init executes are the words left over but for the first, which is
\* the image, whatever they look like; it gets the rootfs and the name meant for it.
InitRunsCommand ==
  Starts =>
    /\ Image = words[Min(Rest)]
    /\ containerInit = [ok |-> TRUE, expects |-> "nothing", over |-> TRUE,
                        rootfs |-> Rootfs, hostname |-> ID, args |-> Command]
    /\ Len(Command) = Cardinality(Rest) - 1

\* Usage in main.go: options come before the image, and what follows it is the
\* command; no word of the command is taken out of it.
CommandIsVerbatim == Starts => Command = SubSeq(words, Min(Rest) + 1, Len(words))
=============================================================================
