----------------------- MODULE ContainerDirectoryProofs -----------------------
(***************************************************************************)
(* Theorems about ContainerDirectory, for any number of runs and clients,   *)
(* any times the runs start at, and any number of writes and mishaps.       *)
(***************************************************************************)
EXTENDS ContainerDirectory, SequenceTheorems, FiniteSetTheorems, TLAPS

PieceSet == [run : Runs, stream : Streams, number : Nat]

-----------------------------------------------------------------------------
(* Texts and what a write puts into them.                                   *)

LEMMA MaxOfTwo == ASSUME NEW a \in Nat, NEW b \in Nat PROVE Max({a, b}) = IF a >= b THEN a ELSE b
BY DEF Max

LEMMA PiecesAreTexts ==
  ASSUME NEW r \in Runs, NEW s \in Streams, NEW n \in Nat
  PROVE  /\ Pieces(r, s, n) \in Texts /\ Len(Pieces(r, s, n)) = n
         /\ \A i \in 1 .. n : Pieces(r, s, n)[i] = Piece(r, s, i)
         /\ Pieces(r, s, 0) = <<>> /\ <<>> \in Texts
<1>1. \A i \in 1 .. n : Piece(r, s, i) \in PieceSet
  BY DEF Piece, PieceSet
<1>2. Pieces(r, s, n) \in [1 .. n -> PieceSet]
  BY <1>1 DEF Pieces
<1>3. Pieces(r, s, n) \in Seq(PieceSet \cup {Hole}) /\ Len(Pieces(r, s, n)) = n
  BY <1>2
<1> QED
  BY <1>3 DEF Pieces, Texts, PieceSet

LEMMA ConcatTexts ==
  ASSUME NEW s \in Texts, NEW t \in Texts
  PROVE  s \o t \in Texts /\ Len(s \o t) = Len(s) + Len(t)
BY ConcatProperties DEF Texts

LEMMA PutTexts ==
  ASSUME NEW content \in Texts, NEW n \in Nat, NEW p \in PieceSet
  PROVE  Put(content, n, p) \in Texts
<1>1. Len(content) \in Nat /\ DOMAIN content = 1 .. Len(content)
      /\ \A i \in DOMAIN content : content[i] \in PieceSet \cup {Hole}
  BY DEF Texts, PieceSet
<1>2. PICK m \in Nat : m = Max({n, Len(content)})
  BY <1>1, MaxOfTwo
<1>3. Put(content, n, p) \in [1 .. m -> PieceSet \cup {Hole}]
  BY <1>1, <1>2 DEF Put
<1> QED
  BY <1>3 DEF Texts, PieceSet

LEMMA PutNext ==
  ASSUME NEW r \in Runs, NEW s \in Streams, NEW n \in Nat
  PROVE  Put(Pieces(r, s, n), n + 1, Piece(r, s, n + 1)) = Pieces(r, s, n + 1)
<1>1. Max({n + 1, Len(Pieces(r, s, n))}) = n + 1
  BY MaxOfTwo, PiecesAreTexts
<1>2. DOMAIN Pieces(r, s, n) = 1 .. n /\ \A i \in 1 .. n : Pieces(r, s, n)[i] = Piece(r, s, i)
  BY PiecesAreTexts DEF Pieces
<1> QED
  BY <1>1, <1>2 DEF Put, Pieces

LEMMA LastOfTexts ==
  ASSUME NEW text \in Texts, NEW tail \in Nat
  PROVE  LastOf(text, tail) \in Texts
<1>1. CASE tail > 0 /\ Len(text) > tail
  <2> DEFINE m == Len(text) - tail + 1
             n == Len(text)
  <2>1. n \in Nat /\ m \in 1 .. n /\ \A i \in m .. n : text[i] \in PieceSet \cup {Hole}
    BY <1>1 DEF Texts, PieceSet
  <2>2. SubSeq(text, m, n) \in Seq(PieceSet \cup {Hole})
    BY <2>1, SubSeqProperties
  <2> QED
    BY <1>1, <2>2 DEF LastOf, Texts, PieceSet
<1> QED
  BY <1>1 DEF LastOf

-----------------------------------------------------------------------------
(* Types.                                                                   *)

LEMMA OwnDirectory == ASSUME TypeOK, NEW r \in Runs PROVE IDOf(r) \in IDs
BY DirectoryAssumption DEF DirectoryAssumption, TypeOK, IDs, IDOf

LEMMA InitTypes == ASSUME Init PROVE TypeOK
<1>1. Idle \in Records
  BY PiecesAreTexts DEF Idle, Records, ClientPC, Texts
<1> QED
  BY <1>1, FS_EmptySet, DirectoryAssumption
  DEF DirectoryAssumption, Init, TypeOK, RunPC, Statuses, Names, Idle

LEMMA ConfigTypes ==
  ASSUME TypeOK, NamesAreThere, NEW d \in IDs, NEW r \in Runs \cup {None}, NEW status \in Statuses,
         SetConfig(d, r, status)
  PROVE  /\ config' \in [IDs -> [run : Runs \cup {None}, status : Statuses]]
         /\ held' \in [Clients -> SUBSET dirs]
         /\ config'[d].status = status /\ \A e \in IDs \ {d} : config'[e] = config[e]
BY DEF TypeOK, SetConfig

LEMMA LogTypes ==
  ASSUME TypeOK, NamesAreThere, NEW r \in Runs, NEW s \in Streams, Log(r, s)
  PROVE  /\ moved' \in [Runs -> [Streams -> Nat]]
         /\ file' \in [IDs -> [Streams -> Texts \cup {None}]]
         /\ \A d \in IDs, t \in Streams : file'[d][t] # None <=> file[d][t] # None
         /\ \A q \in Runs, t \in Streams : moved'[q][t] = IF q = r /\ t = s THEN moved[q][t] + 1 ELSE moved[q][t]
<1>1. /\ moved' \in [Runs -> [Streams -> Nat]]
      /\ \A q \in Runs, t \in Streams : moved'[q][t] = IF q = r /\ t = s THEN moved[q][t] + 1 ELSE moved[q][t]
  BY DEF Log, TypeOK
<1>2. CASE s \notin linked[r]
  BY <1>1, <1>2 DEF Log, TypeOK
<1>3. CASE s \in linked[r]
  <2> DEFINE n == moved'[r][s]
             text == Put(file[IDOf(r)][s], n, Piece(r, s, n))
  <2>1. n \in Nat /\ Piece(r, s, n) \in PieceSet
    BY <1>1 DEF PieceSet, Piece
  <2>2. IDOf(r) \in IDs
    BY OwnDirectory
  <2>3. file[IDOf(r)][s] \in Texts /\ file[IDOf(r)][s] # None
    BY <1>3, <2>2 DEF TypeOK, NamesAreThere
  <2>4. text \in Texts /\ text # None
    BY <2>1, <2>3, PutTexts, DirectoryAssumption DEF DirectoryAssumption
  <2>5. file' = [file EXCEPT ![IDOf(r)][s] = text]
    BY <1>3 DEF Log, TypeOK
  <2> QED
    BY <1>1, <2>2, <2>3, <2>4, <2>5 DEF TypeOK
<1> QED
  BY <1>2, <1>3

\* What has a name in a directory keeps that directory there.
LEMMA NamesTypes ==
  ASSUME TypeOK, UNCHANGED <<dirs, file>>,
         \A d \in IDs \ dirs : config'[d].status = "none" \/ config'[d].status = config[d].status
  PROVE  \A d \in IDs \ dirs' : Names(d)' = {}
BY DEF TypeOK, Names

LEMMA RunTypes == ASSUME TypeOK, NamesAreThere, NEW r \in Runs, RunStep(r) \/ End(r) PROVE TypeOK'
<1>0. IDOf(r) \in IDs
  BY OwnDirectory
<1> USE DEF Goes, Steps, args, runVars, outputVars, logVars, confVars
<1>1. ASSUME Attach(r) PROVE TypeOK'
  <2>1. <<>> \in Texts
    BY DEF Texts
  <2>2. file' \in [IDs -> [Streams -> Texts \cup {None}]]
    BY <1>1, <2>1 DEF Attach, TypeOK
  <2>3. dirs' \subseteq IDs /\ IsFiniteSet(dirs')
    BY <1>0, <1>1, FS_AddElement DEF Attach, TypeOK
  <2>4. \A d \in IDs \ dirs' : Names(d)' = {}
    BY <1>1 DEF Attach, TypeOK, Names
  <2> QED
    BY <1>1, <2>2, <2>3, <2>4 DEF Attach, TypeOK, RunPC
<1>2. ASSUME Start(r) \/ Reap(r) \/ WaitReturns(r) \/ End(r) PROVE TypeOK'
  <2>1. UNCHANGED <<start, detached, outputVars, dirs, logVars, confVars, client, mishaps>>
    BY <1>2 DEF Start, Reap, WaitReturns, End
  <2>2. rpc' \in [Runs -> RunPC] /\ life' \in [Runs -> {"unborn", "alive", "zombie", "gone"}]
    BY <1>2 DEF Start, Reap, WaitReturns, End, TypeOK, RunPC
  <2>3. info' \in [Runs -> Runs \cup {None}]
    <3>1. info \in [Runs -> Runs \cup {None}] /\ config[IDOf(r)].run \in Runs \cup {None}
      BY <1>0 DEF TypeOK
    <3> QED
      BY <1>2, <3>1 DEF Start, Reap, WaitReturns, End
  <2> QED
    BY <2>1, <2>2, <2>3, NamesTypes DEF TypeOK
<1>3. ASSUME SaveOpen(r) PROVE TypeOK'
  <2>1. SetConfig(IDOf(r), None, "torn") /\ IDOf(r) \in dirs
    BY <1>3 DEF SaveOpen
  <2>2. \A d \in IDs \ dirs' : Names(d)' = {}
    BY <1>0, <1>3, <2>1, ConfigTypes, NamesTypes DEF SaveOpen, Statuses
  <2> QED
    BY <1>0, <1>3, <2>1, <2>2, ConfigTypes DEF SaveOpen, TypeOK, RunPC, Statuses
<1>4. ASSUME SaveWrite(r) PROVE TypeOK'
  <2>1. rpc[r] \in {"running", "exited"}
    BY <1>4 DEF SaveWrite
  <2>2. CASE r \in saving
    <3>1. SetConfig(IDOf(r), info[r], rpc[r]) /\ info[r] \in Runs \cup {None} /\ UNCHANGED info
      BY <1>4, <2>2 DEF SaveWrite, TypeOK
    <3>2. IDOf(r) \in dirs
      BY <1>0, <2>2 DEF TypeOK, NamesAreThere, Names
    <3>3. \A d \in IDs \ dirs' : Names(d)' = {}
      BY <1>0, <1>4, <2>1, <3>1, <3>2, ConfigTypes, NamesTypes DEF SaveWrite, Statuses
    <3>4. rpc' \in [Runs -> RunPC] /\ saving' \subseteq Runs
      BY <1>4 DEF SaveWrite, TypeOK, RunPC
    <3>5. config' \in [IDs -> [run : Runs \cup {None}, status : Statuses]] /\ held' \in [Clients -> SUBSET dirs]
      BY <1>0, <2>1, <3>1, ConfigTypes DEF Statuses
    <3> QED
      BY <1>4, <3>3, <3>4, <3>5 DEF SaveWrite, TypeOK
  <2>3. CASE r \notin saving
    BY <1>4, <2>3, NamesTypes DEF SaveWrite, TypeOK, RunPC
  <2> QED
    BY <2>2, <2>3
<1>5. ASSUME DirMissing(r) \/ MainExits(r) \/ HostFails(r) PROVE TypeOK'
  <2>1. UNCHANGED <<start, detached, info, wrote, moved, dirs, logVars, config, held, client>>
    BY <1>5 DEF DirMissing, MainExits, HostFails, HostGone
  <2>2. rpc' \in [Runs -> RunPC]
    BY <1>5 DEF DirMissing, MainExits, HostFails, TypeOK, RunPC
  <2>4. HostGone(r)
    BY <1>5 DEF DirMissing, MainExits, HostFails
  <2>5. cut' \in [Runs -> SUBSET Streams] /\ saving' \subseteq Runs
    BY <2>4 DEF HostGone, TypeOK
  <2>6. life' \in [Runs -> {"unborn", "alive", "zombie", "gone"}]
    BY <2>4 DEF HostGone, TypeOK
  <2>3. mishaps' \in 0 .. MaxMishaps
    BY <1>5, DirectoryAssumption DEF DirectoryAssumption, DirMissing, MainExits, HostFails, Mishap, TypeOK
  <2> QED
    BY <2>1, <2>2, <2>3, <2>5, <2>6, NamesTypes DEF TypeOK
<1> QED
  BY <1>1, <1>2, <1>3, <1>4, <1>5 DEF RunStep

LEMMA OutputTypes ==
  ASSUME TypeOK, NamesAreThere, OutputIsKnown, NEW r \in Runs, NEW s \in Streams,
         Write(r, s) \/ Copy(r, s) \/ CopyFails(r, s)
  PROVE  TypeOK'
<1> USE DEF runVars, args, confVars, logVars
<1>1. UNCHANGED <<start, detached, rpc, info, life, dirs, config, saving, held, client, linked>>
  BY DEF Write, Copy, CopyFails, Copying, Log
<1>2. /\ file' \in [IDs -> [Streams -> Texts \cup {None}]] /\ moved' \in [Runs -> [Streams -> Nat]]
      /\ \A d \in IDs, t \in Streams : file'[d][t] # None <=> file[d][t] # None
  BY LogTypes DEF Write, Copy, CopyFails, TypeOK
<1>3. \A d \in IDs \ dirs' : Names(d)' = {}
  BY <1>1, <1>2 DEF TypeOK, Names
<1>4. cut' \in [Runs -> SUBSET Streams]
  <2>1. cut' = cut \/ cut' = [cut EXCEPT ![r] = @ \cup {s}]
    BY DEF Write, Copy, CopyFails
  <2>2. cut \in [Runs -> SUBSET Streams]
    BY DEF TypeOK
  <2> QED
    BY <2>1, <2>2
<1>5. /\ wrote' \in [Runs -> [Streams -> Nat]]
      /\ \A q \in Runs, t \in Streams : moved'[q][t] <= wrote'[q][t] /\ wrote'[q][t] <= MaxWrites[q]
  <2>1. \A q \in Runs, t \in Streams : moved[q][t] \in Nat /\ wrote[q][t] \in Nat /\ MaxWrites[q] \in Nat
                                        /\ moved[q][t] <= wrote[q][t] /\ wrote[q][t] <= MaxWrites[q]
    BY DirectoryAssumption DEF DirectoryAssumption, TypeOK
  <2>2. CASE Write(r, s)
    <3>1. wrote[r][s] < MaxWrites[r] /\ wrote' = [wrote EXCEPT ![r][s] = @ + 1]
      BY <2>2 DEF Write
    <3>2. /\ wrote' \in [Runs -> [Streams -> Nat]]
          /\ \A q \in Runs, t \in Streams : wrote'[q][t] = IF q = r /\ t = s THEN wrote[q][t] + 1 ELSE wrote[q][t]
      BY <2>1, <3>1 DEF TypeOK
    <3>3. \A q \in Runs, t \in Streams : moved'[q][t] = moved[q][t] \/ (q = r /\ t = s /\ moved'[q][t] = moved[q][t] + 1)
      <4>1. Log(r, s) \/ moved' = moved
        BY <2>2 DEF Write
      <4> QED
        BY <4>1, LogTypes
    <3> SUFFICES ASSUME NEW q \in Runs, NEW t \in Streams
                 PROVE  moved'[q][t] <= wrote'[q][t] /\ wrote'[q][t] <= MaxWrites[q]
      BY <3>2
    <3>4. CASE q = r /\ t = s
      BY <2>1, <3>1, <3>2, <3>3, <3>4
    <3>5. CASE ~(q = r /\ t = s)
      <4>1. wrote'[q][t] = wrote[q][t] /\ moved'[q][t] = moved[q][t]
        BY <3>2, <3>3, <3>5
      <4> QED
        BY <2>1, <4>1
    <3> QED
      BY <3>4, <3>5
  <2>3. CASE Copy(r, s)
    <3>1. moved[r][s] < wrote[r][s] /\ wrote' = wrote
      BY <2>3 DEF Copy, Copying
    <3>2. \A q \in Runs, t \in Streams : moved'[q][t] = IF q = r /\ t = s THEN moved[q][t] + 1 ELSE moved[q][t]
      BY <2>3, LogTypes DEF Copy
    <3>3. ASSUME NEW q \in Runs, NEW t \in Streams PROVE moved'[q][t] <= wrote[q][t]
      <4>1. CASE q = r /\ t = s
        BY <2>1, <3>1, <3>2, <4>1
      <4>2. CASE ~(q = r /\ t = s)
        BY <2>1, <3>2, <4>2
      <4> QED
        BY <4>1, <4>2
    <3> QED
      BY <2>1, <3>1, <3>3 DEF TypeOK
  <2>4. CASE CopyFails(r, s)
    BY <2>4 DEF CopyFails, Copying, TypeOK
  <2> QED
    BY <2>2, <2>3, <2>4
<1>6. mishaps' \in 0 .. MaxMishaps
  BY DirectoryAssumption DEF DirectoryAssumption, Write, Copy, CopyFails, Mishap, TypeOK
<1> QED
  BY <1>1, <1>2, <1>3, <1>4, <1>5, <1>6 DEF TypeOK

\* A client's record with one or more fields changed.
LEMMA RecordTypes ==
  ASSUME NEW c \in Records
  PROVE  /\ \A pc \in ClientPC : [c EXCEPT !.pc = pc] \in Records
         /\ \A pc \in ClientPC, with \in {"missing", "ambiguous", "refused", "removed", "failed"} :
              [c EXCEPT !.pc = pc, !.outcome = with] \in Records
         /\ \A pc \in ClientPC, got \in Texts : [c EXCEPT !.pc = pc, !.got = got] \in Records
         /\ \A got \in Texts, with \in {"printed", "nothing"} :
              [c EXCEPT !.pc = "end", !.got = got, !.outcome = with] \in Records
         /\ \A matches \in SUBSET IDs, entries \in Seq(IDs) :
              [c EXCEPT !.matches = matches, !.entries = entries] \in Records
         /\ \A pc \in ClientPC, d \in IDs, logged \in [Streams -> Texts \cup {None}] :
              [c EXCEPT !.pc = pc, !.target = d, !.logged = logged] \in Records
         /\ \A names \in SUBSET (Streams \cup {"config.json"}) : [c EXCEPT !.names = names] \in Records
         /\ \A names \in SUBSET (Streams \cup {"config.json"}) :
              [c EXCEPT !.pc = "unlink", !.names = names] \in Records
         /\ \A entries \in Seq(IDs), verb \in {"logs", "rm"}, prefix \in Seq(Digit), tail \in Nat :
              [c EXCEPT !.pc = "load", !.entries = entries, !.verb = verb, !.prefix = prefix, !.tail = tail]
                \in Records
<1> USE DEF Records, ClientPC
<1>1. \A pc \in ClientPC : [c EXCEPT !.pc = pc] \in Records
  OBVIOUS
<1>2. \A pc \in ClientPC, with \in {"missing", "ambiguous", "refused", "removed", "failed"} :
        [c EXCEPT !.pc = pc, !.outcome = with] \in Records
  OBVIOUS
<1>3. \A pc \in ClientPC, got \in Texts : [c EXCEPT !.pc = pc, !.got = got] \in Records
  OBVIOUS
<1>4. \A got \in Texts, with \in {"printed", "nothing"} :
        [c EXCEPT !.pc = "end", !.got = got, !.outcome = with] \in Records
  OBVIOUS
<1>5. \A matches \in SUBSET IDs, entries \in Seq(IDs) :
        [c EXCEPT !.matches = matches, !.entries = entries] \in Records
  OBVIOUS
<1>6. \A pc \in ClientPC, d \in IDs, logged \in [Streams -> Texts \cup {None}] :
        [c EXCEPT !.pc = pc, !.target = d, !.logged = logged] \in Records
  OBVIOUS
<1>7. \A names \in SUBSET (Streams \cup {"config.json"}) : [c EXCEPT !.names = names] \in Records
  OBVIOUS
<1>8. \A names \in SUBSET (Streams \cup {"config.json"}) :
        [c EXCEPT !.pc = "unlink", !.names = names] \in Records
  OBVIOUS
<1>9. \A entries \in Seq(IDs), verb \in {"logs", "rm"}, prefix \in Seq(Digit), tail \in Nat :
        [c EXCEPT !.pc = "load", !.entries = entries, !.verb = verb, !.prefix = prefix, !.tail = tail]
          \in Records
  OBVIOUS
<1> QED
  BY <1>1, <1>2, <1>3, <1>4, <1>5, <1>6, <1>7, <1>8, <1>9

LEMMA ClientTypes ==
  ASSUME TypeOK, NEW k \in Clients, NEW new \in Records, client' = [client EXCEPT ![k] = new],
         new.pc \notin {"idle", "load", "end"} => new.target \in IDs
  PROVE  /\ client' \in [Clients -> Records]
         /\ \A j \in Clients : client'[j].pc \notin {"idle", "load", "end"} => client'[j].target \in IDs
<1>1. \A j \in Clients : client'[j] = IF j = k THEN new ELSE client[j]
  BY DEF TypeOK
<1> QED
  BY <1>1 DEF TypeOK

\* A command that changes nothing but what it knows itself.
LEMMA LooksTypes ==
  ASSUME TypeOK, NEW k \in Clients,
         Load(k) \/ Resolve(k) \/ ResolveFails(k) \/ ReadStdout(k) \/ ReadStderr(k) \/ CheckFails(k)
  PROVE  TypeOK'
<1> DEFINE c == client[k]
           Becomes(new) == client' = [client EXCEPT ![k] = new]
<1>0. c \in Records /\ client \in [Clients -> Records]
  BY DEF TypeOK
<1>1. UNCHANGED <<start, detached, rpc, info, life, wrote, moved, cut, dirs, config, file, linked, saving, mishaps>>
  BY DEF Load, Listed, Resolve, ResolveFails, ReadStdout, ReadStderr, CheckFails, At, Files, runVars, args, outputVars,
    logVars, confVars
<1>2. PICK new \in Records : Becomes(new) /\ (new.pc \notin {"idle", "load", "end"} => new.target \in IDs)
  <2>1. CASE Load(k)
    <3> DEFINE entries == Tail(c.entries)
               matches == c.matches \cup Named(k, Head(c.entries))
               rec     == [c EXCEPT !.matches = matches, !.entries = entries]
    <3>1. c.entries \in Seq(IDs) /\ c.entries # <<>> /\ c.matches \in SUBSET IDs
      BY <1>0, <2>1 DEF Load, Records
    <3>2. Head(c.entries) \in IDs /\ entries \in Seq(IDs)
      BY <3>1, HeadTailProperties
    <3>3. matches \in SUBSET IDs
      BY <3>1, <3>2 DEF Named
    <3>4. rec \in Records
      BY <1>0, <3>2, <3>3, RecordTypes
    <3>5. Becomes(rec) /\ rec.pc = "load"
      BY <1>0, <2>1 DEF Load, At, Records
    <3> QED
      BY <3>4, <3>5
  <2>2. CASE Resolve(k)
    <3>1. PICK d \in IDs :
            client' = [client EXCEPT ![k].pc = IF c.verb = "logs" THEN "stdout" ELSE "check",
                                     ![k].target = d, ![k].logged = file[d]]
      BY <2>2 DEF Resolve
    <3> DEFINE pc  == IF c.verb = "logs" THEN "stdout" ELSE "check"
               rec == [c EXCEPT !.pc = pc, !.target = d, !.logged = file[d]]
    <3>2. file[d] \in [Streams -> Texts \cup {None}] /\ pc \in ClientPC
      BY DEF TypeOK, ClientPC
    <3>3. rec \in Records
      BY <1>0, <3>2, RecordTypes
    <3>4. Becomes(rec) /\ rec.target = d
      BY <1>0, <3>1 DEF Records
    <3> QED
      BY <3>3, <3>4
  <2>3. CASE ResolveFails(k) \/ CheckFails(k)
    <3>1. PICK with \in {"missing", "ambiguous", "refused"} : Ends(k, with)
      BY <2>3 DEF ResolveFails, CheckFails
    <3> DEFINE rec == [c EXCEPT !.pc = "end", !.outcome = with]
    <3>2. rec \in Records
      BY <1>0, RecordTypes DEF ClientPC
    <3>3. Becomes(rec) /\ rec.pc = "end"
      BY <1>0, <3>1 DEF Ends, Records
    <3> QED
      BY <3>2, <3>3
  <2>4. CASE ReadStdout(k)
    <3> DEFINE text == Content(c.target, "stdout")
               rec  == [c EXCEPT !.pc = "stderr", !.got = text]
    <3>1. c.target \in IDs
      BY <2>4 DEF ReadStdout, At, TypeOK
    <3>2. text \in Texts
      BY <3>1, PiecesAreTexts DEF Content, TypeOK, Texts, Streams
    <3>3. rec \in Records
      BY <1>0, <3>2, RecordTypes DEF ClientPC
    <3>4. Becomes(rec) /\ rec.target = c.target
      BY <1>0, <2>4 DEF ReadStdout, Records
    <3> QED
      BY <3>1, <3>3, <3>4
  <2>5. CASE ReadStderr(k)
    <3> DEFINE text == c.got \o Content(c.target, "stderr")
               with == IF text = <<>> THEN "nothing" ELSE "printed"
               rec  == [c EXCEPT !.pc = "end", !.got = LastOf(text, c.tail), !.outcome = with]
    <3>1. c.target \in IDs /\ c.got \in Texts /\ c.tail \in Nat
      BY <1>0, <2>5 DEF ReadStderr, At, TypeOK, Records
    <3>2. Content(c.target, "stderr") \in Texts
      BY <3>1 DEF Content, TypeOK, Texts, Streams
    <3>3. text \in Texts
      BY <3>1, <3>2, ConcatTexts
    <3>4. rec \in Records
      BY <1>0, <3>1, <3>3, LastOfTexts, RecordTypes
    <3>5. Becomes(rec) /\ rec.pc = "end"
      BY <1>0, <2>5 DEF ReadStderr, Output, Records
    <3> QED
      BY <3>4, <3>5
  <2> QED
    BY <2>1, <2>2, <2>3, <2>4, <2>5
<1>3. /\ client' \in [Clients -> Records]
      /\ \A j \in Clients : client'[j].pc \notin {"idle", "load", "end"} => client'[j].target \in IDs
  BY <1>2, ClientTypes
<1>4. held' \in [Clients -> SUBSET dirs]
  <2>1. held' = held \/ held' = [held EXCEPT ![k] = {}]
    BY DEF Load, Listed, Resolve, ResolveFails, ReadStdout, ReadStderr, CheckFails, Files, confVars
  <2> QED
    BY <2>1 DEF TypeOK
<1> QED
  BY <1>1, <1>3, <1>4, NamesTypes DEF TypeOK

LEMMA BeginTypes == ASSUME TypeOK, NEW k \in Clients, NEW c \in Commands[k], Begin(k, c) PROVE TypeOK'
<1>1. UNCHANGED <<start, detached, rpc, info, life, wrote, moved, cut, dirs, config, file, linked, saving, mishaps>>
  BY DEF Begin, At, runVars, args, outputVars, logVars
<1>2. PICK names \in [1 .. Cardinality(dirs) -> dirs] :
        client' = [client EXCEPT ![k].pc = "load", ![k].entries = names,
                                 ![k].verb = c.verb, ![k].prefix = c.prefix, ![k].tail = c.tail]
  BY DEF Begin
<1> DEFINE new == [client[k] EXCEPT !.pc = "load", !.entries = names,
                                    !.verb = c.verb, !.prefix = c.prefix, !.tail = c.tail]
<1>3. names \in Seq(IDs)
  <2>1. Cardinality(dirs) \in Nat /\ dirs \subseteq IDs
    BY FS_CardinalityType DEF TypeOK
  <2> QED
    BY <2>1
<1>4. new \in Records
  <2>1. c.verb \in {"logs", "rm"} /\ c.prefix \in Seq(Digit) /\ c.tail \in Nat
    BY DirectoryAssumption DEF DirectoryAssumption
  <2>2. client[k] \in Records
    BY DEF TypeOK
  <2> QED
    BY <1>3, <2>1, <2>2, RecordTypes
<1>5. client' = [client EXCEPT ![k] = new] /\ new.pc = "load"
  <2>1. client \in [Clients -> Records] /\ client[k] \in Records
    BY DEF TypeOK
  <2>2. new.pc = "load"
    BY <2>1 DEF Records
  <2> QED
    BY <1>2, <2>1, <2>2 DEF Records
<1>6. /\ client' \in [Clients -> Records]
      /\ \A j \in Clients : client'[j].pc \notin {"idle", "load", "end"} => client'[j].target \in IDs
  BY <1>4, <1>5, ClientTypes
<1>7. held' \in [Clients -> SUBSET dirs]
  BY DEF Begin, TypeOK, Readable
<1> QED
  BY <1>1, <1>6, <1>7, NamesTypes DEF TypeOK

\* The steps of rm that change the directory.
LEMMA RemoveTypes ==
  ASSUME TypeOK, NamesAreThere, NEW k \in Clients,
         Check(k) \/ Rmdir(k) \/ \E name \in Streams \cup {"config.json"} : Unlink(k, name)
  PROVE  TypeOK'
<1> DEFINE c == client[k]
           d == c.target
<1> USE DEF Files, logVars, confVars
<1>0. c \in Records /\ d \in IDs
  BY DEF TypeOK, Check, Rmdir, Unlink, At
<1>1. UNCHANGED <<start, detached, rpc, info, life, wrote, moved, cut, mishaps>>
  BY DEF Check, Rmdir, Unlink, At, runVars, args, outputVars
<1>2. ASSUME Check(k) PROVE TypeOK'
  <2> DEFINE new == [c EXCEPT !.pc = "unlink", !.names = Names(d)]
  <2>1. new \in Records /\ new.target = d
    <3>1. Names(d) \in SUBSET (Streams \cup {"config.json"})
      BY DEF Names
    <3>2. new \in Records
      BY <1>0, <3>1, RecordTypes
    <3>3. new.target = d
      BY <1>0 DEF Records
    <3> QED
      BY <3>2, <3>3
  <2>2. client' = [client EXCEPT ![k] = new]
    BY <1>0, <1>2 DEF Check, TypeOK, Records
  <2>3. SetConfig(d, config[d].run, "exited") /\ d \in dirs /\ config[d].run \in Runs \cup {None}
    BY <1>0, <1>2 DEF Check, Readable, TypeOK
  <2>4. /\ config' \in [IDs -> [run : Runs \cup {None}, status : Statuses]]
        /\ held' \in [Clients -> SUBSET dirs]
        /\ \A e \in IDs \ {d} : config'[e] = config[e]
    BY <1>0, <2>3, ConfigTypes DEF Statuses
  <2>5. \A e \in IDs \ dirs' : Names(e)' = {}
    BY <1>2, <2>3, <2>4, NamesTypes DEF Check
  <2>6. /\ client' \in [Clients -> Records]
        /\ \A j \in Clients : client'[j].pc \notin {"idle", "load", "end"} => client'[j].target \in IDs
    BY <1>0, <2>1, <2>2, ClientTypes
  <2> QED
    BY <1>1, <1>2, <2>4, <2>5, <2>6 DEF Check, TypeOK
<1>3. ASSUME NEW name \in Streams \cup {"config.json"}, Unlink(k, name) PROVE TypeOK'
  <2> DEFINE new == [c EXCEPT !.names = c.names \ {name}]
  <2>1. new \in Records /\ new.target = d
    <3>1. c.names \ {name} \in SUBSET (Streams \cup {"config.json"})
      BY <1>0 DEF Records
    <3>2. new \in Records
      BY <1>0, <3>1, RecordTypes
    <3>3. new.target = d
      BY <1>0 DEF Records
    <3> QED
      BY <3>2, <3>3
  <2>2. client' = [client EXCEPT ![k] = new]
    BY <1>0, <1>3 DEF Unlink, TypeOK, Records
  <2>3. /\ client' \in [Clients -> Records]
        /\ \A j \in Clients : client'[j].pc \notin {"idle", "load", "end"} => client'[j].target \in IDs
    BY <1>0, <2>1, <2>2, ClientTypes
  <2>4. CASE name = "config.json"
    <3>1. SetConfig(d, None, "none") /\ saving' = {r \in saving : IDOf(r) # d} /\ UNCHANGED <<file, linked, dirs>>
      BY <1>3, <2>4 DEF Unlink
    <3>2. /\ config' \in [IDs -> [run : Runs \cup {None}, status : Statuses]]
          /\ held' \in [Clients -> SUBSET dirs]
          /\ config'[d].status = "none" /\ \A e \in IDs \ {d} : config'[e] = config[e]
      BY <1>0, <3>1, ConfigTypes DEF Statuses
    <3>3. \A e \in IDs \ dirs' : Names(e)' = {}
      BY <3>1, <3>2, NamesTypes
    <3> QED
      BY <1>1, <2>3, <3>1, <3>2, <3>3 DEF TypeOK
  <2>5. CASE name # "config.json"
    <3>1. /\ file' = [file EXCEPT ![d][name] = None] /\ name \in Streams /\ UNCHANGED <<config, saving, held, dirs>>
          /\ linked' = [r \in Runs |-> IF IDOf(r) = d THEN linked[r] \ {name} ELSE linked[r]]
      BY <1>3, <2>5 DEF Unlink
    <3>2. file' \in [IDs -> [Streams -> Texts \cup {None}]] /\ linked' \in [Runs -> SUBSET Streams]
      BY <3>1 DEF TypeOK
    <3>3. \A e \in IDs \ dirs' : Names(e)' = {}
      BY <1>0, <3>1 DEF Names, TypeOK
    <3> QED
      BY <1>1, <2>3, <3>1, <3>2, <3>3 DEF TypeOK
  <2> QED
    BY <2>4, <2>5
<1>4. ASSUME Rmdir(k) PROVE TypeOK'
  <2>1. PICK with \in {"removed", "failed"} : Ends(k, with)
    BY <1>4 DEF Rmdir
  <2> DEFINE new == [c EXCEPT !.pc = "end", !.outcome = with]
  <2>2. new \in Records /\ new.pc = "end" /\ client' = [client EXCEPT ![k] = new]
    <3>1. new \in Records
      BY <1>0, RecordTypes DEF ClientPC
    <3>2. new.pc = "end" /\ client' = [client EXCEPT ![k] = new]
      BY <1>0, <2>1 DEF Ends, TypeOK, Records
    <3> QED
      BY <3>1, <3>2
  <2>3. /\ client' \in [Clients -> Records]
        /\ \A j \in Clients : client'[j].pc \notin {"idle", "load", "end"} => client'[j].target \in IDs
    BY <2>2, ClientTypes
  <2>4. UNCHANGED <<config, file, linked, saving, held>> /\ (dirs' = dirs \/ (Names(d) = {} /\ dirs' = dirs \ {d}))
    BY <1>4 DEF Rmdir
  <2>5. dirs' \subseteq IDs /\ IsFiniteSet(dirs')
    <3>1. dirs \subseteq IDs /\ IsFiniteSet(dirs)
      BY DEF TypeOK
    <3>2. IsFiniteSet(dirs \ {d})
      BY <3>1, FS_RemoveElement
    <3> QED
      BY <2>4, <3>1, <3>2
  <2>6. \A e \in IDs \ dirs' : Names(e)' = {}
    BY <2>4 DEF TypeOK, Names
  <2>7. held' \in [Clients -> SUBSET dirs']
    BY <2>4 DEF TypeOK, NamesAreThere, Readable, Unsaved, Names
  <2> QED
    BY <1>1, <2>3, <2>4, <2>5, <2>6, <2>7 DEF TypeOK
<1> QED
  BY <1>2, <1>3, <1>4

LEMMA TypeStep == ASSUME TypeOK, NamesAreThere, OutputIsKnown, [Next]_vars PROVE TypeOK'
<1>1. CASE UNCHANGED vars
  BY <1>1 DEF vars, runVars, args, outputVars, logVars, confVars, TypeOK, Names
<1>2. ASSUME NEW k \in Clients, ClientStep(k) PROVE TypeOK'
  BY <1>2, BeginTypes, LooksTypes, RemoveTypes DEF ClientStep
<1> QED
  BY <1>1, <1>2, RunTypes, OutputTypes DEF Next

-----------------------------------------------------------------------------
(* What is named is there.                                                  *)

\* The steps of clients that change nothing but what they know.
LooksOnly(k) == Load(k) \/ Resolve(k) \/ ResolveFails(k) \/ ReadStdout(k) \/ ReadStderr(k) \/ CheckFails(k)

LEMMA NamesStepRun ==
  ASSUME TypeOK, NamesAreThere, NEW r \in Runs, RunStep(r) \/ End(r) PROVE NamesAreThere'
<1>0. IDOf(r) \in IDs /\ UNCHANGED start
  BY OwnDirectory DEF RunStep, End, Attach, Start, SaveOpen, SaveWrite, Reap, WaitReturns, DirMissing, MainExits, HostFails, Goes, Steps, args
<1> USE DEF NamesAreThere, Readable, Unsaved, IDOf, Goes, Steps, logVars, confVars
<1>1. ASSUME Attach(r) PROVE NamesAreThere'
  <2>1. <<>> # None
    <3>1. <<>> \in Texts
      BY EmptySeq DEF Texts
    <3> QED
      BY <3>1, DirectoryAssumption DEF DirectoryAssumption
  <2>2. \A q \in Runs : \A s \in linked'[q] : file'[IDOf(q)][s] # None
    BY <1>0, <1>1, <2>1 DEF Attach, TypeOK
  <2> QED
    BY <1>0, <1>1, <2>2 DEF Attach
<1>2. ASSUME Start(r) \/ Reap(r) \/ WaitReturns(r) \/ End(r) PROVE NamesAreThere'
  BY <1>0, <1>2 DEF Start, Reap, WaitReturns, End
<1>3. ASSUME SaveOpen(r) PROVE NamesAreThere'
  <2>1. UNCHANGED <<dirs, file, linked>> /\ saving' = saving \cup {r} /\ SetConfig(IDOf(r), None, "torn")
    BY <1>3 DEF SaveOpen
  <2>2. \A q \in saving' : config'[IDOf(q)].status # "none"
    BY <1>0, <2>1 DEF SetConfig, TypeOK
  <2>3. \A k \in Clients : held'[k] \subseteq Readable'
    BY <1>0, <2>1 DEF SetConfig, TypeOK
  <2> QED
    BY <1>0, <2>1, <2>2, <2>3
<1>4. ASSUME SaveWrite(r) PROVE NamesAreThere'
  <2>1. UNCHANGED <<dirs, file, linked>> /\ saving' = saving \ {r} /\ rpc[r] \in {"running", "exited"}
    BY <1>4 DEF SaveWrite
  <2>2. CASE r \in saving
    <3>1. SetConfig(IDOf(r), info[r], rpc[r])
      BY <1>4, <2>2 DEF SaveWrite
    <3>2. \A q \in saving' : config'[IDOf(q)].status # "none"
      BY <1>0, <2>1, <3>1 DEF SetConfig, TypeOK
    <3>3. \A k \in Clients : held'[k] \subseteq Readable'
      BY <1>0, <2>1, <3>1 DEF SetConfig, TypeOK
    <3> QED
      BY <1>0, <2>1, <3>2, <3>3
  <2>3. CASE r \notin saving
    BY <1>0, <1>4, <2>1, <2>3 DEF SaveWrite
  <2> QED
    BY <2>2, <2>3
<1>5. ASSUME DirMissing(r) \/ MainExits(r) \/ HostFails(r) PROVE NamesAreThere'
  BY <1>0, <1>5 DEF DirMissing, MainExits, HostFails, HostGone
<1> QED
  BY <1>1, <1>2, <1>3, <1>4, <1>5 DEF RunStep

LEMMA NamesStepOutput ==
  ASSUME TypeOK, NamesAreThere, NEW r \in Runs, NEW s \in Streams,
         Write(r, s) \/ Copy(r, s) \/ CopyFails(r, s)
  PROVE  NamesAreThere'
<1>1. UNCHANGED <<start, dirs, config, saving, held, linked>>
  BY DEF Write, Copy, CopyFails, Copying, Log, runVars, args, confVars, logVars
<1>2. \A d \in IDs, t \in Streams : file'[d][t] # None <=> file[d][t] # None
  BY LogTypes DEF Write, Copy, CopyFails, logVars
<1>3. \A q \in Runs : IDOf(q) \in IDs /\ linked[q] \subseteq Streams
  BY OwnDirectory DEF TypeOK
<1> QED
  BY <1>1, <1>2, <1>3 DEF NamesAreThere, Readable, IDOf

LEMMA NamesStepClient ==
  ASSUME TypeOK, NamesAreThere, NEW k \in Clients, ClientStep(k) PROVE NamesAreThere'
<1> DEFINE d == client[k].target
<1>0. UNCHANGED <<start, rpc>>
  BY DEF ClientStep, Begin, Load, Listed, Resolve, ResolveFails, ReadStdout, ReadStderr, CheckFails, Check, Rmdir, Unlink, At,
    runVars, args
<1> USE DEF NamesAreThere, Readable, Unsaved, IDOf, Files, logVars, confVars
<1>1. ASSUME NEW c \in Commands[k], Begin(k, c) PROVE NamesAreThere'
  BY <1>0, <1>1 DEF Begin, TypeOK
<1>2. ASSUME LooksOnly(k) PROVE NamesAreThere'
  <2>1. UNCHANGED <<dirs, config, file, linked, saving>> /\ (held' = held \/ held' = [held EXCEPT ![k] = {}])
    BY <1>2 DEF LooksOnly, Load, Listed, Resolve, ResolveFails, ReadStdout, ReadStderr, CheckFails
  <2> QED
    BY <1>0, <2>1 DEF TypeOK
<1>3. ASSUME Check(k) PROVE NamesAreThere'
  <2>1. d \in IDs
    BY <1>3 DEF Check, At, TypeOK
  <2>2. UNCHANGED <<dirs, file, linked, saving>> /\ SetConfig(d, config[d].run, "exited")
    BY <1>3 DEF Check
  <2>3. \A q \in saving' : config'[IDOf(q)].status # "none"
    BY <2>1, <2>2 DEF SetConfig, TypeOK
  <2>4. \A j \in Clients : held'[j] \subseteq Readable'
    BY <2>1, <2>2 DEF SetConfig, TypeOK
  <2> QED
    BY <1>0, <2>2, <2>3, <2>4
<1>4. ASSUME Unlink(k, "config.json") PROVE NamesAreThere'
  <2>1. d \in IDs
    BY <1>4 DEF Unlink, At, TypeOK
  <2>2. UNCHANGED <<dirs, file, linked>> /\ SetConfig(d, None, "none") /\ saving' = {r \in saving : IDOf(r) # d}
    BY <1>4 DEF Unlink
  <2>3. \A q \in saving' : config'[IDOf(q)].status # "none"
    BY <2>1, <2>2 DEF SetConfig, TypeOK
  <2>4. \A j \in Clients : held'[j] \subseteq Readable'
    BY <2>1, <2>2 DEF SetConfig, TypeOK
  <2> QED
    BY <1>0, <2>2, <2>3, <2>4
<1>5. ASSUME NEW name \in Streams, Unlink(k, name) PROVE NamesAreThere'
  <2>1. d \in IDs
    BY <1>5 DEF Unlink, At, TypeOK
  <2>2. /\ UNCHANGED <<dirs, config, saving, held>> /\ file' = [file EXCEPT ![d][name] = None]
        /\ linked' = [r \in Runs |-> IF IDOf(r) = d THEN linked[r] \ {name} ELSE linked[r]]
    BY <1>5 DEF Unlink, Streams
  <2>3. \A q \in Runs : \A s \in linked'[q] : file'[IDOf(q)][s] # None
    BY <2>1, <2>2, OwnDirectory DEF TypeOK
  <2> QED
    BY <1>0, <2>2, <2>3
<1>6. ASSUME Rmdir(k) PROVE NamesAreThere'
  BY <1>0, <1>6 DEF Rmdir, Names
<1> QED
  BY <1>1, <1>2, <1>3, <1>4, <1>5, <1>6 DEF ClientStep, LooksOnly

LEMMA NamesStep == ASSUME TypeOK, NamesAreThere, [Next]_vars PROVE NamesAreThere'
<1>1. CASE UNCHANGED vars
  BY <1>1 DEF vars, runVars, args, logVars, confVars, NamesAreThere, Readable, IDOf
<1> QED
  BY <1>1, NamesStepRun, NamesStepOutput, NamesStepClient DEF Next

-----------------------------------------------------------------------------
(* What a workload has written and what was moved to its log files.         *)

\* logs and rm leave the runs and what they wrote alone.
LEMMA ClientLeaves ==
  ASSUME NEW k \in Clients, ClientStep(k)
  PROVE  /\ UNCHANGED <<start, detached, rpc, info, life, wrote, moved, cut, mishaps>>
         /\ \A r \in Runs : linked'[r] \subseteq linked[r]
<1>1. UNCHANGED <<start, detached, rpc, info, life, wrote, moved, cut, mishaps>>
  BY DEF ClientStep, Begin, Load, Listed, Resolve, ResolveFails, ReadStdout, ReadStderr, CheckFails, Check, Rmdir,
    Unlink, At, runVars, args, outputVars
<1>2. linked' = linked \/ \E name \in Streams :
        linked' = [r \in Runs |-> IF IDOf(r) = client[k].target THEN linked[r] \ {name} ELSE linked[r]]
  BY DEF ClientStep, Begin, Load, Listed, Resolve, ResolveFails, ReadStdout, ReadStderr, CheckFails, Check, Rmdir,
    Unlink, Files, logVars
<1> QED
  BY <1>1, <1>2

\* What OutputIsKnown says of one run.
OutputOf(r) ==
  /\ rpc[r] = "new" => linked[r] = {}
  /\ rpc[r] \in {"new", "start"} =>
       life[r] = "unborn" /\ \A s \in Streams : wrote[r][s] = 0 /\ moved[r][s] = 0
  /\ life[r] = "unborn" => \A s \in Streams : wrote[r][s] = 0
  /\ r \in detached => \A s \in Streams : moved[r][s] = wrote[r][s]
  /\ r \notin detached /\ rpc[r] \in {"exit", "exited", "done"} =>
       life[r] = "gone" /\ \A s \in Streams : s \in cut[r] \/ moved[r][s] = wrote[r][s]

LEMMA OutputStep == ASSUME TypeOK, NamesAreThere, OutputIsKnown, [Next]_vars PROVE OutputIsKnown'
<1> USE DEF OutputIsKnown, TypeOK, RunPC, Goes, Steps, args, runVars, outputVars, logVars, confVars
<1>1. ASSUME NEW r \in Runs, Attach(r) \/ Start(r) PROVE OutputIsKnown'
  <2>1. UNCHANGED <<detached, wrote, moved, cut>> /\ rpc' \in [Runs -> RunPC] /\ life' \in [Runs -> {"unborn", "alive", "zombie", "gone"}]
    BY <1>1 DEF Attach, Start
  <2>2. /\ \A q \in Runs \ {r} : rpc'[q] = rpc[q] /\ life'[q] = life[q] /\ linked'[q] = linked[q]
        /\ \/ rpc[r] = "new" /\ rpc'[r] = "start" /\ life'[r] = life[r]
           \/ rpc[r] = "start" /\ rpc'[r] = "save" /\ life'[r] = "alive"
    BY <1>1 DEF Attach, Start
  <2>3. ASSUME NEW q \in Runs \ {r}
        PROVE  rpc'[q] = rpc[q] /\ life'[q] = life[q] /\ linked'[q] = linked[q] /\ UNCHANGED <<detached, wrote, moved, cut>>
    BY <2>1, <2>2
  <2> SUFFICES ASSUME NEW q \in Runs PROVE OutputOf(q)'
    BY DEF OutputOf
  <2>4. CASE q # r
    BY <2>3, <2>4 DEF OutputOf
  <2>5. CASE q = r
    BY <2>1, <2>2, <2>5 DEF OutputOf
  <2> QED
    BY <2>4, <2>5
<1>2. ASSUME NEW r \in Runs, SaveOpen(r) \/ SaveWrite(r) PROVE OutputIsKnown'
  BY <1>2 DEF SaveOpen, SaveWrite
<1>3. ASSUME NEW r \in Runs, Reap(r) \/ WaitReturns(r) \/ End(r) PROVE OutputIsKnown'
  BY <1>3 DEF Reap, WaitReturns, End
<1>4. ASSUME NEW r \in Runs, DirMissing(r) \/ MainExits(r) \/ HostFails(r) PROVE OutputIsKnown'
  <2>1. /\ UNCHANGED <<detached, wrote, moved, linked>> /\ rpc[r] # "new"
        /\ rpc' = [rpc EXCEPT ![r] = "left"] \/ (rpc' = [rpc EXCEPT ![r] = "done"] /\ rpc[r] = "exit")
        /\ cut' = [cut EXCEPT ![r] = IF r \in detached THEN @ ELSE Streams]
        /\ life' = [life EXCEPT ![r] = IF @ = "zombie" THEN "gone" ELSE @]
    BY <1>4 DEF DirMissing, MainExits, Returned, HostFails, HostGone
  <2>2. /\ \A q \in Runs \ {r} : rpc'[q] = rpc[q] /\ life'[q] = life[q] /\ cut'[q] = cut[q]
        /\ r \notin detached => cut'[r] = Streams
        /\ rpc'[r] = "left" \/ (rpc'[r] = "done" /\ rpc[r] = "exit")
        /\ life'[r] = life[r] \/ (life[r] = "zombie" /\ life'[r] = "gone")
    BY <2>1
  <2> QED
    BY <2>1, <2>2
<1>5. ASSUME NEW r \in Runs, NEW s \in Streams, Write(r, s) PROVE OutputIsKnown'
  BY <1>5, LogTypes DEF Write, Log
<1>6. ASSUME NEW r \in Runs, NEW s \in Streams, Copy(r, s) PROVE OutputIsKnown'
  BY <1>6, LogTypes DEF Copy, Copying, Log
<1>7. ASSUME NEW r \in Runs, NEW s \in Streams, CopyFails(r, s) PROVE OutputIsKnown'
  BY <1>7 DEF CopyFails, Copying
<1>8. ASSUME NEW k \in Clients, ClientStep(k) PROVE OutputIsKnown'
  BY <1>8, ClientLeaves
<1>9. CASE UNCHANGED vars
  BY <1>9 DEF vars
<1> QED
  BY <1>1, <1>2, <1>3, <1>4, <1>5, <1>6, <1>7, <1>8, <1>9 DEF Next, RunStep

-----------------------------------------------------------------------------
(* What the steps of logs and rm do to what they know.                      *)

\* The fields that no step but the first changes, and those that follow it.
Keeps(k) == /\ client'[k].prefix = client[k].prefix /\ client'[k].tail = client[k].tail
            /\ held'[k] \subseteq held[k]
Found(k) == client'[k].target = client[k].target /\ client'[k].matches = client[k].matches

Moves(k) ==
  LET c == client[k]
      n == client'[k]
      text == c.got \o Content(c.target, "stderr")
  IN  \/ /\ c.pc = "idle" /\ n.pc = "load" /\ Found(k) /\ n.outcome = c.outcome
         /\ Range(n.entries) = dirs /\ held'[k] = Readable
      \/ /\ c.pc = "load" /\ n.pc = "load" /\ Keeps(k) /\ n.target = c.target /\ n.outcome = c.outcome
         /\ c.entries # <<>> /\ n.entries = Tail(c.entries)
         /\ n.matches = c.matches \cup Named(k, Head(c.entries))
      \/ /\ c.pc = "load" /\ n.pc \in {"stdout", "check"} /\ Keeps(k) /\ n.outcome = c.outcome
         /\ c.entries = <<>> /\ n.matches = c.matches
         /\ \E d \in IDs : c.matches = {d} /\ n.target = d /\ n.logged = file[d]
      \/ /\ c.pc = "load" /\ n.pc = "end" /\ Keeps(k) /\ Found(k)
         /\ c.entries = <<>> /\ n.outcome = IF c.matches = {} THEN "missing" ELSE "ambiguous"
      \/ /\ c.pc = "stdout" /\ n.pc = "stderr" /\ Keeps(k) /\ Found(k) /\ n.outcome = c.outcome
         /\ n.logged = c.logged /\ n.got = Content(c.target, "stdout")
      \/ /\ c.pc = "stderr" /\ n.pc = "end" /\ Keeps(k) /\ Found(k)
         /\ n.logged = c.logged /\ n.got = LastOf(text, c.tail)
         /\ n.outcome = IF text = <<>> THEN "nothing" ELSE "printed"
      \/ c.pc = "check" /\ n.pc = "end" /\ Keeps(k) /\ Found(k) /\ n.outcome \in {"missing", "refused"}
      \/ c.pc \in {"check", "unlink"} /\ n.pc = "unlink" /\ Keeps(k) /\ Found(k) /\ n.outcome = c.outcome
      \/ c.pc = "unlink" /\ n.pc = "end" /\ Keeps(k) /\ Found(k) /\ n.outcome \in {"removed", "failed"}

LEMMA HeldShrinks ==
  ASSUME NEW d, NEW r, NEW status, SetConfig(d, r, status)
  PROVE  \A k \in Clients : held'[k] \subseteq held[k]
BY DEF SetConfig

LEMMA ClientMoves ==
  ASSUME TypeOK, NEW k \in Clients, ClientStep(k)
  PROVE  /\ Moves(k)
         /\ \A j \in Clients \ {k} : client'[j] = client[j] /\ held'[j] \subseteq held[j]
<1> DEFINE c == client[k]
           Goal == /\ Moves(k)
                   /\ \A j \in Clients \ {k} : client'[j] = client[j] /\ held'[j] \subseteq held[j]
<1>0. c \in Records /\ client \in [Clients -> Records] /\ held \in [Clients -> SUBSET dirs]
  BY DEF TypeOK
<1> USE DEF Records, At, Files, confVars, Keeps, Found
<1>11. ASSUME NEW with, Ends(k, with)
       PROVE  /\ client'[k].pc = "end" /\ client'[k].outcome = with /\ Found(k)
              /\ client'[k].prefix = c.prefix /\ client'[k].tail = c.tail
              /\ \A j \in Clients \ {k} : client'[j] = client[j]
  BY <1>0, <1>11 DEF Ends
<1>1. ASSUME NEW d \in Commands[k], Begin(k, d) PROVE Goal
  <2>1. PICK names \in [1 .. Cardinality(dirs) -> dirs] :
          /\ Range(names) = dirs
          /\ client' = [client EXCEPT ![k].pc = "load", ![k].entries = names,
                                     ![k].verb = d.verb, ![k].prefix = d.prefix, ![k].tail = d.tail]
    BY <1>1 DEF Begin
  <2>2. /\ client'[k].pc = "load" /\ client'[k].entries = names
        /\ client'[k].target = c.target /\ client'[k].matches = c.matches /\ client'[k].outcome = c.outcome
        /\ \A j \in Clients \ {k} : client'[j] = client[j]
    BY <1>0, <2>1
  <2>3. c.pc = "idle" /\ held'[k] = Readable /\ \A j \in Clients \ {k} : held'[j] = held[j]
    BY <1>0, <1>1 DEF Begin
  <2> QED
    BY <2>1, <2>2, <2>3 DEF Moves
<1>2. ASSUME Load(k) PROVE Goal
  BY <1>0, <1>2 DEF Load, Moves
<1>3. ASSUME Resolve(k) PROVE Goal
  <2>1. PICK d \in IDs :
          /\ c.matches = {d}
          /\ client' = [client EXCEPT ![k].pc = IF c.verb = "logs" THEN "stdout" ELSE "check",
                                     ![k].target = d, ![k].logged = file[d]]
    BY <1>3 DEF Resolve
  <2>2. /\ client'[k].pc \in {"stdout", "check"} /\ client'[k].target = d /\ client'[k].logged = file[d]
        /\ client'[k].matches = c.matches /\ client'[k].outcome = c.outcome
        /\ client'[k].prefix = c.prefix /\ client'[k].tail = c.tail
        /\ \A j \in Clients \ {k} : client'[j] = client[j]
    BY <1>0, <2>1
  <2>3. c.pc = "load" /\ c.entries = <<>> /\ \A j \in Clients : held'[j] \subseteq held[j]
    BY <1>0, <1>3 DEF Resolve, Listed
  <2>4. \E e \in IDs : c.matches = {e} /\ client'[k].target = e /\ client'[k].logged = file[e]
    BY <2>1, <2>2
  <2>5. Moves(k)
    BY <2>2, <2>3, <2>4 DEF Moves
  <2> QED
    BY <2>2, <2>3, <2>5
<1>4. ASSUME ResolveFails(k) PROVE Goal
  BY <1>0, <1>4 DEF ResolveFails, Listed, Ends, Moves
<1>5. ASSUME ReadStdout(k) PROVE Goal
  BY <1>0, <1>5 DEF ReadStdout, Moves
<1>6. ASSUME ReadStderr(k) PROVE Goal
  BY <1>0, <1>6 DEF ReadStderr, Output, Moves
<1>7. ASSUME CheckFails(k) PROVE Goal
  <2>1. PICK with \in {"missing", "refused"} : Ends(k, with)
    BY <1>7 DEF CheckFails
  <2>2. c.pc = "check" /\ held' = held
    BY <1>7 DEF CheckFails
  <2> QED
    BY <2>1, <2>2, <1>11 DEF Moves
<1>8. ASSUME Check(k) PROVE Goal
  BY <1>0, <1>8 DEF Check, SetConfig, Moves
<1>9. ASSUME Rmdir(k) PROVE Goal
  <2>1. PICK with \in {"removed", "failed"} : Ends(k, with)
    BY <1>9 DEF Rmdir
  <2>2. c.pc = "unlink" /\ held' = held
    BY <1>9 DEF Rmdir
  <2> QED
    BY <2>1, <2>2, <1>11 DEF Moves
<1>10. ASSUME NEW name \in Streams \cup {"config.json"}, Unlink(k, name) PROVE Goal
  <2>1. c.pc = "unlink" /\ client' = [client EXCEPT ![k].names = @ \ {name}]
    BY <1>10 DEF Unlink
  <2>2. /\ client'[k].pc = "unlink" /\ Found(k) /\ client'[k].outcome = c.outcome
        /\ client'[k].prefix = c.prefix /\ client'[k].tail = c.tail
        /\ \A j \in Clients \ {k} : client'[j] = client[j]
    BY <1>0, <2>1
  <2>3. \A j \in Clients : held'[j] \subseteq held[j]
    <3>1. held' = held \/ SetConfig(c.target, None, "none")
      BY <1>10 DEF Unlink
    <3> QED
      BY <3>1, HeldShrinks
  <2> QED
    BY <2>1, <2>2, <2>3 DEF Moves
<1> QED
  BY <1>1, <1>2, <1>3, <1>4, <1>5, <1>6, <1>7, <1>8, <1>9, <1>10 DEF ClientStep

-----------------------------------------------------------------------------
(* What every step leaves or only lets grow.                                *)

LEMMA OutputGrows ==
  ASSUME TypeOK, NamesAreThere, [Next]_vars
  PROVE  /\ UNCHANGED <<start, detached>>
         /\ \A r \in Runs, s \in Streams : moved[r][s] <= moved'[r][s] /\ wrote[r][s] <= wrote'[r][s]
         /\ \A r \in Runs : rpc'[r] = "new" => rpc[r] = "new"
<1> DEFINE Goal == /\ UNCHANGED <<start, detached>>
                   /\ \A r \in Runs, s \in Streams : moved[r][s] <= moved'[r][s] /\ wrote[r][s] <= wrote'[r][s]
                   /\ \A r \in Runs : rpc'[r] = "new" => rpc[r] = "new"
<1>0. /\ \A r \in Runs, s \in Streams : moved[r][s] \in Nat /\ wrote[r][s] \in Nat
      /\ rpc \in [Runs -> RunPC] /\ wrote \in [Runs -> [Streams -> Nat]]
  BY DEF TypeOK
<1> USE DEF runVars, args, outputVars, logVars
<1>1. ASSUME NEW r \in Runs, RunStep(r) \/ End(r) PROVE Goal
  BY <1>0, <1>1 DEF RunStep, End, Attach, Start, SaveOpen, SaveWrite, Reap, WaitReturns, DirMissing, MainExits, HostFails,
    HostGone, Goes, Steps
<1>2. ASSUME NEW r \in Runs, NEW s \in Streams, Write(r, s) \/ Copy(r, s) \/ CopyFails(r, s) PROVE Goal
  <2>1. UNCHANGED <<start, detached, rpc>>
    BY <1>2 DEF Write, Copy, CopyFails, Copying
  <2>2. wrote' = wrote \/ wrote' = [wrote EXCEPT ![r][s] = @ + 1]
    BY <1>2 DEF Write, Copy, CopyFails, Copying
  <2>3. moved' = moved \/ Log(r, s)
    BY <1>2 DEF Write, Copy, CopyFails, Copying
  <2>4. \A q \in Runs, t \in Streams : moved[q][t] <= moved'[q][t]
    BY <1>0, <2>3, LogTypes
  <2>5. \A q \in Runs, t \in Streams : wrote[q][t] <= wrote'[q][t]
    BY <1>0, <2>2
  <2> QED
    BY <2>1, <2>4, <2>5
<1>3. ASSUME NEW k \in Clients, ClientStep(k) PROVE Goal
  BY <1>0, <1>3, ClientLeaves
<1>4. CASE UNCHANGED vars
  BY <1>0, <1>4 DEF vars
<1> QED
  BY <1>1, <1>2, <1>3, <1>4 DEF Next

LEMMA MovedGrowsByOne ==
  ASSUME TypeOK, NamesAreThere, [Next]_vars, NEW r \in Runs, NEW s \in Streams
  PROVE  moved'[r][s] = moved[r][s] \/ moved'[r][s] = moved[r][s] + 1
<1>1. moved' = moved \/ \E q \in Runs, t \in Streams : Log(q, t)
  BY ClientLeaves DEF Next, vars, RunStep, End, Attach, Start, SaveOpen, SaveWrite, Reap, WaitReturns, DirMissing, MainExits,
    HostFails, HostGone, Write, Copy, CopyFails, Copying, outputVars
<1> QED
  BY <1>1, LogTypes

LEMMA WroteIsNumber ==
  ASSUME TypeOK, NamesAreThere, [Next]_vars, NEW r \in Runs, NEW s \in Streams
  PROVE  wrote'[r][s] \in Nat
<1>1. wrote' = wrote \/ \E q \in Runs, t \in Streams : wrote' = [wrote EXCEPT ![q][t] = @ + 1]
  BY ClientLeaves DEF Next, vars, RunStep, End, Attach, Start, SaveOpen, SaveWrite, Reap, WaitReturns, DirMissing, MainExits,
    HostFails, HostGone, Write, Copy, CopyFails, Copying, outputVars
<1>2. wrote \in [Runs -> [Streams -> Nat]]
  BY DEF TypeOK
<1>3. CASE wrote' = wrote
  BY <1>2, <1>3
<1>4. ASSUME NEW q \in Runs, NEW t \in Streams, wrote' = [wrote EXCEPT ![q][t] = @ + 1]
      PROVE  wrote'[r][s] = wrote[r][s] \/ wrote'[r][s] = wrote[r][s] + 1
  BY <1>2, <1>4
<1> QED
  BY <1>1, <1>2, <1>3, <1>4

LEMMA ClientsUnchanged ==
  ASSUME NEW r \in Runs,
         RunStep(r) \/ End(r) \/ \E s \in Streams : Write(r, s) \/ Copy(r, s) \/ CopyFails(r, s)
  PROVE  client' = client /\ \A k \in Clients : held'[k] = held[k] \/ held'[k] \subseteq held[k]
<1>1. client' = client /\ (held' = held \/ \E d, q, status : SetConfig(d, q, status))
  BY DEF RunStep, End, Attach, Start, SaveOpen, SaveWrite, Reap, WaitReturns, DirMissing, MainExits, HostFails, HostGone,
    Write, Copy, CopyFails, Copying, confVars
<1> QED
  BY <1>1, HeldShrinks

\* An rm that was past its check stays so.
LEMMA RemovingStays ==
  ASSUME TypeOK, ListingIsKnown, [Next]_vars, NEW d, Removing(d) PROVE Removing(d)'
<1>1. PICK k \in Clients : client[k].target = d /\ (client[k].pc = "unlink" \/ client[k].outcome \in {"removed", "failed"})
  BY DEF Removing
<1>2. CASE client'[k] = client[k]
  BY <1>1, <1>2 DEF Removing
<1>3. CASE ClientStep(k)
  <2>1. Moves(k)
    BY <1>3, ClientMoves
  <2>2. client[k].pc = "unlink"
    <3>1. client[k].pc # "end" => client[k].outcome = None
      BY DEF ListingIsKnown
    <3>2. client[k].pc # "end"
      BY <2>1 DEF Moves
    <3>3. None \notin {"removed", "failed"}
      BY DirectoryAssumption DEF DirectoryAssumption
    <3> QED
      BY <1>1, <3>1, <3>2, <3>3
  <2>3. /\ client'[k].target = d
        /\ client'[k].pc = "unlink" \/ client'[k].outcome \in {"removed", "failed"}
    BY <1>1, <2>1, <2>2 DEF Moves, Found
  <2> QED
    BY <2>3 DEF Removing
<1> QED
  <2>1. client'[k] = client[k] \/ ClientStep(k)
    BY ClientMoves, ClientsUnchanged DEF Next, vars
  <2> QED
    BY <1>2, <1>3, <2>1

-----------------------------------------------------------------------------
(* The directory of a run with an ID of its own.                            *)

\* A step changes the log file of such a run only as that run makes it or logs a
\* piece, or as an rm that is past its check takes it.
FileStays(r, s)  == file'[IDOf(r)][s] = file[IDOf(r)][s] /\ (s \in linked'[r] <=> s \in linked[r])
FileMade(r, s)   == rpc[r] = "new" /\ file'[IDOf(r)][s] = <<>> /\ s \in linked'[r] /\ moved'[r][s] = moved[r][s]
FileTaken(r, s)  == /\ file'[IDOf(r)][s] = None /\ s \notin linked'[r]
                    /\ \E k \in Clients : client[k].pc = "unlink" /\ client[k].target = IDOf(r)
FileGrows(r, s)  == /\ s \in linked[r] /\ s \in linked'[r] /\ moved'[r][s] = moved[r][s] + 1
                    /\ file'[IDOf(r)][s] = Put(file[IDOf(r)][s], moved[r][s] + 1, Piece(r, s, moved[r][s] + 1))

LEMMA LogChanges ==
  ASSUME TypeOK, NamesAreThere, NEW q \in Runs, NEW t \in Streams, Log(q, t),
         NEW r \in Runs, NEW s \in Streams, OwnID(r)
  PROVE  \/ FileStays(r, s) /\ moved'[r][s] = moved[r][s]
         \/ FileGrows(r, s)
         \/ FileStays(r, s) /\ s \notin linked[r]
<1>1. IDOf(r) \in IDs /\ IDOf(q) \in IDs /\ (q # r => IDOf(q) # IDOf(r))
  BY OwnDirectory DEF OwnID, IDOf, generateID
<1>2. moved'[r][s] = IF r = q /\ s = t THEN moved[r][s] + 1 ELSE moved[r][s]
  BY LogTypes
<1>3. CASE t \notin linked[q]
  BY <1>2, <1>3 DEF Log, FileStays
<1>4. CASE t \in linked[q]
  <2>1. /\ linked' = linked
        /\ file' = [file EXCEPT ![IDOf(q)][t] = Put(file[IDOf(q)][t], moved'[q][t], Piece(q, t, moved'[q][t]))]
    BY <1>4 DEF Log, TypeOK
  <2>2. CASE q = r /\ t = s
    <3>1. file'[IDOf(r)][s] = Put(file[IDOf(r)][s], moved'[r][s], Piece(r, s, moved'[r][s]))
      BY <1>1, <2>1, <2>2 DEF TypeOK
    <3> QED
      BY <1>2, <1>4, <2>1, <2>2, <3>1 DEF FileGrows
  <2>3. CASE ~(q = r /\ t = s)
    <3>1. file'[IDOf(r)][s] = file[IDOf(r)][s]
      BY <1>1, <2>1, <2>3 DEF TypeOK
    <3> QED
      BY <1>2, <2>1, <2>3, <3>1 DEF FileStays
  <2> QED
    BY <2>2, <2>3
<1> QED
  BY <1>3, <1>4

LEMMA FileChanges ==
  ASSUME TypeOK, NamesAreThere, [Next]_vars, NEW r \in Runs, NEW s \in Streams, OwnID(r)
  PROVE  \/ FileStays(r, s) /\ (moved'[r][s] = moved[r][s] \/ s \notin linked[r])
         \/ FileMade(r, s) \/ FileTaken(r, s) \/ FileGrows(r, s)
<1> DEFINE Goal == \/ FileStays(r, s) /\ (moved'[r][s] = moved[r][s] \/ s \notin linked[r])
                   \/ FileMade(r, s) \/ FileTaken(r, s) \/ FileGrows(r, s)
<1>0. IDOf(r) \in IDs /\ \A q \in Runs \ {r} : IDOf(q) # IDOf(r)
  BY OwnDirectory DEF OwnID, IDOf, generateID
<1> USE DEF runVars, args, outputVars, logVars
<1>1. ASSUME NEW q \in Runs, Attach(q) PROVE Goal
  <2>1. /\ rpc[q] = "new" /\ moved' = moved
        /\ file' = [file EXCEPT ![IDOf(q)] = [x \in Streams |-> <<>>]] /\ linked' = [linked EXCEPT ![q] = Streams]
    BY <1>1 DEF Attach, Goes, Steps
  <2>2. CASE q = r
    <3>1. file'[IDOf(r)][s] = <<>> /\ s \in linked'[r]
      BY <1>0, <2>1, <2>2 DEF TypeOK
    <3> QED
      BY <2>1, <2>2, <3>1 DEF FileMade
  <2>3. CASE q # r
    <3>1. file'[IDOf(r)] = file[IDOf(r)] /\ linked'[r] = linked[r]
      BY <1>0, <2>1, <2>3 DEF TypeOK
    <3> QED
      BY <2>1, <3>1 DEF FileStays
  <2> QED
    BY <2>2, <2>3
<1>2. ASSUME NEW q \in Runs, RunStep(q) \/ End(q), ~Attach(q) PROVE Goal
  <2>1. UNCHANGED <<file, linked, moved>>
    BY <1>2 DEF RunStep, End, Start, SaveOpen, SaveWrite, Reap, WaitReturns, DirMissing, MainExits, HostFails, HostGone
  <2> QED
    BY <2>1 DEF FileStays
<1>3. ASSUME NEW q \in Runs, NEW t \in Streams, Write(q, t) \/ Copy(q, t) \/ CopyFails(q, t) PROVE Goal
  <2>1. UNCHANGED <<file, linked, moved>> \/ Log(q, t)
    BY <1>3 DEF Write, Copy, CopyFails, Copying
  <2> QED
    BY <2>1, LogChanges DEF FileStays
<1>4. ASSUME NEW k \in Clients, NEW name \in Streams, Unlink(k, name) PROVE Goal
  <2> DEFINE d == client[k].target
  <2>1. /\ file' = [file EXCEPT ![d][name] = None] /\ moved' = moved /\ client[k].pc = "unlink"
        /\ linked' = [q \in Runs |-> IF IDOf(q) = d THEN linked[q] \ {name} ELSE linked[q]]
    BY <1>4 DEF Unlink, At, Streams
  <2>2. CASE d = IDOf(r) /\ name = s
    <3>1. file'[IDOf(r)][s] = None /\ s \notin linked'[r]
      BY <1>0, <2>1, <2>2 DEF TypeOK
    <3> QED
      BY <2>1, <2>2, <3>1 DEF FileTaken
  <2>3. CASE ~(d = IDOf(r) /\ name = s)
    <3>1. file'[IDOf(r)][s] = file[IDOf(r)][s] /\ (s \in linked'[r] <=> s \in linked[r])
      BY <1>0, <2>1, <2>3 DEF TypeOK
    <3> QED
      BY <2>1, <3>1 DEF FileStays
  <2> QED
    BY <2>2, <2>3
<1>5. ASSUME NEW k \in Clients, ClientStep(k), ~\E name \in Streams : Unlink(k, name) PROVE Goal
  <2>1. UNCHANGED <<file, linked, moved>>
    BY <1>5 DEF ClientStep, Begin, Load, Listed, Resolve, ResolveFails, ReadStdout, ReadStderr, CheckFails, Check, Rmdir,
      Unlink, At, Files
  <2> QED
    BY <2>1 DEF FileStays
<1>6. CASE UNCHANGED vars
  BY <1>6 DEF vars, FileStays
<1> QED
  BY <1>1, <1>2, <1>3, <1>4, <1>5, <1>6 DEF Next

LEMMA NewAttaches ==
  ASSUME TypeOK, [Next]_vars, NEW r \in Runs, rpc[r] = "new", rpc'[r] # "new" PROVE linked'[r] = Streams
<1> USE DEF TypeOK, runVars, args
<1>1. ASSUME NEW q \in Runs, RunStep(q) \/ End(q) PROVE linked'[r] = Streams
  <2>1. CASE Attach(q)
    BY <2>1 DEF Attach, Goes, Steps
  <2>2. CASE ~Attach(q)
    <3>1. rpc' = rpc \/ \E from, to : from # "new" /\ Steps(q, from, to)
      BY <1>1, <2>2 DEF RunStep, End, Start, SaveOpen, SaveWrite, Reap, WaitReturns, DirMissing, MainExits,
        Returned, HostFails, Goes
    <3> QED
      BY <3>1 DEF Goes, Steps
  <2> QED
    BY <2>1, <2>2
<1>2. ASSUME NEW q \in Runs, NEW t \in Streams, Write(q, t) \/ Copy(q, t) \/ CopyFails(q, t) PROVE FALSE
  BY <1>2 DEF Write, Copy, CopyFails, Copying
<1>3. ASSUME NEW k \in Clients, ClientStep(k) PROVE FALSE
  BY <1>3, ClientLeaves
<1> QED
  BY <1>1, <1>2, <1>3 DEF Next, vars

LEMMA ClientSees ==
  ASSUME TypeOK, NEW k \in Clients, ClientStep(k)
  PROVE  /\ client'[k].matches \subseteq client[k].matches \cup dirs
         /\ client'[k].target \in {client[k].target} \cup client[k].matches
<1>1. Moves(k)
  BY ClientMoves
<1>2. \A d : Named(k, d) \subseteq dirs
  BY DEF Named, Readable
<1> QED
  BY <1>1, <1>2 DEF Moves, Found

LEMMA LogStep ==
  ASSUME TypeOK, NamesAreThere, OutputIsKnown, OutputIsKnown', LogTellsWorkload, [Next]_vars
  PROVE  LogTellsWorkload'
<1> SUFFICES ASSUME NEW r \in Runs, NEW s \in Streams, OwnID(r)', s \in linked'[r]
             PROVE  /\ file'[IDOf(r)'][s] = Pieces(r, s, moved'[r][s])
                    /\ r \in detached' \/ (rpc'[r] = "done" /\ s \notin cut'[r]) => moved'[r][s] = wrote'[r][s]
  BY DEF LogTellsWorkload
<1>1. OwnID(r) /\ IDOf(r)' = IDOf(r)
  BY OutputGrows DEF OwnID, IDOf
<1>2. moved[r][s] \in Nat
  BY DEF TypeOK
<1>3. s \in linked[r] => file[IDOf(r)][s] = Pieces(r, s, moved[r][s])
  BY <1>1 DEF LogTellsWorkload
<1>4. file'[IDOf(r)][s] = Pieces(r, s, moved'[r][s])
  <2>1. CASE FileStays(r, s) /\ (moved'[r][s] = moved[r][s] \/ s \notin linked[r])
    BY <1>3, <2>1 DEF FileStays
  <2>2. CASE FileMade(r, s)
    BY <1>2, <2>2, PiecesAreTexts DEF FileMade, OutputIsKnown
  <2>3. CASE FileGrows(r, s)
    BY <1>2, <1>3, <2>3, PutNext DEF FileGrows
  <2>4. CASE FileTaken(r, s)
    BY <2>4 DEF FileTaken
  <2> QED
    BY <1>1, <2>1, <2>2, <2>3, <2>4, FileChanges
<1>5. r \in detached' \/ (rpc'[r] = "done" /\ s \notin cut'[r]) => moved'[r][s] = wrote'[r][s]
  BY DEF OutputIsKnown
<1> QED
  BY <1>1, <1>4, <1>5

LEMMA DirectoryStep ==
  ASSUME TypeOK, NamesAreThere, OutputIsKnown, DirectoryIsOwn, ListingIsKnown, [Next]_vars
  PROVE  DirectoryIsOwn'
<1> SUFFICES ASSUME NEW r \in Runs, OwnID(r)'
             PROVE  /\ rpc'[r] = "new" =>
                         /\ IDOf(r)' \notin dirs'
                         /\ \A k \in Clients : IDOf(r)' \notin client'[k].matches \cup {client'[k].target}
                    /\ rpc'[r] # "new" =>
                         \A s \in Streams \ linked'[r] : file'[IDOf(r)'][s] = None /\ Removing(IDOf(r))'
  BY DEF DirectoryIsOwn, Removing
<1>1. OwnID(r) /\ IDOf(r)' = IDOf(r)
  BY OutputGrows DEF OwnID, IDOf
<1>2. ASSUME rpc'[r] = "new" PROVE IDOf(r) \notin dirs' /\ \A k \in Clients : IDOf(r) \notin client'[k].matches \cup {client'[k].target}
  <2>1. /\ rpc[r] = "new" /\ IDOf(r) \notin dirs
        /\ \A k \in Clients : IDOf(r) \notin client[k].matches \cup {client[k].target}
    BY <1>1, <1>2, OutputGrows DEF DirectoryIsOwn
  <2>2. IDOf(r) \notin dirs'
    <3>1. ASSUME NEW q \in Runs, Attach(q) PROVE IDOf(r) \notin dirs'
      <4>1. q # r
        BY <1>2, <3>1 DEF Attach, Goes, Steps, TypeOK
      <4>2. IDOf(q) # IDOf(r)
        BY <1>1, <4>1 DEF OwnID, IDOf, generateID
      <4> QED
        BY <2>1, <3>1, <4>2 DEF Attach
    <3>2. ASSUME NEW k \in Clients, ClientStep(k) PROVE dirs' \subseteq dirs
      BY <3>2 DEF ClientStep, Begin, Load, Listed, Resolve, ResolveFails, ReadStdout, ReadStderr, CheckFails, Check, Rmdir,
        Unlink, Files
    <3>3. ASSUME NEW q \in Runs, RunStep(q) \/ End(q), ~Attach(q) PROVE dirs' = dirs
      BY <3>3 DEF RunStep, End, Start, SaveOpen, SaveWrite, Reap, WaitReturns, DirMissing, MainExits, HostFails, HostGone
    <3>4. ASSUME NEW q \in Runs, NEW t \in Streams, Write(q, t) \/ Copy(q, t) \/ CopyFails(q, t) PROVE dirs' = dirs
      BY <3>4 DEF Write, Copy, CopyFails, Copying
    <3> QED
      BY <2>1, <3>1, <3>2, <3>3, <3>4 DEF Next, vars
  <2>3. ASSUME NEW k \in Clients PROVE IDOf(r) \notin client'[k].matches \cup {client'[k].target}
    <3>1. CASE client'[k] = client[k]
      BY <2>1, <3>1
    <3>2. CASE ClientStep(k)
      <4>1. client'[k].matches \subseteq client[k].matches \cup dirs
            /\ client'[k].target \in {client[k].target} \cup client[k].matches
        BY <3>2, ClientSees
      <4> QED
        BY <2>1, <4>1, ClientMoves
    <3> QED
      BY <3>1, <3>2, ClientMoves, ClientsUnchanged DEF Next, vars
  <2> QED
    BY <2>2, <2>3
<1>3. ASSUME rpc'[r] # "new", NEW s \in Streams \ linked'[r] PROVE file'[IDOf(r)][s] = None /\ Removing(IDOf(r))'
  <2>1. CASE FileStays(r, s)
    <3>1. rpc[r] # "new"
      <4> SUFFICES ASSUME rpc[r] = "new" PROVE FALSE
        OBVIOUS
      <4> QED
        BY <1>3, NewAttaches
    <3>2. file[IDOf(r)][s] = None /\ Removing(IDOf(r))
      BY <1>1, <1>3, <2>1, <3>1 DEF DirectoryIsOwn, FileStays
    <3>3. Removing(IDOf(r))'
      BY <1>1, <3>2, RemovingStays DEF Removing
    <3> QED
      BY <2>1, <3>2, <3>3 DEF FileStays
  <2>2. CASE FileTaken(r, s)
    <3>1. Removing(IDOf(r))
      BY <2>2 DEF FileTaken, Removing
    <3>2. Removing(IDOf(r))'
      BY <1>1, <3>1, RemovingStays DEF Removing
    <3> QED
      BY <2>2, <3>2 DEF FileTaken
  <2> QED
    BY <1>1, <1>3, <2>1, <2>2, FileChanges DEF FileMade, FileGrows
<1> QED
  BY <1>1, <1>2, <1>3 DEF Removing

-----------------------------------------------------------------------------
(* What a listing finds.                                                    *)

LEMMA HeadAndTail ==
  ASSUME NEW S, NEW s \in Seq(S), s # <<>> PROVE Range(s) \subseteq {Head(s)} \cup Range(Tail(s))
<1> SUFFICES ASSUME NEW i \in 1 .. Len(s), i # 1 PROVE s[i] \in Range(Tail(s))
  BY DEF Range
<1>1. i - 1 \in DOMAIN Tail(s) /\ Tail(s)[i - 1] = s[i]
  <2>1. Tail(s) \in Seq(S) /\ Len(Tail(s)) = Len(s) - 1 /\ Len(s) \in Nat
    OBVIOUS
  <2>2. i - 1 \in 1 .. Len(Tail(s)) /\ Tail(s)[i - 1] = s[i]
    BY <2>1
  <2>3. DOMAIN Tail(s) = 1 .. Len(Tail(s))
    BY <2>1
  <2> QED
    BY <2>2, <2>3
<1> QED
  BY <1>1 DEF Range

LEMMA ListingStep ==
  ASSUME TypeOK, NamesAreThere, ListingIsKnown, [Next]_vars PROVE ListingIsKnown'
<1> DEFINE Known(c, h) ==
      /\ c.pc # "end" => c.outcome = None
      /\ c.pc \in {"idle", "load"} => c.target = None
      /\ c.pc = "idle" => c.matches = {}
      /\ c.pc = "load" => \A d \in h : Matches(d, c.prefix) => d \in c.matches \cup Range(c.entries)
      /\ \A d \in c.matches : Matches(d, c.prefix)
<1> SUFFICES ASSUME NEW k \in Clients PROVE Known(client'[k], held'[k])
  BY DEF ListingIsKnown
<1>1. Known(client[k], held[k])
  BY DEF ListingIsKnown
<1>2. CASE client'[k] = client[k] /\ held'[k] \subseteq held[k]
  BY <1>1, <1>2
<1>3. CASE ClientStep(k)
  <2> DEFINE c == client[k]
             n == client'[k]
  <2>1. Moves(k) /\ held[k] \subseteq Readable /\ Readable \subseteq dirs /\ c.entries \in Seq(IDs)
    BY <1>3, ClientMoves DEF NamesAreThere, Readable, TypeOK, Records
  <2>2. CASE c.pc = "load" /\ n.pc = "load"
    <3>1. /\ Keeps(k) /\ n.target = c.target /\ n.outcome = c.outcome /\ c.entries # <<>>
          /\ n.entries = Tail(c.entries) /\ n.matches = c.matches \cup Named(k, Head(c.entries))
      BY <2>1, <2>2 DEF Moves
    <3>2. ASSUME NEW d \in held'[k], Matches(d, n.prefix) PROVE d \in n.matches \cup Range(n.entries)
      <4>1. d \in held[k] /\ Matches(d, c.prefix) /\ d \in Readable
        BY <2>1, <3>1, <3>2 DEF Keeps
      <4>2. d \in c.matches \cup {Head(c.entries)} \cup Range(n.entries)
        BY <1>1, <2>1, <2>2, <3>1, <4>1, HeadAndTail
      <4>3. d \in Named(k, d)
        BY <4>1 DEF Named
      <4> QED
        BY <3>1, <4>2, <4>3
    <3>3. ASSUME NEW d \in n.matches PROVE Matches(d, n.prefix)
      BY <1>1, <3>1, <3>3 DEF Keeps, Named
    <3> QED
      BY <1>1, <2>2, <3>1, <3>2, <3>3
  <2>3. CASE c.pc = "idle"
    BY <1>1, <2>1, <2>3 DEF Moves, Found
  <2>4. CASE n.pc \notin {"idle", "load"}
    BY <1>1, <2>1, <2>4 DEF Moves, Found, Keeps
  <2> QED
    BY <2>1, <2>2, <2>3, <2>4 DEF Moves
<1> QED
  BY <1>2, <1>3, ClientMoves, ClientsUnchanged DEF Next, vars, confVars

-----------------------------------------------------------------------------
(* What logs reads.                                                         *)

\* A log file that was found is there with all that was logged, or an rm took it.
LEMMA ContentIsKnown ==
  ASSUME TypeOK, DirectoryIsOwn, LogTellsWorkload, NEW k \in Clients, NEW r \in Runs, NEW s \in Streams,
         OwnID(r), IDOf(r) \in client[k].matches \cup {client[k].target}
  PROVE  /\ \E n \in 0 .. moved[r][s] : /\ Content(IDOf(r), s) = Pieces(r, s, n)
                                        /\ ~Removing(IDOf(r)) => n = moved[r][s]
         /\ ~Removing(IDOf(r)) => file[IDOf(r)][s] = Pieces(r, s, moved[r][s])
<1>0. moved[r][s] \in Nat /\ None \notin Texts
  BY DirectoryAssumption DEF DirectoryAssumption, TypeOK
<1>1. rpc[r] # "new"
  BY DEF DirectoryIsOwn
<1>2. CASE s \in linked[r]
  <2>1. file[IDOf(r)][s] = Pieces(r, s, moved[r][s])
    BY <1>2 DEF LogTellsWorkload
  <2> QED
    BY <1>0, <2>1, PiecesAreTexts DEF Content
<1>3. CASE s \notin linked[r]
  <2>1. file[IDOf(r)][s] = None /\ Removing(IDOf(r))
    BY <1>1, <1>3 DEF DirectoryIsOwn
  <2> QED
    BY <1>0, <2>1, PiecesAreTexts DEF Content
<1> QED
  BY <1>2, <1>3

LEMMA ReadingStep ==
  ASSUME TypeOK, NamesAreThere, DirectoryIsOwn, LogTellsWorkload, ListingIsKnown, ReadingIsKnown, [Next]_vars
  PROVE  ReadingIsKnown'
<1> DEFINE Begun(c, r) == \A s \in Streams : \E m \in 0 .. moved'[r][s] : c.logged[s] = Pieces(r, s, m)
           Read(c, r, Rem) ==
             \E out \in 0 .. moved'[r]["stdout"] :
               /\ c.got = Pieces(r, "stdout", out)
               /\ ~Rem => out >= Len(c.logged["stdout"])
<1> SUFFICES ASSUME NEW k \in Clients, NEW r \in Runs, client'[k].pc \in {"stdout", "stderr"},
                    client'[k].target = IDOf(r)', OwnID(r)'
             PROVE  /\ ~Removing(IDOf(r))' => Begun(client'[k], r)
                    /\ client'[k].pc = "stderr" => Read(client'[k], r, Removing(IDOf(r))')
  BY DEF ReadingIsKnown, IsBeginning, Removing
<1> DEFINE c == client[k]
           n == client'[k]
<1>1. OwnID(r) /\ IDOf(r)' = IDOf(r)
  BY OutputGrows DEF OwnID, IDOf
<1>2. \A s \in Streams : moved[r][s] \in Nat /\ moved'[r][s] \in Nat /\ moved[r][s] <= moved'[r][s]
  <2>1. \A s \in Streams : moved[r][s] <= moved'[r][s]
    BY OutputGrows
  <2>2. \A s \in Streams : moved'[r][s] = moved[r][s] \/ moved'[r][s] = moved[r][s] + 1
    BY MovedGrowsByOne
  <2>3. \A s \in Streams : moved[r][s] \in Nat
    BY DEF TypeOK
  <2> QED
    BY <2>1, <2>2, <2>3
<1>3. Removing(IDOf(r)) => Removing(IDOf(r))'
  BY <1>1, RemovingStays DEF Removing
<1>4. "stdout" \in Streams /\ "stderr" \in Streams
  BY DEF Streams
<1>5. CASE c.pc \in {"stdout", "stderr"} /\ c.target = IDOf(r) /\ n.logged = c.logged
  <2>1. ~Removing(IDOf(r)) => \A s \in Streams : \E m \in 0 .. moved[r][s] : n.logged[s] = Pieces(r, s, m)
    BY <1>1, <1>5 DEF ReadingIsKnown, IsBeginning
  <2>2. ~Removing(IDOf(r))' => Begun(n, r)
    BY <1>2, <1>3, <2>1
  <2>3. CASE n.pc = "stderr" /\ c.pc = "stderr" /\ n.got = c.got
    <3>1. PICK out \in 0 .. moved[r]["stdout"] :
            /\ c.got = Pieces(r, "stdout", out)
            /\ ~Removing(c.target) => out >= Len(c.logged["stdout"])
      BY <1>1, <1>5, <2>3 DEF ReadingIsKnown
    <3>2. out \in 0 .. moved'[r]["stdout"]
      BY <1>2, <1>4
    <3> QED
      BY <1>3, <1>5, <2>2, <2>3, <3>1, <3>2
  <2>4. CASE c.pc = "stdout" /\ n.pc = "stderr" /\ n.got = Content(c.target, "stdout")
    <3>1. PICK out \in 0 .. moved[r]["stdout"] :
            /\ n.got = Pieces(r, "stdout", out)
            /\ ~Removing(IDOf(r)) => out = moved[r]["stdout"]
      BY <1>1, <1>4, <1>5, <2>4, ContentIsKnown
    <3>2. ASSUME ~Removing(IDOf(r)) PROVE out >= Len(n.logged["stdout"])
      <4>1. PICK m \in 0 .. moved[r]["stdout"] : n.logged["stdout"] = Pieces(r, "stdout", m)
        BY <1>4, <2>1, <3>2
      <4>2. Len(n.logged["stdout"]) = m
        BY <1>4, <4>1, PiecesAreTexts
      <4> QED
        BY <1>2, <1>4, <3>1, <3>2, <4>2
    <3>3. out \in 0 .. moved'[r]["stdout"]
      BY <1>2, <1>4
    <3> QED
      BY <1>3, <2>2, <3>1, <3>2, <3>3
  <2>5. CASE n.pc = "stdout"
    BY <2>2, <2>5
  <2> QED
    <3>1. n = c \/ ClientStep(k)
      BY ClientMoves, ClientsUnchanged DEF Next, vars
    <3>2. Moves(k) => n.pc = "stderr" /\ n.got = Content(c.target, "stdout") /\ c.pc = "stdout"
      BY <1>5 DEF Moves
    <3> QED
      BY <1>5, <2>3, <2>4, <2>5, <3>1, <3>2, ClientMoves
<1>6. CASE c.pc = "load" /\ n.pc = "stdout" /\ c.matches = {IDOf(r)} /\ n.logged = file[IDOf(r)]
  <2>1. ASSUME ~Removing(IDOf(r)), NEW s \in Streams PROVE \E m \in 0 .. moved'[r][s] : n.logged[s] = Pieces(r, s, m)
    <3>1. n.logged[s] = Pieces(r, s, moved[r][s])
      BY <1>1, <1>6, <2>1, ContentIsKnown
    <3>2. moved[r][s] \in 0 .. moved'[r][s]
      BY <1>2
    <3> QED
      BY <3>1, <3>2
  <2> QED
    BY <1>3, <1>6, <2>1
<1>7. CASE n = c
  BY <1>1, <1>5, <1>7
<1>8. CASE ClientStep(k)
  <2>1. Moves(k)
    BY <1>8, ClientMoves
  <2>2. \/ c.pc = "stdout" /\ n.pc = "stderr" /\ Found(k) /\ n.logged = c.logged
        \/ c.pc = "load" /\ n.pc = "stdout" /\ c.matches = {n.target} /\ n.logged = file[n.target]
    BY <2>1 DEF Moves
  <2> QED
    BY <1>1, <1>5, <1>6, <2>2 DEF Found
<1> QED
  BY <1>7, <1>8, ClientMoves, ClientsUnchanged DEF Next, vars

LEMMA LogsCurrentStep ==
  ASSUME TypeOK, NamesAreThere, DirectoryIsOwn, LogTellsWorkload, ListingIsKnown, ReadingIsKnown, LogsAreCurrent,
         [Next]_vars
  PROVE  LogsAreCurrent'
<1> DEFINE Tells(c, r, w, Rem) ==
      \E out \in 0 .. w["stdout"], err \in 0 .. w["stderr"] :
        /\ c.got = LastOf(Pieces(r, "stdout", out) \o Pieces(r, "stderr", err), c.tail)
        /\ ~Rem => out >= Len(c.logged["stdout"]) /\ err >= Len(c.logged["stderr"])
        /\ c.outcome = "nothing" <=> out + err = 0
<1> SUFFICES ASSUME NEW k \in Clients, NEW r \in Runs, client'[k].outcome \in {"printed", "nothing"},
                    client'[k].target = IDOf(r)', OwnID(r)', client'[k].verb = "logs"
             PROVE  Tells(client'[k], r, wrote'[r], Removing(IDOf(r))')
  BY DEF LogsAreCurrent, Removing
<1> DEFINE c == client[k]
           n == client'[k]
<1>1. OwnID(r) /\ IDOf(r)' = IDOf(r)
  BY OutputGrows DEF OwnID, IDOf
<1>2. /\ moved[r]["stdout"] \in Nat /\ moved[r]["stdout"] <= wrote[r]["stdout"]
      /\ moved[r]["stderr"] \in Nat /\ moved[r]["stderr"] <= wrote[r]["stderr"]
      /\ wrote[r]["stdout"] \in Nat /\ wrote[r]["stdout"] <= wrote'[r]["stdout"]
      /\ wrote[r]["stderr"] \in Nat /\ wrote[r]["stderr"] <= wrote'[r]["stderr"]
  BY OutputGrows DEF TypeOK, Streams
<1>3. wrote'[r]["stdout"] \in Nat /\ wrote'[r]["stderr"] \in Nat
  BY WroteIsNumber DEF Streams
<1>4. Removing(IDOf(r)) => Removing(IDOf(r))'
  BY <1>1, RemovingStays DEF Removing
<1>5. CASE n = c
  <2>1. PICK out \in 0 .. wrote[r]["stdout"], err \in 0 .. wrote[r]["stderr"] :
          /\ c.got = LastOf(Pieces(r, "stdout", out) \o Pieces(r, "stderr", err), c.tail)
          /\ ~Removing(IDOf(r)) => out >= Len(c.logged["stdout"]) /\ err >= Len(c.logged["stderr"])
          /\ c.outcome = "nothing" <=> out + err = 0
    BY <1>1, <1>5 DEF LogsAreCurrent
  <2>2. out \in 0 .. wrote'[r]["stdout"] /\ err \in 0 .. wrote'[r]["stderr"]
    BY <1>2, <1>3
  <2> QED
    BY <1>4, <1>5, <2>1, <2>2
<1>6. CASE ClientStep(k)
  <2> DEFINE text == c.got \o Content(c.target, "stderr")
  <2>1. Moves(k)
    BY <1>6, ClientMoves
  <2>2. c.pc # "end" => c.outcome = None
    BY DEF ListingIsKnown
  <2>3. None \notin {"printed", "nothing"}
    BY DirectoryAssumption DEF DirectoryAssumption
  <2>4. /\ c.pc = "stderr" /\ c.target = IDOf(r) /\ n.tail = c.tail /\ n.logged = c.logged
        /\ n.got = LastOf(text, c.tail) /\ n.outcome = IF text = <<>> THEN "nothing" ELSE "printed"
    BY <1>1, <2>1, <2>2, <2>3 DEF Moves, Found, Keeps
  <2>5. PICK out \in 0 .. moved[r]["stdout"] :
          /\ c.got = Pieces(r, "stdout", out)
          /\ ~Removing(IDOf(r)) => out >= Len(c.logged["stdout"])
    BY <1>1, <2>4 DEF ReadingIsKnown
  <2>6. PICK err \in 0 .. moved[r]["stderr"] :
          /\ Content(IDOf(r), "stderr") = Pieces(r, "stderr", err)
          /\ ~Removing(IDOf(r)) => err = moved[r]["stderr"]
    BY <1>1, <2>4, ContentIsKnown DEF Streams
  <2>7. ASSUME ~Removing(IDOf(r)) PROVE err >= Len(c.logged["stderr"])
    <3>1. PICK m \in 0 .. moved[r]["stderr"] : c.logged["stderr"] = Pieces(r, "stderr", m)
      BY <1>1, <2>4, <2>7 DEF ReadingIsKnown, IsBeginning, Streams
    <3>2. Len(c.logged["stderr"]) = m
      BY <3>1, PiecesAreTexts DEF Streams
    <3> QED
      BY <1>2, <2>6, <2>7, <3>2
  <2>8. text = <<>> <=> out + err = 0
    <3>1. /\ Pieces(r, "stdout", out) \in Texts /\ Len(Pieces(r, "stdout", out)) = out
          /\ Pieces(r, "stderr", err) \in Texts /\ Len(Pieces(r, "stderr", err)) = err
      BY PiecesAreTexts DEF Streams
    <3>2. text \in Texts /\ Len(text) = out + err
      <4>1. text = Pieces(r, "stdout", out) \o Pieces(r, "stderr", err)
        BY <2>4, <2>5, <2>6
      <4>2. /\ Pieces(r, "stdout", out) \o Pieces(r, "stderr", err) \in Texts
            /\ Len(Pieces(r, "stdout", out) \o Pieces(r, "stderr", err)) = out + err
        BY <3>1, ConcatTexts
      <4> QED
        BY <4>1, <4>2
    <3>3. text = <<>> <=> Len(text) = 0
      BY <3>2, EmptySeq DEF Texts
    <3> QED
      BY <3>2, <3>3
  <2>9. out \in 0 .. wrote'[r]["stdout"] /\ err \in 0 .. wrote'[r]["stderr"]
    BY <1>2, <1>3
  <2>10. n.got = LastOf(Pieces(r, "stdout", out) \o Pieces(r, "stderr", err), n.tail)
    BY <2>4, <2>5, <2>6
  <2> QED
    BY <1>4, <2>4, <2>5, <2>7, <2>8, <2>9, <2>10
<1> QED
  BY <1>5, <1>6, ClientMoves, ClientsUnchanged DEF Next, vars

-----------------------------------------------------------------------------
(* The theorems.                                                            *)

LEMMA IInvInit == ASSUME Init PROVE IInv
<1>1. TypeOK
  BY InitTypes
<1>2. NamesAreThere
  BY DEF Init, NamesAreThere
<1>3. OutputIsKnown
  BY DEF Init, OutputIsKnown, Streams
<1>4. DirectoryIsOwn
  BY <1>1, OwnDirectory, DirectoryAssumption DEF DirectoryAssumption, Init, DirectoryIsOwn, Idle
<1>5. LogTellsWorkload /\ ListingIsKnown /\ ReadingIsKnown
  BY DEF Init, LogTellsWorkload, ListingIsKnown, ReadingIsKnown, Idle
<1>6. LogsAreCurrent
  BY DirectoryAssumption DEF DirectoryAssumption, Init, LogsAreCurrent, Idle
<1> QED
  BY <1>1, <1>2, <1>3, <1>4, <1>5, <1>6 DEF IInv

LEMMA IInvStep == ASSUME IInv, [Next]_vars PROVE IInv'
<1>1. TypeOK' /\ NamesAreThere' /\ OutputIsKnown'
  BY TypeStep, NamesStep, OutputStep DEF IInv
<1>2. LogTellsWorkload' /\ DirectoryIsOwn' /\ ListingIsKnown'
  BY <1>1, LogStep, DirectoryStep, ListingStep DEF IInv
<1>3. ReadingIsKnown' /\ LogsAreCurrent'
  BY ReadingStep, LogsCurrentStep DEF IInv
<1> QED
  BY <1>1, <1>2, <1>3 DEF IInv

\* The inductive invariant holds in every state of every run.
THEOREM Invariance == Spec => []IInv
<1>1. Init => IInv
  BY IInvInit
<1>2. IInv /\ [Next]_vars => IInv'
  BY IInvStep
<1> QED
  BY <1>1, <1>2, PTL DEF Spec

\* A log file that has a name holds what the workload of its run wrote, in order
\* and with nothing of another container, and all of it where Run vouches for that.
THEOREM LogTellsWorkloadAlways == Spec => []LogTellsWorkload
<1>1. IInv => LogTellsWorkload
  BY DEF IInv
<1> QED
  BY <1>1, Invariance, PTL

\* What logs prints is a state of each stream no older than the moment at which
\* it found the container, unless an rm took the files.
THEOREM LogsAreCurrentAlways == Spec => []LogsAreCurrent
<1>1. IInv => LogsAreCurrent
  BY DEF IInv
<1> QED
  BY <1>1, Invariance, PTL

\* ResolveID misses no container that was there and readable all the while.
THEOREM ResolvesAmongHeldAlways == Spec => ResolvesAmongHeld
<1> DEFINE Misses(k) == client[k].pc = "load" /\ client'[k].pc # "load" =>
       LET found == {d \in held[k] : Matches(d, client[k].prefix)} IN
       /\ client'[k].outcome = "missing" => found = {}
       /\ client'[k].target # None =>
            found \subseteq {client'[k].target} /\ Matches(client'[k].target, client[k].prefix)
<1>1. ASSUME IInv, [Next]_vars, NEW k \in Clients PROVE Misses(k)
  <2> SUFFICES ASSUME client[k].pc = "load", client'[k].pc # "load"
               PROVE  LET found == {d \in held[k] : Matches(d, client[k].prefix)} IN
                      /\ client'[k].outcome = "missing" => found = {}
                      /\ client'[k].target # None =>
                           found \subseteq {client'[k].target} /\ Matches(client'[k].target, client[k].prefix)
    OBVIOUS
  <2>1. TypeOK /\ ListingIsKnown
    BY <1>1 DEF IInv
  <2>2. ClientStep(k)
    BY <1>1, <2>1, ClientMoves, ClientsUnchanged DEF Next, vars
  <2>3. Moves(k)
    BY <2>1, <2>2, ClientMoves
  <2>4. client[k].entries = <<>> /\ client'[k].matches = client[k].matches
    BY <2>3 DEF Moves, Found
  <2>5. \A d \in held[k] : Matches(d, client[k].prefix) => d \in client[k].matches
    BY <2>1, <2>4 DEF ListingIsKnown, Range
  <2>6. \A d \in client[k].matches : Matches(d, client[k].prefix)
    BY <2>1 DEF ListingIsKnown
  <2>7. client[k].target = None
    BY <2>1 DEF ListingIsKnown
  <2>8. \/ client[k].matches = {client'[k].target} /\ client'[k].outcome = client[k].outcome /\ client'[k].pc # "end"
        \/ client'[k].target = client[k].target
           /\ client'[k].outcome = IF client[k].matches = {} THEN "missing" ELSE "ambiguous"
    BY <2>3 DEF Moves, Found
  <2> QED
    <3>1. client[k].outcome = None /\ None # "missing"
      BY <2>1, DirectoryAssumption DEF DirectoryAssumption, ListingIsKnown
    <3>2. CASE client[k].matches = {client'[k].target} /\ client'[k].outcome = client[k].outcome
      BY <2>5, <2>6, <3>1, <3>2
    <3>3. CASE client'[k].target = client[k].target
               /\ client'[k].outcome = IF client[k].matches = {} THEN "missing" ELSE "ambiguous"
      BY <2>5, <2>7, <3>3
    <3> QED
      BY <2>8, <3>2, <3>3
<1>2. IInv /\ [Next]_vars => \A k \in Clients : Misses(k)
  BY <1>1
<1>3. IInv /\ [Next]_vars => [\A k \in Clients : Misses(k)]_vars
  BY <1>2
<1> QED
  BY <1>3, Invariance, PTL DEF Spec, ResolvesAmongHeld
===============================================================================
