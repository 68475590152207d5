--------------------------- MODULE PqcScan_proofs ---------------------------
(***************************************************************************)
(* Proofs about PqcScan, for any texts, any target list made of them, any  *)
(* number of threads and any targets whose scan panics. What is proved of  *)
(* ScanRunner is used for the list that was read: Chosen stands for it, an *)
(* arbitrary list, and what needs the runner is proved of the executions   *)
(* in which that is the list.                                              *)
(***************************************************************************)
EXTENDS PqcScan, FiniteSetTheorems, SequenceTheorems, TLAPS

CONSTANT Chosen

RunnerP == INSTANCE ScanRunner_proofs WITH
    NumTargets <- Len(Chosen),
    EmptyHost <- {i \in DOMAIN Chosen : Hostless(Chosen[i])},
    MayPanic <- {i \in DOMAIN Chosen : Chosen[i] \in Fatal}

-----------------------------------------------------------------------------
(* Targets. *)

\* the targets a line can name: their port is written as a text that is read
\* as the same port
Written(port) == port \in DOMAIN TextOf /\ TextOf[port] \in Text
                 /\ PortOf[TextOf[port]] = port

Targets == [host : Seq(Text) \ {<<>>}, port : {port \in Nat : Written(port)}]

\* A line that names a target names one with a host, if an empty one.
LEMMA ParseType ==
    ASSUME NEW input \in Seq(Text), input # <<>>, Parse(input) # NoTarget
    PROVE  Parse(input) \in Targets
<1>1. Len(input) \in Nat \ {0}
  BY EmptySeq
<1>2. CASE Len(input) = 1
  BY <1>2, ScanAssumption DEF Parse, Targets, Written
<1>3. CASE Len(input) # 1
  <2>1. PICK n \in Nat \ {0} : Len(input) = n + 1
    <3>1. Len(input) - 1 \in Nat \ {0} /\ Len(input) = (Len(input) - 1) + 1
      BY <1>1, <1>3
    <3> QED  BY <3>1
  <2> DEFINE x == input[n + 1]
             host == SubSeq(input, 1, n)
  <2>2. x \in Text /\ \A i \in 1..n : input[i] \in Text
    BY <2>1, ElementOfSeq
  <2>3. PortOf[x] # NoPort
    BY <1>3, <2>1 DEF Parse, Last
  <2>4. PortOf[x] \in Nat /\ Written(PortOf[x])
    BY <2>2, <2>3, ScanAssumption DEF Written
  <2>5. host \in Seq(Text) /\ Len(host) = n
    BY <2>1, <2>2, SubSeqProperties
  <2>6. Parse(input) = [host |-> host, port |-> PortOf[x]]
    BY <1>3, <2>1, <2>3 DEF Parse, Last, Front
  <2> HIDE DEF host
  <2>7. host # <<>>
    BY <2>1, <2>5, EmptySeq
  <2> QED  BY <2>4, <2>5, <2>6, <2>7 DEF Targets
<1> QED  BY <1>2, <1>3

\* A target, written out and read again, is itself: the last colon is the one
\* Display wrote, IPv6 addresses included.
LEMMA DisplayParses ==
    ASSUME NEW t \in Targets
    PROVE  Parse(Display(t)) = t
<1>1. /\ t.host \in Seq(Text) /\ t.host # <<>> /\ Written(t.port)
      /\ t.port \in Nat /\ t = [host |-> t.host, port |-> t.port]
  BY DEF Targets
<1> DEFINE d == Append(t.host, TextOf[t.port])
           n == Len(t.host)
<1>2. /\ d \in Seq(Text) /\ Len(d) = n + 1 /\ d[n + 1] = TextOf[t.port]
      /\ \A i \in 1..n : d[i] = t.host[i]
  BY <1>1, AppendProperties DEF Written
<1>3. n \in Nat \ {0}
  BY <1>1, EmptySeq
<1>4. SubSeq(d, 1, n) = t.host
  <2>1. SubSeq(d, 1, n) \in Seq(Text) /\ Len(SubSeq(d, 1, n)) = n
        /\ \A i \in 1..n : SubSeq(d, 1, n)[i] = d[i]
    BY <1>2, <1>3, ElementOfSeq, SubSeqProperties
  <2> QED  BY <1>1, <1>2, <2>1, SeqEqual
<1> HIDE DEF d
<1>5. Last(d) = TextOf[t.port] /\ Front(d) = t.host /\ Len(d) # 1
  BY <1>2, <1>3, <1>4 DEF Last, Front
<1>6. PortOf[TextOf[t.port]] = t.port /\ t.port # NoPort
  BY <1>1, ScanAssumption DEF Written
<1>7. Parse(d) = [host |-> t.host, port |-> t.port]
  BY <1>5, <1>6 DEF Parse
<1> QED  BY <1>1, <1>7 DEF Display, d

-----------------------------------------------------------------------------
(* get_targets: the targets are those of the lines in use, in order. *)

UsedLines == {i \in 1..line_no : Used(i)}

\* pos[k] is the line of the k-th target.
InOrder(pos) ==
    /\ pos \in [DOMAIN targets -> UsedLines]
    /\ \A k \in DOMAIN targets : targets[k] = Parse(file[pos[k]])
    /\ \A i \in UsedLines : \E k \in DOMAIN targets : pos[k] = i
    /\ \A j, k \in DOMAIN targets : j < k => pos[j] < pos[k]

Listed == \E pos \in [DOMAIN targets -> UsedLines] : InOrder(pos)

ListInv ==
    /\ option \in {"-t", "-T"}
    /\ file \in Seq(Lines)
    /\ phase \in {"reading", "scanning", "failed", "finished"}
    /\ line_no \in 0..Len(file)
    /\ targets \in Seq(Targets)
    /\ phase \in {"scanning", "finished"} => line_no = Len(file)
    /\ phase # "failed" => Listed /\ \A i \in 1..line_no : ~Bad(i)

\* The runner has not begun while the list is read, and not at all if that
\* failed.
NotBegun == phase \in {"reading", "failed"} => Runner(<<>>)!Init

LEMMA InitList == Init => ListInv /\ NotBegun
<1> SUFFICES ASSUME Init  PROVE ListInv /\ NotBegun
  OBVIOUS
<1>1. file \in Seq(Lines) /\ Len(file) \in Nat
  <2>1. PICK n \in Nat : file \in [1..n -> Lines]
    <3>1. CASE \E l \in Lines : file = <<l>>
      <4>1. file \in [1..1 -> Lines]
        BY <3>1
      <4> QED  BY <4>1
    <3>2. CASE \E n \in 1..MaxLines : file \in [1..n -> Lines]
      BY <3>2, ScanAssumption
    <3> QED  BY <3>1, <3>2 DEF Init
  <2>2. file \in Seq(Lines)
    BY <2>1, SeqDef
  <2> QED  BY <2>2, LenProperties
<1>2. targets = <<>> /\ line_no = 0 /\ phase = "reading" /\ option \in {"-t", "-T"}
  BY DEF Init
<1>3. DOMAIN targets = {} /\ UsedLines = {}
  BY <1>2 DEF UsedLines
<1>4. Listed
  <2>1. <<>> \in [DOMAIN targets -> UsedLines]
    BY <1>3
  <2> QED  BY <1>3, <2>1 DEF Listed, InOrder
<1> QED  BY <1>1, <1>2, <1>4, EmptySeq DEF ListInv, NotBegun, Init

\* One more line in use is one more target, the last.
LEMMA AddListed ==
    ASSUME ListInv, AddTarget
    PROVE  Listed'
<1>1. /\ phase = "reading" /\ line_no \in Nat /\ line_no < Len(file)
      /\ line_no' = line_no + 1 /\ file' = file /\ option' = option
      /\ targets' = Append(targets, Parse(line))
      /\ option = "-T" => ~Skipped(line)
      /\ Len(file) \in Nat
  BY LenProperties DEF ListInv, AddTarget, ReadLine
<1>2. /\ targets \in Seq(Targets) /\ Len(targets) \in Nat
      /\ Parse(line) \in Targets
  <2>1. line \in Lines
    BY <1>1, ElementOfSeq DEF ListInv, line
  <2> QED  BY <2>1, ParseType, LenProperties, ScanAssumption DEF ListInv, AddTarget
<1> DEFINE n == Len(targets)
<1>3. /\ DOMAIN targets = 1..n /\ DOMAIN targets' = 1..(n + 1)
      /\ targets'[n + 1] = Parse(line)
      /\ \A k \in 1..n : targets'[k] = targets[k]
  BY <1>1, <1>2, AppendProperties, LenProperties
<1>4. Used(line_no + 1)
  BY <1>1 DEF ListInv, Used, line
<1>5. \A i : Used(i)' = Used(i)
  BY <1>1 DEF Used
<1>6. UsedLines' = UsedLines \union {line_no + 1}
  BY <1>1, <1>4, <1>5 DEF UsedLines
<1>7. PICK pos \in [DOMAIN targets -> UsedLines] : InOrder(pos)
  BY <1>1 DEF ListInv, Listed
<1> DEFINE q == [k \in 1..(n + 1) |-> IF k = n + 1 THEN line_no + 1 ELSE pos[k]]
<1>8. q \in [DOMAIN targets' -> UsedLines']
  BY <1>2, <1>3, <1>6
<1>9. ASSUME NEW k \in DOMAIN targets'  PROVE targets'[k] = Parse(file'[q[k]])
  <2>1. CASE k = n + 1
    BY <1>1, <1>2, <1>3, <2>1 DEF line
  <2>2. CASE k \in 1..n
    BY <1>1, <1>2, <1>3, <1>7, <2>2 DEF InOrder
  <2> QED  BY <1>2, <1>3, <2>1, <2>2
<1>10. ASSUME NEW i \in UsedLines'  PROVE \E k \in DOMAIN targets' : q[k] = i
  <2>1. CASE i = line_no + 1
    <3>1. n + 1 \in DOMAIN targets' /\ q[n + 1] = i
      BY <1>2, <1>3, <2>1
    <3> QED  BY <3>1
  <2>2. CASE i \in UsedLines
    <3>1. PICK k \in DOMAIN targets : pos[k] = i
      BY <1>7, <2>2 DEF InOrder
    <3>2. k \in DOMAIN targets' /\ q[k] = i
      BY <1>2, <1>3, <3>1
    <3> QED  BY <3>2
  <2> QED  BY <1>6, <2>1, <2>2
<1>11. ASSUME NEW j \in DOMAIN targets', NEW k \in DOMAIN targets', j < k
       PROVE  q[j] < q[k]
  <2>1. j \in 1..n /\ pos[j] \in 1..line_no
    BY <1>2, <1>3, <1>7, <1>11 DEF UsedLines
  <2>2. CASE k = n + 1
    BY <1>1, <1>2, <1>3, <2>1, <2>2
  <2>3. CASE k \in 1..n
    BY <1>2, <1>3, <1>7, <1>11, <2>1, <2>3 DEF InOrder
  <2> QED  BY <1>2, <1>3, <2>2, <2>3
<1> HIDE DEF q
<1> QED  BY <1>8, <1>9, <1>10, <1>11 DEF Listed, InOrder

LEMMA StepList ==
    ASSUME ListInv, NotBegun, [Next]_vars
    PROVE  ListInv' /\ NotBegun'
<1>1. /\ Len(file) \in Nat /\ line_no \in Nat /\ line_no <= Len(file)
  BY LenProperties DEF ListInv
\* Steps that read no line.
<1>q. ASSUME UNCHANGED <<option, file, line_no, targets>>,
             phase' \in {"reading", "scanning", "failed", "finished"},
             phase = "failed" => phase' = "failed",
             phase' \in {"scanning", "finished"} => line_no = Len(file),
             phase' \in {"reading", "failed"} =>
                phase \in {"reading", "failed"} /\ UNCHANGED runner
      PROVE  ListInv' /\ NotBegun'
  <2>1. /\ \A i : (Used(i)' = Used(i)) /\ (Bad(i)' = Bad(i))
        /\ UsedLines' = UsedLines
    BY <1>q DEF Used, Bad, UsedLines
  <2>2. Listed => Listed'
    BY <1>q, <2>1 DEF Listed, InOrder
  <2>3. ListInv'
    BY <1>q, <2>1, <2>2 DEF ListInv
  <2>4. NotBegun'
    BY <1>q DEF NotBegun, Runner!Init, runner
  <2> QED  BY <2>3, <2>4
\* Steps that read a line.
<1>r. ASSUME ReadLine, UNCHANGED <<option, file, runner>>
      PROVE  /\ line_no' = line_no + 1 /\ line_no' \in 0..Len(file')
             /\ phase = "reading"
             /\ \A i : (Used(i)' = Used(i)) /\ (Bad(i)' = Bad(i))
             /\ UsedLines' = IF Used(line_no + 1)
                             THEN UsedLines \union {line_no + 1} ELSE UsedLines
             /\ phase' \in {"reading", "failed"} => NotBegun'
  <2>1. /\ line_no' = line_no + 1 /\ line_no' \in 0..Len(file')
        /\ phase = "reading"
        /\ \A i : (Used(i)' = Used(i)) /\ (Bad(i)' = Bad(i))
    BY <1>1, <1>r DEF ReadLine, Used, Bad
  <2>2. UsedLines' = IF Used(line_no + 1)
                     THEN UsedLines \union {line_no + 1} ELSE UsedLines
    BY <1>1, <2>1 DEF UsedLines
  <2>3. NotBegun'
    BY <1>r, <2>1 DEF NotBegun, Runner!Init, runner
  <2> QED  BY <2>1, <2>2, <2>3
<1>2. CASE SkipLine
  <2>1. ~Used(line_no + 1)
    BY <1>2 DEF SkipLine, Used, line
  <2>2. UsedLines' = UsedLines /\ phase' = "reading" /\ phase = "reading"
        /\ NotBegun' /\ UNCHANGED <<option, file, targets>>
        /\ line_no' = line_no + 1 /\ line_no' \in 0..Len(file')
        /\ \A i : (Used(i)' = Used(i)) /\ (Bad(i)' = Bad(i))
    BY <1>2, <1>r, <2>1 DEF SkipLine
  <2>3. Listed'
    BY <2>2 DEF ListInv, Listed, InOrder
  <2>4. \A i \in 1..line_no' : ~Bad(i)'
    BY <1>1, <2>1, <2>2 DEF ListInv, Bad
  <2> QED  BY <2>2, <2>3, <2>4 DEF ListInv
<1>3. CASE AddTarget
  <2>1. phase' = "reading" /\ phase = "reading"
        /\ NotBegun' /\ UNCHANGED <<option, file>>
        /\ line_no' = line_no + 1 /\ line_no' \in 0..Len(file')
        /\ \A i : (Used(i)' = Used(i)) /\ (Bad(i)' = Bad(i))
    BY <1>3, <1>r DEF AddTarget
  <2>2. targets' \in Seq(Targets)
    <3>1. line \in Lines
      BY <1>1, <1>3, ElementOfSeq DEF ListInv, line, AddTarget, ReadLine
    <3>2. Parse(line) \in Targets
      BY <1>3, <3>1, ParseType, ScanAssumption DEF AddTarget
    <3> QED  BY <1>3, <3>2, AppendProperties DEF ListInv, AddTarget
  <2>3. Listed'
    BY <1>3, AddListed
  <2>4. \A i \in 1..line_no' : ~Bad(i)'
    BY <1>1, <1>3, <2>1 DEF ListInv, Bad, AddTarget, line
  <2> QED  BY <2>1, <2>2, <2>3, <2>4 DEF ListInv
<1>4. CASE BadTarget
  <2>1. phase' = "failed" /\ NotBegun' /\ UNCHANGED <<option, file, targets>>
        /\ line_no' \in 0..Len(file')
    BY <1>4, <1>r DEF BadTarget
  <2> QED  BY <2>1 DEF ListInv
<1>5. CASE ReadFails \/ StartScan
  BY <1>5, <1>q DEF ReadFails, StartScan
<1>6. CASE RunnerMain \/ \E w \in 1..Threads : RunnerThread(w)
  BY <1>6, <1>q DEF RunnerMain, RunnerThread, ListInv
<1>7. CASE ScanDone \/ UNCHANGED vars
  BY <1>7, <1>q DEF ScanDone, vars, ListInv
<1> QED  BY <1>2, <1>3, <1>4, <1>5, <1>6, <1>7 DEF Next, GetTargets

\* What has been read of the list, for any list and while anything runs: the
\* targets are those of the lines read that name one, in order, and nothing is
\* queued before the end of the list (main.rs:71-103).
THEOREM ListInvariance == Spec => [](ListInv /\ NotBegun)
<1>1. ListInv /\ NotBegun /\ [Next]_vars => (ListInv /\ NotBegun)'
  BY StepList
<1> QED  BY <1>1, InitList, PTL DEF Spec

\* A list with a line that is not a target is not scanned, not even the
\* targets before that line.
THEOREM ScansAllOrNothing == Spec => []AllOrNothing
<1>1. ListInv /\ NotBegun => AllOrNothing
  <2> SUFFICES ASSUME ListInv, NotBegun, NEW i \in DOMAIN file, Bad(i)
               PROVE  tx = <<>>
    BY DEF AllOrNothing
  <2>1. i \in 1..Len(file)
    BY LenProperties DEF ListInv
  <2>2. phase \in {"reading", "failed"}
    BY <2>1 DEF ListInv
  <2> QED  BY <2>2 DEF NotBegun, Runner!Init
<1> QED  BY <1>1, ListInvariance, PTL

-----------------------------------------------------------------------------
(* scan_runner, on the list that was read. *)

RunnerInv ==
    RunnerP!IInv /\ RunnerP!QuitsQueued /\ RunnerP!OneLeavesPerMessage

RunsChosen ==
    /\ phase \in {"scanning", "finished"} /\ targets = Chosen => RunnerInv
    /\ phase = "finished" => main = "finished"

LEMMA ChosenAssumed ==
    ASSUME Chosen \in Seq(Targets)
    PROVE  RunnerP!RunnerAssumption
<1>1. DOMAIN Chosen = 1..Len(Chosen) /\ Len(Chosen) \in Nat
  BY LenProperties
<1> QED  BY <1>1, ScanAssumption DEF RunnerP!RunnerAssumption

\* Both instances count with the Cardinality of module FiniteSets.
LEMMA SameCardinality ==
    ASSUME NEW S
    PROVE  /\ RunnerP!Cardinality(S) = Cardinality(S)
           /\ Runner(Chosen)!Cardinality(S) = Cardinality(S)
BY DEF RunnerP!Cardinality, Runner!Cardinality, Cardinality

LEMMA StartsRunner ==
    ASSUME NotBegun, StartScan, targets = Chosen
    PROVE  RunnerP!Init'
<1>1. /\ main' = "queueing" /\ tx' = <<>> /\ taken' = 0
      /\ results_ch' = <<>> /\ results' = <<>>
  BY DEF NotBegun, StartScan, Runner!Init
<1>2. /\ worker' = [w \in RunnerP!Workers |-> "unspawned"]
      /\ job' = [w \in RunnerP!Workers |-> 0]
      /\ num_threads' = Cardinality(RunnerP!Workers)
  BY DEF StartScan, RunnerP!Workers
<1> QED  BY <1>1, <1>2, SameCardinality DEF RunnerP!Init, RunnerP!Quit, RunnerP!Workers

LEMMA InitRunner ==
    ASSUME RunnerP!RunnerAssumption
    PROVE  RunnerP!Init => RunnerInv
BY RunnerP!InitIInv, RunnerP!InitExit DEF RunnerInv

LEMMA InitRunnerNext ==
    ASSUME RunnerP!RunnerAssumption
    PROVE  RunnerP!Init' => RunnerInv'
BY InitRunner, PTL

LEMMA SameWorkers == RunnerP!Workers = Runner(Chosen)!Workers
BY DEF RunnerP!Workers, Runner!Workers

\* A step of the runner on the list read is a step of ScanRunner on Chosen.
LEMMA MainStep ==
    ASSUME RunnerMain, targets = Chosen
    PROVE  RunnerP!Next
<1>1. CASE Runner(Chosen)!Main
  <2> USE DEF Runner!Quit, RunnerP!Quit, Runner!Done, RunnerP!Done,
             RunnerP!Next, RunnerP!Main
  <2>1. CASE Runner(Chosen)!SendTarget \/ Runner(Chosen)!SendQuit
    BY <2>1, SameWorkers, SameCardinality DEF Runner!SendTarget,
       RunnerP!SendTarget, Runner!SendQuit, RunnerP!SendQuit
  <2>2. CASE Runner(Chosen)!StartSpawning \/ Runner(Chosen)!StartCollecting
    BY <2>2, SameWorkers, SameCardinality DEF Runner!StartSpawning,
       RunnerP!StartSpawning, Runner!StartCollecting, RunnerP!StartCollecting
  <2>3. CASE Runner(Chosen)!CollectResult \/ Runner(Chosen)!CollectDone
    BY <2>3 DEF Runner!CollectResult, RunnerP!CollectResult,
       Runner!CollectDone, RunnerP!CollectDone
  <2> QED  BY <1>1, <2>1, <2>2, <2>3 DEF Runner!Main
<1>2. ASSUME NEW w \in Runner(Chosen)!Workers, Runner(Chosen)!Spawn(w)
      PROVE  RunnerP!Next
  <2>1. w \in RunnerP!Workers /\ RunnerP!Spawn(w)
    BY <1>2, SameWorkers DEF Runner!Spawn, RunnerP!Spawn
  <2> QED  BY <2>1 DEF RunnerP!Next
<1> QED  BY <1>1, <1>2 DEF RunnerMain

LEMMA ThreadStep ==
    ASSUME NEW w, RunnerThread(w), targets = Chosen
    PROVE  RunnerP!Next
<1>1. w \in RunnerP!Workers /\ Runner(Chosen)!Thread(w)
  BY SameWorkers DEF RunnerThread
<1>2. RunnerP!Thread(w)
  BY <1>1
     DEF Runner!Thread, RunnerP!Thread, Runner!Receive, RunnerP!Receive,
         Runner!ReceiveQuit, RunnerP!ReceiveQuit,
         Runner!AsksToQuit, RunnerP!AsksToQuit, Runner!Quit, RunnerP!Quit,
         Runner!SendResult, RunnerP!SendResult, Runner!Panic, RunnerP!Panic,
         Runner!SendDone, RunnerP!SendDone, Runner!Done, RunnerP!Done
<1> QED  BY <1>1, <1>2 DEF RunnerP!Next

LEMMA StepRuns ==
    ASSUME ListInv, NotBegun, RunsChosen, [Next]_vars
    PROVE  RunsChosen'
<1>a. targets = Chosen => RunnerP!RunnerAssumption
  BY ChosenAssumed DEF ListInv
<1>1. CASE GetTargets
  <2>1. phase = "reading"
    BY <1>1 DEF GetTargets, SkipLine, AddTarget, BadTarget, ReadLine, ReadFails,
                StartScan
  <2>2. CASE StartScan
    <3>1. ASSUME targets' = Chosen  PROVE RunnerInv'
      <4>1. RunnerP!Init' /\ RunnerP!RunnerAssumption
        BY <1>a, <2>2, <3>1, StartsRunner DEF StartScan
      <4> QED  BY <4>1, InitRunnerNext
    <3> QED  BY <2>2, <3>1 DEF RunsChosen, StartScan
  <2>3. CASE ~StartScan
    <3>1. phase' \in {"reading", "failed"}
      BY <1>1, <2>1, <2>3 DEF GetTargets, SkipLine, AddTarget, BadTarget, ReadFails
    <3> QED  BY <3>1 DEF RunsChosen
  <2> QED  BY <2>2, <2>3
<1>2. CASE RunnerMain \/ \E w \in 1..Threads : RunnerThread(w)
  <2>1. phase = "scanning" /\ phase' = "scanning" /\ targets' = targets
    BY <1>2 DEF RunnerMain, RunnerThread
  <2>2. ASSUME targets = Chosen  PROVE RunnerInv'
    <3>1. RunnerP!Next /\ RunnerInv /\ RunnerP!RunnerAssumption
      BY <1>2, <1>a, <2>1, <2>2, MainStep, ThreadStep DEF RunsChosen
    <3> QED  BY <3>1, RunnerP!StepIInv, RunnerP!StepExit DEF RunnerInv
  <2> QED  BY <2>1, <2>2 DEF RunsChosen
<1>3. CASE ScanDone \/ UNCHANGED vars
  <2>1. /\ UNCHANGED <<targets, runner>>
        /\ phase' \in {"scanning", "finished"} =>
                phase \in {"scanning", "finished"}
        /\ phase' = "finished" => main' = "finished"
    BY <1>3 DEF ScanDone, vars, runner, RunsChosen
  <2>2. ASSUME targets = Chosen, RunnerInv  PROVE RunnerInv'
    <3>1. UNCHANGED RunnerP!vars /\ RunnerP!RunnerAssumption
      BY <1>a, <2>1, <2>2 DEF runner, RunnerP!vars
    <3> QED  BY <2>2, <3>1, RunnerP!StepIInv, RunnerP!StepExit DEF RunnerInv
  <2> QED  BY <2>1, <2>2 DEF RunsChosen
<1> QED  BY <1>1, <1>2, <1>3 DEF Next

\* From StartScan on, the runner's part of the state keeps the invariants of
\* ScanRunner for the list that was read, any list (main.rs:785-790).
THEOREM RunsScanRunner == Spec => [](ListInv /\ NotBegun /\ RunsChosen)
<1>1. Init => RunsChosen
  BY DEF Init, RunsChosen
<1> QED  BY <1>1, StepRuns, ListInvariance, PTL DEF Spec

\* The targets have hosts and ports, and the runner's queues hold only what
\* belongs there, whatever list was read.
THEOREM TypeCorrect == Spec => [](targets = Chosen => TypeOK)
<1>1. ListInv /\ RunsChosen => (targets = Chosen => TypeOK)
  <2> SUFFICES ASSUME ListInv, RunsChosen, targets = Chosen  PROVE TypeOK
    OBVIOUS
  <2>1. ASSUME NEW i \in DOMAIN targets
        PROVE  targets[i].host \in Seq(Text) /\ targets[i].port \in Nat
    <3>1. targets[i] \in Targets
      BY LenProperties, ElementOfSeq DEF ListInv
    <3> QED  BY <3>1 DEF Targets
  <2>2. RunnerP!TypeOK = Runner(Chosen)!TypeOK
    <3>1. RunnerP!Target = Runner(Chosen)!Target
      BY DEF RunnerP!Target, Runner!Target
    <3>2. RunnerP!Message = Runner(Chosen)!Message
      BY <3>1, SameWorkers, SameCardinality DEF RunnerP!Message, Runner!Message,
         RunnerP!Done, Runner!Done
    <3> QED  BY <3>1, <3>2, SameWorkers, SameCardinality
             DEF RunnerP!TypeOK, Runner!TypeOK, RunnerP!Quit, Runner!Quit
  <2>3. phase \in {"scanning", "finished"} => RunnerP!TypeOK
    BY DEF RunsChosen, RunnerInv, RunnerP!IInv
  <2> QED  BY <2>1, <2>2, <2>3 DEF TypeOK, ListInv
<1> QED  BY <1>1, RunsScanRunner, PTL

-----------------------------------------------------------------------------
(* The results against the lines. *)

HostlessBefore(k) == {j \in 1..(k - 1) : Hostless(targets[j])}

HostlessLines(i) == {j \in 1..(i - 1) : Used(j) /\ Hostless(Parse(file[j]))}

LEMMA SameCount ==
    ASSUME NEW S, NEW T, IsFiniteSet(S), NEW f \in [S -> T],
           \A i, j \in S : f[i] = f[j] => i = j,
           \A t \in T : \E i \in S : f[i] = t
    PROVE  Cardinality(S) = Cardinality(T)
<1>1. f \in Injection(S, T)
  BY DEF Injection, IsInjective
<1>2. f \in Surjection(S, T)
  BY DEF Surjection
<1> QED  BY <1>1, <1>2, FS_Surjection

\* When the runner has returned, a target has exactly one result if it has a
\* host and was before the one that took the last thread away, and else none.
LEMMA ResultsOfTargets ==
    ASSUME ListInv, RunsChosen, targets = Chosen, phase = "finished"
    PROVE  /\ Len(results) \in Nat /\ DOMAIN results = 1..Len(results)
           /\ \A i \in DOMAIN results : results[i] \in DOMAIN targets
           /\ \A i, j \in DOMAIN results : results[i] = results[j] => i = j
           /\ \A k \in DOMAIN targets :
                (\E i \in DOMAIN results : results[i] = k)
                <=> /\ ~Hostless(targets[k])
                    /\ Cardinality(HostlessBefore(k)) < Len(worker)
<1> DEFINE empty == {i \in DOMAIN Chosen : Hostless(Chosen[i])}
<1>1. /\ RunnerP!RunnerAssumption /\ RunnerInv /\ main = "finished"
      /\ DOMAIN targets = 1..Len(targets) /\ Len(targets) \in Nat
  BY ChosenAssumed, LenProperties DEF ListInv, RunsChosen
<1>2. RunnerP!Target = DOMAIN targets
  BY <1>1 DEF RunnerP!Target
<1>3. results \in Seq(DOMAIN targets)
  BY <1>1, <1>2 DEF RunnerInv, RunnerP!IInv, RunnerP!TypeOK
<1>4. /\ Len(results) \in Nat /\ DOMAIN results = 1..Len(results)
      /\ \A i \in DOMAIN results : results[i] \in DOMAIN targets
  BY <1>3, LenProperties, ElementOfSeq
<1>5. \A i, j \in DOMAIN results : results[i] = results[j] => i = j
  BY <1>1 DEF RunnerInv, RunnerP!IInv, RunnerP!ExactlyOnce
<1>6. {results[i] : i \in DOMAIN results} = {t \in RunnerP!Target \ empty : t <= taken}
  BY <1>1, RunnerP!FinishedComplete DEF RunnerInv, RunnerP!Complete
<1>7. Cardinality(RunnerP!Workers) = Len(worker)
  <2>1. PICK n \in Nat : RunnerP!Workers = 1..n
    BY <1>1, ScanAssumption DEF RunnerP!Workers
  <2>2. PICK S : worker \in [1..n -> S]
    BY <1>1, <2>1 DEF RunnerInv, RunnerP!IInv, RunnerP!TypeOK
  <2>3. worker \in Seq(S)
    BY <2>2, SeqDef
  <2>4. PICK m \in Nat : RunnerP!Workers = 1..m /\ m = Len(worker)
    BY <2>1, <2>2, <2>3, LenProperties
  <2>5. Cardinality(1..m) = m
    BY FS_Interval
  <2> QED  BY <2>4, <2>5
<1>8. ASSUME NEW k \in DOMAIN targets, ~Hostless(targets[k])
      PROVE  k <= taken <=> Cardinality(HostlessBefore(k)) < Len(worker)
  <2>1. k \in RunnerP!Target \ empty
    BY <1>2, <1>8
  <2>2. k <= taken <=> RunnerP!Cardinality(RunnerP!HostlessBefore(k))
                        < RunnerP!Cardinality(RunnerP!Workers)
    BY <1>1, <2>1, RunnerP!ScannedUpTo DEF RunnerInv
  <2>3. RunnerP!HostlessBefore(k) = HostlessBefore(k)
    BY <1>1 DEF RunnerP!HostlessBefore, HostlessBefore
  <2> QED  BY <1>7, <2>2, <2>3, SameCardinality
<1>9. ASSUME NEW k \in DOMAIN targets
      PROVE  (\E i \in DOMAIN results : results[i] = k)
             <=> ~Hostless(targets[k]) /\ k <= taken
  BY <1>2, <1>6
<1> QED  BY <1>4, <1>5, <1>8, <1>9

\* As many targets without a host are before a target as there are lines in
\* use without a host before its line.
LEMMA SameHostless ==
    ASSUME ListInv, NEW pos, InOrder(pos), NEW k \in DOMAIN targets
    PROVE  Cardinality(HostlessBefore(k)) = Cardinality(HostlessLines(pos[k]))
<1>1. /\ DOMAIN targets = 1..Len(targets) /\ Len(targets) \in Nat
      /\ line_no \in Nat
  BY LenProperties DEF ListInv
<1>2. \A j \in DOMAIN targets : pos[j] \in 1..line_no /\ Used(pos[j])
  BY DEF InOrder, UsedLines
<1> DEFINE S == HostlessBefore(k)
           T == HostlessLines(pos[k])
           f == [j \in S |-> pos[j]]
<1>3. \A j \in S : j \in DOMAIN targets /\ j < k /\ Hostless(targets[j])
  BY <1>1 DEF HostlessBefore
<1>4. ASSUME NEW j \in S  PROVE pos[j] \in T
  BY <1>1, <1>2, <1>3 DEF InOrder, HostlessLines
<1>5. ASSUME NEW i \in S, NEW j \in S, pos[i] = pos[j]  PROVE i = j
  BY <1>1, <1>2, <1>3, <1>5 DEF InOrder
<1>6. ASSUME NEW i \in T  PROVE \E j \in S : pos[j] = i
  <2>1. i \in UsedLines /\ i < pos[k] /\ Hostless(Parse(file[i]))
    BY <1>1, <1>2 DEF HostlessLines, UsedLines
  <2>2. PICK j \in DOMAIN targets : pos[j] = i
    BY <2>1 DEF InOrder
  <2>3. j < k
    BY <1>1, <1>2, <2>1, <2>2 DEF InOrder
  <2>4. Hostless(targets[j])
    BY <2>1, <2>2 DEF InOrder
  <2> QED  BY <1>1, <2>2, <2>3, <2>4 DEF HostlessBefore
<1>7. IsFiniteSet(S)
  <2>1. IsFiniteSet(1..(k - 1))
    BY <1>1, FS_Interval
  <2> QED  BY <2>1, FS_Subset DEF HostlessBefore
<1> HIDE DEF S, T
<1>8. /\ f \in [S -> T]
      /\ \A i, j \in S : f[i] = f[j] => i = j
      /\ \A t \in T : \E i \in S : f[i] = t
  BY <1>4, <1>5, <1>6
<1> HIDE DEF f
<1>9. Cardinality(S) = Cardinality(T)
  BY <1>7, <1>8, SameCount
<1> QED  BY <1>9 DEF S, T

LEMMA FinishedAnswers ==
    ASSUME ListInv, RunsChosen, targets = Chosen, phase = "finished", NEW t
    PROVE  /\ Answered(t) = Asked(t)
           /\ Answered(t) > 0 => Parse(Display(t)) = t
<1>1. PICK pos \in [DOMAIN targets -> UsedLines] : InOrder(pos)
  BY DEF ListInv, Listed
<1>2. /\ UsedLines = {i \in DOMAIN file : Used(i)}
      /\ DOMAIN targets = 1..Len(targets)
      /\ \A k \in DOMAIN targets : targets[k] \in Targets
  BY LenProperties, ElementOfSeq DEF ListInv, UsedLines
<1> DEFINE S == {i \in DOMAIN results : targets[results[i]] = t}
           T == {i \in DOMAIN file :
                    /\ Used(i)
                    /\ Parse(file[i]) = t
                    /\ ~Hostless(t)
                    /\ Cardinality(HostlessLines(i)) < Len(worker)}
           f == [i \in S |-> pos[results[i]]]
<1>3. ASSUME NEW i \in S
      PROVE  pos[results[i]] \in T
  <2>1. /\ results[i] \in DOMAIN targets /\ targets[results[i]] = t
        /\ ~Hostless(t)
        /\ Cardinality(HostlessBefore(results[i])) < Len(worker)
    BY ResultsOfTargets
  <2>2. Cardinality(HostlessLines(pos[results[i]])) < Len(worker)
    BY <1>1, <2>1, SameHostless
  <2> QED  BY <1>1, <1>2, <2>1, <2>2 DEF InOrder
<1>4. ASSUME NEW i \in S, NEW j \in S, pos[results[i]] = pos[results[j]]
      PROVE  i = j
  <2>1. /\ results[i] \in DOMAIN targets /\ results[j] \in DOMAIN targets
        /\ results[i] = results[j] => i = j
    BY ResultsOfTargets
  <2>2. results[i] = results[j]
    <3>1. \A k \in DOMAIN targets : pos[k] \in Nat
      BY <1>1 DEF UsedLines, ListInv
    <3> QED  BY <1>1, <1>2, <1>4, <2>1, <3>1, LenProperties DEF InOrder, ListInv
  <2> QED  BY <2>1, <2>2
<1>5. ASSUME NEW i \in T  PROVE \E j \in S : pos[results[j]] = i
  <2>1. PICK k \in DOMAIN targets : pos[k] = i
    BY <1>1, <1>2 DEF InOrder
  <2>2. targets[k] = t /\ ~Hostless(targets[k])
    BY <1>1, <2>1 DEF InOrder
  <2>3. Cardinality(HostlessBefore(k)) < Len(worker)
    BY <1>1, <2>1, SameHostless
  <2>4. PICK j \in DOMAIN results : results[j] = k
    BY <2>2, <2>3, ResultsOfTargets
  <2> QED  BY <2>1, <2>2, <2>4
<1>6. IsFiniteSet(S)
  <2>1. IsFiniteSet(DOMAIN results)
    BY ResultsOfTargets, FS_Interval
  <2> QED  BY <2>1, FS_Subset
<1>7. Answered(t) = Cardinality(S) /\ Asked(t) = Cardinality(T)
  BY DEF Answered, Asked, HostlessLines
<1>8. ASSUME S # {}  PROVE Parse(Display(t)) = t
  <2>1. t \in Targets
    BY <1>2, <1>8, ResultsOfTargets
  <2> QED  BY <2>1, DisplayParses
<1> HIDE DEF S, T
<1>9. /\ f \in [S -> T]
      /\ \A i, j \in S : f[i] = f[j] => i = j
      /\ \A x \in T : \E i \in S : f[i] = x
  BY <1>3, <1>4, <1>5
<1> HIDE DEF f
<1>10. Cardinality(S) = Cardinality(T)
  BY <1>6, <1>9, SameCount
<1>11. Cardinality(S) > 0 => S # {}
  BY FS_EmptySet
<1> QED  BY <1>7, <1>8, <1>10, <1>11

\* When main goes on to the results, every line in use that names a host has
\* its own, up to the line without a host that took the last thread away; and
\* the target of a result, written out and read again, is itself.
THEOREM AnswersEveryLine == Spec => [](targets = Chosen => LinesAnswered)
<1>1. ListInv /\ RunsChosen => (targets = Chosen => LinesAnswered)
  BY FinishedAnswers DEF LinesAnswered
<1> QED  BY <1>1, RunsScanRunner, PTL

-----------------------------------------------------------------------------
(***************************************************************************)
(* A whole scan, from its command line on, does what ScanPool promises for *)
(* the list that was read, when every target of it has a host. What a scan *)
(* reads before the runner starts is no step of the pool.                  *)
(***************************************************************************)
Taken == {job[w] : w \in {v \in DOMAIN worker :
                             worker[v] \in {"scanning", "panicked"}}}

Waiting == {results_ch[i].result :
                i \in {j \in DOMAIN results_ch : results_ch[j].result # 0}}

Pool == INSTANCE ScanPool WITH
    Target <- DOMAIN Chosen,
    pending <- (taken + 1)..Len(Chosen),
    running <- Taken \union Waiting,
    reported <- results,
    finished <- main = "finished"

HostsChosen ==
    Chosen \in Seq(Targets) /\ \A i \in DOMAIN Chosen : ~Hostless(Chosen[i])

\* the executions in which the list read is Chosen
IsChosen == phase \in {"scanning", "finished"} => targets = Chosen

AfterAll ==
    phase \in {"scanning", "finished"} /\ targets = Chosen
        => RunnerP!ExitAfterAllTargets

\* The same set is running in the pool the runner implements.
SamePool ==
    {job[w] : w \in {v \in RunnerP!Workers : RunnerP!Scanning(v)}}
        \union {results_ch[i].result : i \in RunnerP!InChannel}
    = Taken \union Waiting

LEMMA RunnerPoolSame == RunnerP!TypeOK => SamePool
<1> SUFFICES ASSUME RunnerP!TypeOK  PROVE SamePool
  OBVIOUS
<1>1. DOMAIN worker = RunnerP!Workers
  BY DEF RunnerP!TypeOK
<1> QED  BY <1>1 DEF SamePool, Taken, Waiting, RunnerP!Scanning,
                     RunnerP!InChannel, RunnerP!Done

LEMMA RunnerPoolSameNext == RunnerP!TypeOK' => SamePool'
BY RunnerPoolSame, PTL

LEMMA DrainedNext ==
    ASSUME RunnerP!RunnerAssumption
    PROVE  RunnerP!IInv' => RunnerP!Drained'
<1>1. RunnerP!IInv => RunnerP!Drained
  BY RunnerP!FinishedDrained
<1> QED  BY <1>1, PTL

LEMMA RunnerPoolStep ==
    ASSUME RunnerP!RunnerAssumption, HostsChosen, RunnerP!IInv, RunnerP!IInv',
           RunnerP!ExitAfterAllTargets', [RunnerP!Next]_(RunnerP!vars)
    PROVE  [Pool!Next]_(Pool!vars)
<1>1. {i \in DOMAIN Chosen : Hostless(Chosen[i])} = {}
  BY DEF HostsChosen
<1>2. RunnerP!Drained'
  BY DrainedNext
<1>3. [RunnerP!Pool!Next]_(RunnerP!Pool!vars)
  BY <1>1, <1>2, RunnerP!PoolStep
<1>4. RunnerP!TypeOK /\ RunnerP!TypeOK'
  BY DEF RunnerP!IInv
<1>5. SamePool /\ SamePool'
  BY <1>4, RunnerPoolSame, RunnerPoolSameNext
<1>6. RunnerP!Target = DOMAIN Chosen
  BY LenProperties DEF HostsChosen, RunnerP!Target
<1>7. CASE UNCHANGED RunnerP!Pool!vars
  BY <1>5, <1>7 DEF SamePool, RunnerP!Pool!vars, Pool!vars
<1>8. ASSUME NEW t \in RunnerP!Target, RunnerP!Pool!Begin(t)
      PROVE  Pool!Begin(t)
  BY <1>5, <1>8 DEF SamePool, RunnerP!Pool!Begin, Pool!Begin
<1>9. ASSUME NEW t \in RunnerP!Target, RunnerP!Pool!Report(t)
      PROVE  Pool!Report(t)
  BY <1>5, <1>9 DEF SamePool, RunnerP!Pool!Report, Pool!Report
<1>10. CASE RunnerP!Pool!Finish
  <2>1. Pool!Finish
    BY <1>5, <1>10 DEF SamePool, RunnerP!Pool!Finish, Pool!Finish
  <2> QED  BY <2>1 DEF Pool!Next
<1>11. CASE \E t \in RunnerP!Target :
                RunnerP!Pool!Begin(t) \/ RunnerP!Pool!Report(t)
  <2>1. \E t \in DOMAIN Chosen : Pool!Begin(t) \/ Pool!Report(t)
    BY <1>6, <1>8, <1>9, <1>11, Zenon
  <2>2. Pool!Next
    BY <2>1, Zenon DEF Pool!Next
  <2> QED  BY <2>2
<1> QED  BY <1>3, <1>7, <1>10, <1>11 DEF RunnerP!Pool!Next

LEMMA InitAfterAll == RunnerP!Init => RunnerP!ExitAfterAllTargets
BY DEF RunnerP!Init, RunnerP!ExitAfterAllTargets

LEMMA InitAfterAllNext == RunnerP!Init' => RunnerP!ExitAfterAllTargets'
BY InitAfterAll, PTL

\* The threads leave after the last target, and a step of the runner is one
\* of the pool or none.
LEMMA ScanningPoolStep ==
    ASSUME HostsChosen, ListInv, RunsChosen, RunsChosen', AfterAll,
           phase \in {"scanning", "finished"},
           phase' \in {"scanning", "finished"}, targets = Chosen,
           targets' = targets, [RunnerP!Next]_(RunnerP!vars)
    PROVE  RunnerP!ExitAfterAllTargets' /\ [Pool!Next]_(Pool!vars)
<1>1. {i \in DOMAIN Chosen : Hostless(Chosen[i])} = {}
  BY DEF HostsChosen
<1>2. /\ RunnerP!RunnerAssumption /\ RunnerP!IInv /\ RunnerP!IInv'
      /\ RunnerP!ExitAfterAllTargets
  BY ChosenAssumed DEF HostsChosen, RunsChosen, RunnerInv, AfterAll
<1>3. RunnerP!ExitAfterAllTargets'
  BY <1>1, <1>2, RunnerP!StepAfterAll
<1> QED  BY <1>2, <1>3, RunnerPoolStep

\* Reading the list is nothing the pool does; nor is starting the runner, whose
\* threads are all unspawned.
LEMMA ReadingPoolStep ==
    ASSUME NotBegun, GetTargets
    PROVE  /\ UNCHANGED Pool!vars
           /\ phase = "reading" /\ (StartScan \/ phase' \in {"reading", "failed"})
<1>1. phase = "reading" /\ (StartScan \/ phase' \in {"reading", "failed"})
  BY DEF GetTargets, SkipLine, AddTarget, BadTarget, ReadLine, ReadFails,
         StartScan
<1>2. CASE StartScan
  <2>1. UNCHANGED <<taken, results, results_ch, main>>
    BY <1>2 DEF StartScan
  <2>2. Runner(<<>>)!Init
    BY <1>1 DEF NotBegun
  <2>3. \A v \in DOMAIN worker : worker[v] = "unspawned"
    BY <2>2 DEF Runner!Init
  <2>4. \A v \in DOMAIN worker' : worker'[v] = "unspawned"
    BY <1>2 DEF StartScan
  <2>5. Taken = {} /\ Taken' = {}
    BY <2>3, <2>4 DEF Taken
  <2>6. UNCHANGED Pool!vars
    BY <2>1, <2>5 DEF Pool!vars, Waiting
  <2> QED  BY <1>1, <2>6
<1>3. CASE ~StartScan
  <2>1. UNCHANGED runner
    BY <1>3 DEF GetTargets, SkipLine, AddTarget, BadTarget, ReadFails
  <2> QED  BY <1>1, <2>1 DEF runner, Pool!vars, Taken, Waiting
<1> QED  BY <1>2, <1>3

LEMMA StepOfPool ==
    ASSUME HostsChosen, ListInv, NotBegun, RunsChosen, RunsChosen', AfterAll,
           IsChosen, IsChosen', [Next]_vars
    PROVE  AfterAll' /\ [Pool!Next]_(Pool!vars)
<1>1. CASE GetTargets
  <2>1. UNCHANGED Pool!vars
    BY <1>1, ReadingPoolStep
  <2>2. StartScan \/ phase' \in {"reading", "failed"}
    BY <1>1, ReadingPoolStep
  <2>3. ASSUME StartScan, targets' = Chosen
        PROVE  RunnerP!ExitAfterAllTargets'
    <3>1. targets = Chosen
      BY <2>3 DEF StartScan
    <3> QED  BY <2>3, <3>1, StartsRunner, InitAfterAllNext
  <2> QED  BY <2>1, <2>2, <2>3 DEF AfterAll
<1>2. CASE RunnerMain \/ \E w \in 1..Threads : RunnerThread(w)
  <2>1. phase = "scanning" /\ phase' = "scanning" /\ targets' = targets
    BY <1>2 DEF RunnerMain, RunnerThread
  <2>2. targets = Chosen
    BY <2>1 DEF IsChosen
  <2>3. RunnerP!Next
    BY <1>2, <2>2, MainStep, ThreadStep
  <2> QED  BY <2>1, <2>2, <2>3, ScanningPoolStep DEF AfterAll
<1>3. CASE ScanDone \/ UNCHANGED vars
  <2>1. /\ UNCHANGED <<targets, runner>>
        /\ phase' \in {"scanning", "finished"} =>
                phase \in {"scanning", "finished"}
    BY <1>3 DEF ScanDone, vars
  <2>2. UNCHANGED Pool!vars
    BY <2>1 DEF runner, Pool!vars, Taken, Waiting
  <2>3. RunnerP!ExitAfterAllTargets => RunnerP!ExitAfterAllTargets'
    BY <2>1 DEF runner, RunnerP!ExitAfterAllTargets
  <2> QED  BY <2>1, <2>2, <2>3 DEF AfterAll
<1> QED  BY <1>1, <1>2, <1>3 DEF Next

LEMMA InitOfPool ==
    ASSUME HostsChosen
    PROVE  Init => AfterAll /\ Pool!Init
<1> SUFFICES ASSUME Init  PROVE AfterAll /\ Pool!Init
  OBVIOUS
<1>1. Runner(<<>>)!Init /\ phase = "reading"
  BY DEF Init
<1>2. /\ taken = 0 /\ results = <<>> /\ results_ch = <<>> /\ main = "queueing"
      /\ \A v \in DOMAIN worker : worker[v] = "unspawned"
  BY <1>1 DEF Runner!Init
<1>3. Taken = {} /\ Waiting = {}
  BY <1>2 DEF Taken, Waiting
<1>4. DOMAIN Chosen = 1..Len(Chosen)
  BY LenProperties DEF HostsChosen
<1> QED  BY <1>1, <1>2, <1>3, <1>4 DEF AfterAll, Pool!Init

\* Whatever list was read, if its targets have hosts: each is begun once, its
\* result is appended once, and main has its Scan only when no target is left
\* (main.rs:785-790 with scan.rs:55-180, from the first line of the list on).
THEOREM ImplementsPool ==
    ASSUME HostsChosen
    PROVE  Spec /\ []IsChosen => Pool!Spec
<1>1. Init => AfterAll /\ Pool!Init
  BY InitOfPool
<1>2. ASSUME ListInv, NotBegun, RunsChosen, RunsChosen', AfterAll,
             IsChosen, IsChosen', [Next]_vars
      PROVE  AfterAll' /\ [Pool!Next]_(Pool!vars)
  BY <1>2, StepOfPool
<1> QED  BY <1>1, <1>2, RunsScanRunner, PTL DEF Spec, Pool!Spec
=============================================================================
