------------------------------ MODULE PqcScan ------------------------------
(***************************************************************************)
(* A scan by pqcscan from its command line to its results: get_targets     *)
(* (pqcscan/src/main.rs) reads the targets from -t or from the file of -T, *)
(* parse_single_target (utils.rs) takes each apart, and scan_runner        *)
(* (scan.rs, module ScanRunner) scans them.                                *)
(*                                                                         *)
(* A line is the sequence of the texts between its colons, since the last  *)
(* colon is what parse_single_target looks for. Of a text, what matters is *)
(* whether it is empty, whether it starts with '#', and which port it is.  *)
(***************************************************************************)
EXTENDS Integers, Sequences, FiniteSets, SequencesExt

CONSTANTS
    Text,         \* the texts between colons
    Empty,        \* the empty one
    Hashed,       \* those that start with '#'
    PortOf,       \* the port a text is the number of, or NoPort
    NoPort,
    TextOf,       \* how a port is written
    DefaultPort,  \* the default_port of the scan's configuration
    Lines,        \* the lines a target list may have
    MaxLines,     \* bound: the number of lines of a target list
    Threads,      \* --num-threads
    Fatal         \* the targets whose scan may end in a panic

ASSUME ScanAssumption ==
    /\ Empty \in Text
    /\ Hashed \subseteq Text \ {Empty}
    /\ DefaultPort \in Nat
    /\ NoPort \notin Nat
    /\ PortOf \in [Text -> Nat \union {NoPort}]
    /\ PortOf[Empty] = NoPort
    /\ \A x \in Hashed : PortOf[x] = NoPort
    /\ \A p \in {DefaultPort} \union ({PortOf[x] : x \in Text} \ {NoPort}) :
        p \in DOMAIN TextOf /\ TextOf[p] \in Text /\ PortOf[TextOf[p]] = p
    /\ \A l \in Lines : l \in Seq(Text) /\ l # <<>>
    /\ MaxLines \in Nat
    /\ Threads \in Nat \ {0}

-----------------------------------------------------------------------------
(* Targets. *)

NoTarget == [host |-> <<>>, port |-> NoPort]

\* parse_single_target with a default port: the text after the last colon is
\* the port, also where that colon belongs to an IPv6 address.
Parse(input) ==
    IF Len(input) = 1 THEN [host |-> input, port |-> DefaultPort]
    ELSE IF PortOf[Last(input)] = NoPort THEN NoTarget
    ELSE [host |-> Front(input), port |-> PortOf[Last(input)]]

\* Display for Target, the form in which a target is resolved and logged
Display(target) == Append(target.host, TextOf[target.port])

Hostless(target) == target.host = <<Empty>>

\* line.is_empty() || line.starts_with('#')
Skipped(line) == line = <<Empty>> \/ line[1] \in Hashed

VARIABLES
    option,    \* "-t" or "-T"
    file,      \* the argument of -t, or the lines of the target list
    phase,     \* where main is
    line_no,   \* the lines read
    targets,   \* scan.targets
    main, tx, taken, worker, job, results_ch, num_threads, results

runner == <<main, tx, taken, worker, job, results_ch, num_threads, results>>
vars == <<option, file, phase, line_no, targets, runner>>

Runner(L) == INSTANCE ScanRunner WITH
    NumTargets <- Len(L),
    EmptyHost <- {i \in DOMAIN L : Hostless(L[i])},
    MayPanic <- {i \in DOMAIN L : L[i] \in Fatal}

TypeOK ==
    /\ option \in {"-t", "-T"}
    /\ phase \in {"reading", "scanning", "failed", "finished"}
    /\ line_no \in 0..Len(file)
    /\ \A i \in DOMAIN targets :
        targets[i].host \in Seq(Text) /\ targets[i].port \in Nat
    /\ phase \in {"scanning", "finished"} =>
        \A L \in {targets} : Runner(L)!TypeOK

Init ==
    /\ \/ option = "-t" /\ \E l \in Lines : file = <<l>>
       \/ option = "-T" /\ \E n \in 1..MaxLines : file \in [1..n -> Lines]
    /\ phase = "reading"
    /\ line_no = 0
    /\ targets = <<>>
    /\ Runner(<<>>)!Init

-----------------------------------------------------------------------------
(* get_targets. Nothing is scanned while it runs. *)

line == file[line_no + 1]

ReadLine ==
    /\ phase = "reading"
    /\ line_no < Len(file)
    /\ line_no' = line_no + 1

SkipLine ==
    /\ ReadLine
    /\ option = "-T"
    /\ Skipped(line)
    /\ UNCHANGED <<option, file, phase, targets, runner>>

AddTarget ==
    /\ ReadLine
    /\ option = "-T" => ~Skipped(line)
    /\ Parse(line) # NoTarget
    /\ targets' = Append(targets, Parse(line))
    /\ UNCHANGED <<option, file, phase, runner>>

BadTarget_passedOver ==
    /\ ReadLine
    /\ option = "-T" => ~Skipped(line)
    /\ Parse(line) = NoTarget
    /\ UNCHANGED <<option, file, phase, targets, runner>>

\* "Parsing line ... failed": the targets before it are not scanned either.
BadTarget ==
    /\ ReadLine
    /\ option = "-T" => ~Skipped(line)
    /\ Parse(line) = NoTarget
    /\ phase' = "failed"
    /\ UNCHANGED <<option, file, targets, runner>>

\* The file cannot be opened, or a line of it cannot be read.
ReadFails ==
    /\ phase = "reading"
    /\ option = "-T"
    /\ phase' = "failed"
    /\ UNCHANGED <<option, file, line_no, targets, runner>>

StartScan_unclamped ==
    /\ phase = "reading"
    /\ line_no = Len(file)
    /\ phase' = "scanning"
    /\ LET workers == 1..(IF Threads > Len(targets) THEN Len(targets)
                          ELSE Threads)
       IN  /\ worker' = [w \in workers |-> "unspawned"]
           /\ job' = [w \in workers |-> 0]
           /\ num_threads' = Threads
    /\ UNCHANGED <<option, file, line_no, targets, main, tx, taken,
                   results_ch, results>>

\* rt.block_on(scan_runner(config, scan)): its variables, which have been those
\* of a runner without targets, get their initial values for these targets.
StartScan ==
    /\ phase = "reading"
    /\ line_no = Len(file)
    /\ phase' = "scanning"
    /\ LET workers == 1..(IF Threads > Len(targets) THEN Len(targets)
                          ELSE Threads)
       IN  /\ worker' = [w \in workers |-> "unspawned"]
           /\ job' = [w \in workers |-> 0]
           /\ num_threads' = Cardinality(workers)
    /\ UNCHANGED <<option, file, line_no, targets, main, tx, taken,
                   results_ch, results>>

GetTargets == SkipLine \/ AddTarget \/ BadTarget \/ ReadFails \/ StartScan

-----------------------------------------------------------------------------
(* scan_runner, and main after it. *)

RunnerMain ==
    /\ phase = "scanning"
    /\ \E L \in {targets} :
        \/ Runner(L)!Main
        \/ \E w \in Runner(L)!Workers : Runner(L)!Spawn(w)
    /\ UNCHANGED <<option, file, phase, line_no, targets>>

RunnerThread(w) ==
    /\ phase = "scanning"
    /\ \E L \in {targets} : w \in Runner(L)!Workers /\ Runner(L)!Thread(w)
    /\ UNCHANGED <<option, file, phase, line_no, targets>>

\* scan_runner returned: rt.shutdown_background() ends what still runs
ScanDone ==
    /\ phase = "scanning"
    /\ main = "finished"
    /\ phase' = "finished"
    /\ UNCHANGED <<option, file, line_no, targets, runner>>

Next ==
    \/ GetTargets
    \/ RunnerMain
    \/ \E w \in 1..Threads : RunnerThread(w)
    \/ ScanDone

Spec == Init /\ [][Next]_vars

\* Main runs on until it waits for the runner, and the runtime polls the main
\* task and every thread. Reading may fail, but does not have to.
Fairness ==
    /\ WF_vars(SkipLine \/ AddTarget \/ BadTarget \/ StartScan)
    /\ WF_vars(RunnerMain)
    /\ \A w \in 1..Threads : WF_vars(RunnerThread(w))
    /\ WF_vars(ScanDone)

FairSpec == Spec /\ Fairness

-----------------------------------------------------------------------------
(* Properties. *)

Used(i) == option = "-t" \/ ~Skipped(file[i])

Bad(i) == Used(i) /\ Parse(file[i]) = NoTarget

\* No machine is contacted on behalf of a list that has a line that is not a
\* target, wherever the line stands (main.rs:84-100 against 785-790).
AllOrNothing == (\E i \in DOMAIN file : Bad(i)) => tx = <<>>

\* How often a line naming t stands before the line without a host at which
\* the last thread leaves.
Asked(t) ==
    LET hostless(i) == {j \in 1..(i - 1) : Used(j) /\ Hostless(Parse(file[j]))}
    IN  Cardinality({i \in DOMAIN file :
            /\ Used(i)
            /\ Parse(file[i]) = t
            /\ ~Hostless(t)
            /\ Cardinality(hostless(i)) < Len(worker)})

Answered(t) == Cardinality({i \in DOMAIN results : targets[results[i]] = t})

\* When main goes on to the results there is one for every line that names a
\* host, repeated lines included, up to the line without a host that takes the
\* last thread away; and each names a target that, written out and read again,
\* is itself (main.rs:84-100, utils.rs:14-47, scan.rs:81-160).
LinesAnswered ==
    phase = "finished" =>
        \A t \in {Parse(file[i]) : i \in DOMAIN file} :
            /\ Answered(t) = Asked(t)
            /\ Answered(t) > 0 => Parse(Display(t)) = t

\* A result a thread has sent is collected, whatever the lines without a host
\* and the panics of other threads do (scan.rs:140-158).
SentIsCollected ==
    \A t \in 1..MaxLines :
        (\E i \in DOMAIN results_ch : results_ch[i].result = t)
            ~> (\E i \in DOMAIN results : results[i] = t)

Harmless == \A i \in DOMAIN targets : targets[i] \notin Fatal

\* A scan with a target, none of whose scans can panic, comes to its end, even
\* if lines without a host send threads away early (scan.rs:99-180).
Returns ==
    (phase = "scanning" /\ targets # <<>> /\ Harmless) ~> (phase = "finished")
=============================================================================
