# Verification of pqcscan and pqcdump

TLA+ models of the two programs of this repository, TLC configurations that
check them on small instances, and TLAPS proofs for every value of their
constants.

- **pqcscan** (`pqcscan/src`) connects to SSH and TLS servers, records which key
  exchange algorithms and groups they offer, writes a result file, and turns
  result files into reports.
- **pqcdump** (`pqcdump/src`) reads a packet capture and reports which
  algorithms the hosts in it named and which their sessions used.

They share two data files (`kex_algos.json`, `tls_groups.json`) and no code.

## 1. The system

### pqcscan

| part | state | operations | hard parts |
|---|---|---|---|
| scan runner, `scan.rs` | target channel, results channel, count of threads, results | queue targets and exit messages, spawn, receive, scan, report, collect | several tasks on two channels; a task that panics; the exit message is an ordinary target with an empty host |
| SSH scan, `ssh.rs`, `utils.rs` | position in the exchange, what was read | resolve, connect, read the identification, echo it, read the KEXINIT, classify | TCP cuts and joins messages; short write; each wait has a time limit; a parser that can panic |
| TLS scan, `tls.rs`, `utils.rs` | groups left to test, groups accepted, first address | choose groups, one connection per group, verdict on the reply | one of many connections fails; the name resolves anew each time |
| ClientHello, `tls.rs:65-392` | lengths of the builder | add extensions, serialise | u16 lengths summed up apart from the bytes they count |
| targets, `utils.rs:14-48`, `main.rs:71-103` | the targets read so far | parse HOST:PORT, read a list | IPv6 without port, empty host, a bad line late in a list |
| result file, `main.rs:784-808` | a file, a buffer | create, write | failure after a long scan; success is logged before the buffer is empty |
| report, `main.rs:148-640` | counters and maps, a file | merge result files, count, write four formats | one bad file among several, or one still being written; an older report at the same path |
| command line, `main.rs`, `config.rs` | none | parse options | `--num-threads 0` |

`main` parses the targets and calls `scan_runner`, which spawns one tokio task
per thread. The tasks share only the two channels; each calls
`ssh_scan_target` or `tls_scan_target` for the target it received and sends the
`ScanResult` to the collector, which counts `Done` messages.

### pqcdump

| part | state | operations | hard parts |
|---|---|---|---|
| packet loop, `main.rs:147-186, 487-567` | packet count, first and last time | read, slice, dispatch by the first bytes | each payload is examined twice, alone and reassembled; a read error looks like the end |
| TCP reassembly, `tcp.rs` | for each flow a buffer and the next sequence number | push a segment | loss, retransmission, reordering, wrap at 2^32 |
| SSH sessions, `ssh.rs` | sessions by connection, capabilities by host | record a KEXINIT, negotiate | order of the two sides, repeated messages, who is the client |
| TLS hellos, `tls.rs` | ciphers and groups by socket, sessions by connection | record a ClientHello, a ServerHello | HelloRetryRequest, malformed extensions, split ClientHellos |
| report, `main.rs:188-434` | hosts, counts, statuses, tables | loops over the maps | HashMap order; tables made from different maps must agree |
| report file, `report.rs` | a file | find a free name, render | other processes creating files, several runs at once |

pqcdump is a single thread: a packet is handled whole before the next is read.
What is nondeterministic is the capture, and the order of the HashMaps.

### What makes each part correct

- The runner: every target is scanned once and its result collected once; it
  returns, and only when nothing is left; no thread waits for ever.
- A scan: it ends, gives one result, claims only what the server offers and
  nothing when it reports an error; what it says is not offered is not offered.
- Reassembly: only bytes that are neighbours in a stream are put together; the
  buffer does not grow with the capture; neighbours are put together.
- SSH sessions: one session for a connection; the algorithm it shows is what the
  two sides negotiate; capabilities and sessions agree.
- Targets: a list is scanned whole or not at all, and each line that names a host
  gets one result.
- Files: a report is made of whole result files only and has a row for every
  result; a refused one costs no file; a report said to be created is whole; pqcdump
  changes no file but its own.
- The report of a capture: hosts counted, statuses shown and sessions listed agree
  with one another and with the messages, in whatever order the maps are visited.

The 40 hazards of `PROJECT.json` are these points at the lines where they bite.

## 2. The modules

| module | models | interaction |
|---|---|---|
| `ScanPool` | what `scan_runner` promises, without channels or tasks | abstract |
| `ScanRunner` | `scan.rs`, tasks and channels | implements `ScanPool` |
| `PqcScan` | arguments and target lists, then the scan: `get_targets`, `parse_single_target`, `main` | instantiates `ScanRunner` with the targets it has read |
| `TargetScan` | what the scan of one target promises | abstract |
| `SshTarget` | `ssh_scan_target`, with the server as environment | implements `TargetScan` |
| `TlsTarget` | `tls_scan_target`, with the peers as environment | implements `TargetScan` |
| `ClientHello` | `Extension` and `ClientHelloBuilder`, as lengths | extended by `TlsWire` |
| `TlsWire` | the hello sent and the answer read on each connection | implements `TlsTarget` |
| `FileSystem` | the calls of `std::fs` the programs make | extended by the next two |
| `ScanReport` | result files of scans and `create_report` | extends `FileSystem` |
| `UniqueFile` | `report.rs` of pqcdump, several runs of it | extends `FileSystem` |
| `OutputFiles` | all writers and readers of files at once | composes `ScanReport` and `UniqueFile` |
| `TcpReassembler` | `tcp.rs` and the part of `process_packet` that feeds it | extended by `PcapPipeline` |
| `SshSessions` | `process_ssh` | instantiated by `CaptureReport` |
| `TlsSessions` | `process_ssl_hello` | instantiated by `CaptureReport` |
| `CaptureReport` | `main` of pqcdump, any payload at any time | composes `SshSessions` and `TlsSessions` |
| `PcapPipeline` | the packet loop whole: segments, reassembly, two examinations | composes `TcpReassembler` and `CaptureReport`, implements both |
| `*_proofs` | theorems about the module of that name (`TlsTarget_proofs` also about `TlsWire` and `ClientHello`, `PcapPipeline_proofs` about `TcpReassembler`) | extend it |
| `MC*` | small instances for TLC | extend it |

Definitions whose name ends in an underscore and a word (`Receive_peek`,
`Take_lastAnyway`) are altered copies of the definition before the underscore. No
specification uses them; each is a slip the code could contain, and a run whose
property still held with it in place would say nothing.

### State and actions against the code

**ScanRunner.** `tx` is every message ever sent to the target channel and
`taken` how many were received, so the channel is the part after `taken`; a
target is its position in the list, the exit message is 0. `results_ch` is the
results channel, `num_threads` the counter of the collector. The main task's
actions follow scan.rs: `SendTarget`, `SendQuit` (76-97), `StartSpawning`,
`Spawn` (99-141), `CollectResult`, `CollectDone` (143-160); a thread's are
`Receive`, its scan and its result, `SendDone`, and the panic of a scan, after which the
task is gone without a `Done`.

**PqcScan.** A line is the sequence of the texts between its colons, because the
last colon is all `parse_single_target` looks for; of a text it matters whether
it is empty, starts with `#`, or is a port. `Parse` and `Display` are the two
conversions: `host:022` is read as port 22 and written `host:22`. `SkipLine`,
`AddTarget`, `BadTarget` and `ReadFails` are the turns of the loop in
`get_targets`; `StartScan` is `rt.block_on(scan_runner(...))`, after which the
actions are those of `ScanRunner` for the targets read. A file without a line, or
of comments only, starts a scan without targets.

**SshTarget.** What a server writes is a sequence of pieces, the units that can
arrive apart: the identification and the KEXINIT, whole or in two, a line that is
not SSH, a KEXINIT whose name lists end early, a packet that follows. A read
takes between one piece and `ReadSize` pieces of what has arrived. The server may
be slow, wait for the client's line or not, and close at any time; the scan's
actions are one per return point of the code, timeouts included (a wait that has
a limit can always end), and two panics: `Panic` of the parser, and `ConnectPanics`
when the socket cannot be made.

**TlsTarget, TlsWire, ClientHello.** A target's name stands for several machines
that may support different groups, since every connection resolves it again.
`Connect(g, a)` is one turn of the loop up to the ClientHello sent, `HandshakeOk`,
`HandshakeErr` and `HandshakeTimeout` are the three ways the reply is judged,
`ConnectFails` the error that ends the scan and drops the groups found so far,
`ConnectPanics` the unwrapped errors on the way to the ClientHello: of the socket
(`utils.rs:74, 77`) and of making it a blocking one (`tls.rs:564-565`). `TlsWire`
puts the bytes under it: `WireConnect` sends what `into_buf` makes, with every
length on u16 beside the number of bytes it is to count, and `WireAnswers` is an
answer of some shape read up to some byte, of which `Accepted` looks at the fields
`tls_connect_with_group` looks at; a field that was not read is zero, as in the
code's buffer.

**FileSystem, ScanReport, UniqueFile.** A file is a sequence of blocks, a block
being what one write call puts there. `File::create` empties what is there,
`create_new` finds a path free and takes it in one step. Each writer has its own
position, so one that writes on after another has emptied the file leaves a hole.
A scan's results pass through a `BufWriter`: `WriteBlock` while it fills,
`SayWritten` with the last block still in it, `DropWriter` when it goes out of
scope and its error is lost. `create_report` reads one input a step
(`ReadInput`), refuses the first that is not a whole result file of this version
(`RefuseInput`), and only then creates its output. `Take` and `NextName` are the
attempts of `create_unique_file`. Any of them may fail or be killed at any step.

**TcpReassembler.** A byte is its flow and its sequence number, so that what is
checked is which bytes are put next to each other. `flows` is the map of
`TcpJoiner`s. `pushed` and `gap` are history variables.

**SshSessions, TlsSessions.** A message is what its parser returns. A payload
that does not parse changes nothing. The ways in which the ServerHello parser
indexes out of range are a field of the hello (`block`), and `Panics` says which
end the program. An odd cipher list length at the very end of a ClientHello
panics too (tls.rs:121-122); the hello is malformed and is not modelled apart.

**CaptureReport.** The maps are those of the two instances. `EndCapture` is the
end of the loop and the two loops over `host_caps` and `tls_ciphers`;
`ReportGroups(s)` one turn of the loop over `keyshare_groups`, in any order,
because that order decides the status of a host; `Finish` the remaining loops.
Those whose order does not matter are sets (`TlsHosts`, `SshCapabilities`,
`SshSessionResults`, `SessionResults`, `ShownSessions`). A key exchange the
database does not have (`KexAlgos`) is in the maps and not in the tables.

**PcapPipeline.** `Says` fixes what the two ends of each connection send, as
units of messages at sequence numbers; the capture holds any segments of it, any
number of times, in any order. `ReadPacket` is `next_packet` and `push`;
`Examine*` is `process_packet_helper`, first on the payload and then on what
`push` handed out, the second time still under the addresses of the packet just
read. A parser sees a message only where it starts with the first byte given.
`Parsed` is what it can return there: the message, if its units are in place. If
too few bytes are there it returns nothing, except that a ServerHello cut in its
extensions is read without its group or panics (`cut`). If the units do not
belong together it could return any message of the kind, since it counts bytes.

## 3. The runs

| run | shows | bounds |
|---|---|---|
| `scan_runner` | each target received once, an exit message for every thread, the count of threads, threads leave after the targets, `ScanPool` implemented, with its liveness where no scan panics | 4 targets, one of whose scans may panic, and 3 threads: more targets than threads, so that threads come back for more, and all orders of their steps |
| `scan_runner_panic` | finding 1 | 2 targets, 2 threads |
| `pqc_scan` | a list is scanned whole or not at all, each line that names a host has one result, results sent are collected and the scan returns although lines without a host send threads away | every list of up to 3 of 7 kinds of line, 2 threads: both threads may be sent away with a target left, one scan may panic, a line may be repeated, bad in any place or a comment |
| `ssh_sessions` | one session per connection, right negotiation, capabilities agree | 3 sockets on 2 hosts, 3 lists, any number of messages |
| `ssh_server_first` | finding 2 | the same |
| `ssh_target` | claims need a whole KEXINIT, the well-behaved server is reported, termination (with a result or in a panic), `TargetScan` implemented in its safety part | 10 server scripts, every cut of the two messages, reads of up to 2 pieces |
| `ssh_negative` | finding 3 | the same |
| `tls_target` | every selected group once, claims that hold, exact hellos, `TlsTarget` and `TargetScan` implemented, with the latter's liveness (the result comes) where the scan does not panic | 4 groups, one of each kind and two hybrid, 2 machines, hosts of 0 and of 253 bytes, 6 shapes of answer cut before, between and after the fields that are read |
| `capture_report` | tables and counts of the report agree | 4 sockets on 3 hosts, one with IPv6; 3 key exchanges, one unknown to the database; 3 payloads, enough for a retry and its answer with a second port of the host |
| `pcap_pipeline` | joined bytes are neighbours, one packet of buffer, a segment after a gap is joined, nothing reported that was not sent, the second look is harmless, `CaptureReport` implemented | a TLS and an SSH connection, messages of up to 2 units in segments of up to 2, sequence numbers modulo 5, 3 packets: wraps, gaps, overlaps, retransmissions, a retry joined with its answer and answers cut in two all occur |
| `sessions_shown` | finding 4 | the same |
| `output_files` | rows and counts are those of the inputs, a refused report leaves the old one, a report said to be created is whole (of results that is not so, section 4), results are old or whole or do not parse, pqcdump overwrites nothing and passes over no free name | 2 scans, one over an older result file; a report of 3 inputs, one twice; 2 runs of pqcdump with 3 names, whose first is the report's path; documents of 1 to 3 blocks, so that a file can be half written and a shorter one replace a longer |

`ssh_sessions` has no bound on the length of the capture: messages kept are not
replaced, so the states are finitely many. `MaxPackets` and `MaxExamined` bound
the other models of pqcdump, `MaxLines` the target lists; the theorems hold for
every bound.

Deadlock is not checked where the program stops by itself, at the end of a scan or
of a capture, after a panic or a failure, nor in `scan_runner`, which waits for
ever once a scan has panicked (finding 1): that it does not wait otherwise is the
liveness of `ImplementsPool`. `ssh_sessions` checks it.

### Fairness

- `ScanRunner`: weak fairness of the main task, of each spawn and of each
  thread. tokio polls every task that can run, and a scan ends by the
  `Termination` of the scan's own model, whose waits all have limits. Nothing is
  assumed about which task goes first. A panic is never required to happen.
- `PqcScan`: the same, and of `main` while it reads: the program runs on through
  a file. That a read fails is possible and never required. `Returns` asks for a
  target and for none whose scan panics.
- `SshTarget`, `TlsWire`: weak fairness of the scan, none of the server. Every
  wait of the scan is under `tokio::time::timeout` or a socket timeout, so one
  of its actions is always possible until it has ended or panicked. The fairness is of
  the scan as a whole: that it fails or panics is possible at every connection and
  never required. A result is promised only of executions without a panic.
- The models of pqcdump and of the files have safety properties only and no
  fairness: a program may end anywhere.

## 4. Findings

Each is a property taken from a sentence of the repository that the run named
shows violated.

1. `scan_runner_panic`: a scan that panics (`ssh.rs:71` on a KEXINIT whose lists
   end early; `utils.rs:74, 77` and `tls.rs:564-565` when no socket is to be had)
   never sends `Done`, and `scan_runner` waits for ever on a channel its own
   sender keeps open.
2. `ssh_server_first`: whoever sends the first KEXINIT is taken for the client,
   and the algorithm shown is then not the one used.
3. `ssh_negative`: one read that does not hold exactly the KEXINIT makes a
   success without PQC out of a server that offers it.
4. `sessions_shown`: a TLS session whose ClientHello came in two segments is
   counted and not on the page, though the hello was captured whole and in
   order. Two facts meet: `TcpJoiner` hands out and empties its buffer on every
   segment it expects (`tcp.rs:35-39`), so "Try a reassembled packet"
   (`pqcdump/src/main.rs:538`) joins segments only after a gap or a
   retransmission; and the page lists sessions under hosts that had a parsed
   hello. PQC key shares make such hellos the usual case.

Met while modelling, and described here only:

- A target `":22"` has an empty host and is taken for the exit message
  (`scan.rs:110`); the thread leaves with targets queued, and when as many such
  lines as threads have been read the rest of the list is not scanned.
  `LinesAnswered` says exactly which lines are.
- An IPv6 address without a port gives its last group away as the port
  (`utils.rs:22`).
- `ssh.rs:219` writes back whatever the first read returned, with `try_write`:
  the line may be partial, or followed by the KEXINIT.
- The failure of one TLS connection drops the groups accepted before
  (`tls.rs:545`).
- A ServerHello that shares its record with a further message is not accepted
  (`tls.rs:467`), nor is a cut one; both count as a refusal.
- `tls_hosts_pqc` keeps the status of the port visited last (`main.rs:358` of
  pqcdump), so a host counted as PQC may be shown with "No Support".
- A TLS 1.2 server gets group 0 and is shown with "No Support", never "TLS 1.2".
- A HelloRetryRequest that was retransmitted stays in the buffer, is joined in
  front of the ServerHello and examined again, after the ServerHello: the
  session is back at group 0. `NothingInvented` allows for group 0.
- One IPv6 TLS hello ends pqcdump in the report phase (`main.rs:302`): the key has
  no brackets. One ServerHello without extensions at the end of its segment ends
  it while reading (`tls.rs:238`).
- With no targets, as for a list of comments, or `--num-threads 0` the runner
  waits for a first message that never comes.
- "Results written successfully" (`main.rs:806` of pqcscan) is logged with the
  last block in the buffer, whose write error nobody sees.
- A name that pqcdump created may be emptied by the `File::create` of another
  program while pqcdump writes to it, and then holds neither document. The
  properties of `create_report` exclude that case (`Shared`).

## 5. What is proved

For all values of the constants, from the assumptions named in the modules
(`...Assumption`, `Apart`): what the constants are, that the values standing for
"none" are no values of the program, that the scans of `OutputFiles` write to
different files which are no names of pqcdump's, and that a ClientHello with the
longest host name fits in 64 KiB. TLC evaluates each of them.

**ScanRunner_proofs.** `TypeCorrect`, `ScansOnce`, `CountsThreads`,
`ReturnsDrained`, `ReturnsComplete`, `ExitAfterAll`, `QuitsForAll`, `Implements`,
`NeverWaitsForEver`, `StepsRunOut`.
`Complete` is not inductive: `IInv` adds that the queue is the targets and then the exit
messages (`Queue`), that nothing follows a thread's `Done` in the channel and
that a result there is of a thread still waited for (`LastWords`), and where
every target taken is (`NothingLost`). The collector stops at zero; then no
thread can have a result in the channel, and what was not lost must be in the
list. The cardinality in `DoneAccounting` needs the finite-set theorems.
`ExitAfterAll` and `Implements` are for lists without an empty host: with one the
abstract specification is not implemented. What holds with one is
`ExitInvariance`, which counts: the exit messages still queued against the threads
still there (`QuitsQueued`), and the threads gone against the messages taken that
ask a thread to leave (`OneLeavesPerMessage`). `QuitsForAll` is its first half;
`ScannedUpTo` says from the second which targets were scanned when the runner
returns. The last two are what can be proved of `Termination` without fairness.
`NeverWaitsForEver`: until `scan_runner` returns, the guard of some action holds
(`CanGoOn`), unless a scan has panicked or there is no thread, since an idle thread has an exit message
ahead by `QuitsQueued` and a collector that waits has, by `DoneAccounting`, a thread
that has not said `Done`. `StepsRunOut`: `Left`, which weighs what is still to be
sent, taken and collected, is a natural number that every step makes smaller,
panics included. That weak fairness then leads to the end is left to TLC.

**PqcScan_proofs.** `ScansAllOrNothing` and, for the list read, `RunsScanRunner`,
`TypeCorrect`, `AnswersEveryLine`, `ImplementsPool`. `ListInv` says that the targets are those of
the lines read, in order (`Listed`), and that no line read is bad; the order gives
a bijection between lines and targets, which `SameCount` turns into equal numbers.
The rest rests on the theorems of `ScanRunner`, whose parameters depend on the
list, a variable of `PqcScan`; TLAPS takes no facts from an instance with a
variable as its parameter. So the proof module has a constant `Chosen`, of which
nothing is assumed, and the theorems are of the states with `targets = Chosen`:
since `Chosen` may be any list and the targets stay as they are from the start of
the scan, together they are about every list. `ScannedUpTo` is then counted
over lines instead of targets. `ImplementsPool` is of the executions that read
the list `Chosen` (`IsChosen`), with a host in each target: reading and starting the
runner are no steps of the pool, and a step of the runner is one or none by
`PoolStep` of `ScanRunner_proofs`. Its invariant, besides those above, is that a
thread leaves after the last target (`AfterAll`). That a port is written as a text that is read as
the same port is an assumption on `TextOf`, and `DisplayParses` extends it to
targets.

**SshSessions_proofs.** `TypeCorrect`, `SharesSession`, `NegotiatesRight`,
`CapsAgree`, `ForgetsNothing`. The invariants are proved together: which session
a message goes to rests on `OneSession`, and negotiation on the lists being kept.

**SshTarget_proofs, TlsTarget_proofs.** `TypeCorrect`, `ClaimsAreWhole`,
`SuccessIsSsh`, `PoliteIsReported`, `Implements`; `TypeCorrect`, `TestsEachOnce`, `ReportsRight`,
`Implements`. `Delivery` says that what is unread was sent, in order; `Progress`
what each phase has read; `Division` splits the selected groups into those
tested and those left; `Findings` what a group found says of the machine asked.
`PoliteIsReported` is by steps of the protocol (`InStep`): the server has sent
nothing the scan has not asked for, so that one read is one message.
`Implements` is the safety part of `TargetScan`, for scans that panic as well. Of the bytes: `HelloLengths`
computes every length of the hello and shows that no sum wraps, `SendsExactHello`
that the hello on each connection is such a one, and `WireImplements` that the
scan with bytes is a behaviour of `TlsTarget`, so that its theorems carry over.

**CaptureReport_proofs.** `ImplementsSsh`: the whole of pqcdump is a behaviour of
`SshSessions`, so its theorems are used through an instance. `TablesAgree` from
`Backed` (a session's group is among its server's) and, for SSH, from
`NegotiatedIsNamed` (the algorithm negotiated was named by both ends). `CountsRightHosts` and
`StatusesBacked` from the loop invariants `LoopInv` and `StatusInv`, which say
what the turns so far amount to without saying in which order they came.
`SessionsBacked` uses the same two facts: the hosts at the ends are counted.

**PcapPipeline_proofs.** First the reassembler alone: `TypeCorrect`,
`JoinsNeighboursOnly`, `KeepsOnePacket`, `HandsOutFreshBytes`, `JoinsWithFollower`,
over lemmas on remainders, because sequence numbers wrap at any modulus above the
longest payload. `IInv` ties the buffer and the next sequence number of a flow to
its last packet (`Kept`). Then the packet loop. `ImplementsTcp` and `Implements`: every step of the
pipeline is a step of `TcpReassembler` or leaves it alone, and a step of
`CaptureReport` or leaves that alone. The second needs that a packet has at most
two things to examine, which bounds the payloads by twice the packets
(`LookedInvariance`), and that what is handed out consists of bytes of the packet
and of its flow. `ReportAgrees` is what follows for the report from
CaptureReport_proofs. `InventsNothing` goes through the two halves `SshOwn` and
`TlsOwn`: the first unit of what is examined belongs to the flow just read, and
what a parser makes of it is a message of that flow if `Contiguous` holds.
`SecondLookSafe` needs an invariant of the time between the two examinations
(`FirstRecorded`): whatever a parser reads from the payload is recorded. It holds
because a payload has at most one message to read (`ReadsOne`) and because a
KEXINIT processed twice in a row leaves what it left the first time
(`TwiceIsOnce`).

**OutputFiles_proofs.** `TriesEveryName`, `RefusalIsHarmless`, `SuccessIsTrue`,
`ResultsAreWhole`, `OthersFilesAreKept`, `ReportsEveryResult`, for any number of scans, runs, names,
inputs and blocks. `IInv` says what each writer may find in its file: the file of
the report is as it was or a prefix of the report (`OutputState`), that of a scan
as it was or a prefix of its results (`ResultState`), a file being written is
there (`Existing`), and no two runs of pqcdump hold one name (`OneHolder`), which
makes the file a run writes its own. Blocks name their document, so a file of
one is none of another. `ReportsEveryResult` (`RowsMatchInputs`) is about what
`create_report` has in memory. Its invariant `ReportRight` compares tallies: of the
results in any set `V`, as many are in the rows as in the files read
(`Tally(V, s)` counts the members of `V` in `s`), and each count of the summary is
the tally of one such set. It is kept because adding a result to the list of its
host adds one to the tallies of the sets it is in (`AddStep`), and reading a file
folds that over its results (`FoldFile`). TLC checked `ReportRight` as an
invariant before it was proved. What a fold computes needs induction. The
induction theorems of the library have an operator as a parameter, which the
provers cannot instantiate, so `Induct` takes the set of the numbers where a
formula holds in place of the formula, and follows from the theorem on
well-founded sets of numbers. `SetFold`, `SeqFold` and `FlattensExist` show that
the recursive functions by which the community modules define folds and
`FlattenSeq` exist; the lemmas after them say what a tally of the outcome is. The
assumptions are that a result's host is in the list of hosts, each of which is
there once, and that this list and every file's results are finite sequences.

**Only model-checked.** Liveness (`Termination`, `SentIsCollected`, `Returns`, the
fairness of `ScanPool` and `TargetScan`), which needs ENABLED. Every other property of the passing runs is stated by a
theorem, `ImplementsPool` and `ImplementsTargetScan` in their safety part and
`TypeOK` and `LinesAnswered` of `PqcScan` for the list read. The properties of the
violation runs are false.

## 6. Not modelled

- Bytes and formats: the layout of KEXINIT and of the hellos of a capture, the
  HTML, CSV, XML and JSON writers and their escaping, logging. A message is what
  its parser returns, a document a number of blocks.
- Command line, environment and configuration: no state. Their values are
  constants (`Threads`, `DefaultPort`) or limits on waits.
- The databases: what is known and what is PQC is in constants (`KexAlgos`,
  `PqcKex`, `Groups`, `PqcGroups`, and `Alg`, `Pqc`, `Group` of the scans).
- The times of pqcdump's report.
- tokio, etherparse, pcap, tera and the operating system, except as what the code
  can observe of them.

Abstractions to know of when reading a result:

- Reading an input of a report is one step, and a result file cut short never
  parses (its JSON is one object).
- Files are not deleted while the programs run.
- The result files of the scans are different from one another and from the names
  pqcdump tries. The path of the report may be one of those names.
- Of a ClientHello sent, ids and random bytes are left out; of an answer, the
  fields the code looks at are kept.
- A unit of a stream is as large as the smallest segment, and a message starts at
  a unit.

## 7. Plan

What is left: the composition of `PqcScan` with `TargetScan` for what a thread does,
so that every line of a list has an honest result.

## 8. Running

In this directory, with TLC and TLAPS 1.4.5 on the path:

    tlc -workers 2 -config MCScanRunner.cfg MCScanRunner
    tlapm ScanRunner_proofs.tla

`PROJECT.json` lists every run with its expected outcome, the lines each
definition stands for, the altered definitions, hazards and theorems.
