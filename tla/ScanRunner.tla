----------------------------- MODULE ScanRunner -----------------------------
(***************************************************************************)
(* scan_runner of pqcscan/src/scan.rs: the main task queues every target   *)
(* and one exit message for each scan thread, spawns the threads, and      *)
(* collects their results until every thread has said it is done.          *)
(*                                                                         *)
(* A target is its position in scan.targets; of its contents only two      *)
(* things matter here: whether its host is the empty string, which is also *)
(* how the exit message is recognised, and whether its scan may panic.     *)
(* What a scan computes is in SshTarget and TlsTarget.                     *)
(***************************************************************************)
EXTENDS Integers, Sequences, FiniteSets

CONSTANTS
    NumTargets,  \* scan.targets.len()
    Threads,     \* scan.num_threads, the value of --num-threads
    EmptyHost,   \* the targets whose host is the empty string
    MayPanic     \* the targets whose scan may end in a panic

ASSUME RunnerAssumption ==
    /\ NumTargets \in Nat
    /\ Threads \in Nat
    /\ EmptyHost \subseteq 1..NumTargets
    /\ MayPanic \subseteq 1..NumTargets

Target == 1..NumTargets

\* no more threads than targets
Workers == 1..(IF Threads > NumTargets THEN NumTargets ELSE Threads)

\* Target { host: "", port: 0 } in the target channel
Quit == 0

\* a thread takes any message without a host for the request to exit
AsksToQuit(msg) == msg = Quit \/ msg \in EmptyHost

\* ScanResult::Done in the results channel
Done == 0

\* A ScanResult is named by its target. "from" is the thread that sent the
\* message: the collector never reads it.
Message == [from : Workers, result : Target \union {Done}]

VARIABLES
    main,         \* where the main task is
    tx,           \* every message sent to the target channel, in order
    taken,        \* how many of them the threads have received
    worker,       \* where each thread is
    job,          \* the target each thread is scanning
    results_ch,   \* the results channel
    num_threads,  \* the threads the collector still waits for
    results       \* the results collected

vars == <<main, tx, taken, worker, job, results_ch, num_threads, results>>

TypeOK ==
    /\ main \in {"queueing", "spawning", "collecting", "finished"}
    /\ tx \in Seq(Target \union {Quit})
    /\ taken \in 0..Len(tx)
    /\ worker \in [Workers -> {"unspawned", "idle", "scanning", "exiting",
                               "exited", "panicked"}]
    /\ job \in [Workers -> Target \union {Quit}]
    /\ results_ch \in Seq(Message)
    /\ num_threads \in 0..Cardinality(Workers)
    /\ results \in Seq(Target)

Init ==
    /\ main = "queueing"
    /\ tx = <<>>
    /\ taken = 0
    /\ worker = [w \in Workers |-> "unspawned"]
    /\ job = [w \in Workers |-> Quit]
    /\ results_ch = <<>>
    /\ num_threads = Cardinality(Workers)
    /\ results = <<>>

-----------------------------------------------------------------------------
(* The main task. *)

\* for target in scan.targets: tx.send(target)
SendTarget ==
    /\ main = "queueing"
    /\ Len(tx) < NumTargets
    /\ tx' = Append(tx, Len(tx) + 1)
    /\ UNCHANGED <<main, taken, worker, job, results_ch, num_threads, results>>

SendQuit_beforeTheTargets ==
    /\ main = "queueing"
    /\ Len(tx) < NumTargets + Cardinality(Workers)
    /\ tx' = Append(tx, Quit)
    /\ UNCHANGED <<main, taken, worker, job, results_ch, num_threads, results>>

\* for _ in 0..num_threads: tx.send(the empty target)
SendQuit ==
    /\ main = "queueing"
    /\ Len(tx) >= NumTargets
    /\ Len(tx) < NumTargets + Cardinality(Workers)
    /\ tx' = Append(tx, Quit)
    /\ UNCHANGED <<main, taken, worker, job, results_ch, num_threads, results>>

StartSpawning_oneQuitForAll ==
    /\ main = "queueing"
    /\ Len(tx) = NumTargets + 1
    /\ main' = "spawning"
    /\ UNCHANGED <<tx, taken, worker, job, results_ch, num_threads, results>>

StartSpawning ==
    /\ main = "queueing"
    /\ Len(tx) = NumTargets + Cardinality(Workers)
    /\ main' = "spawning"
    /\ UNCHANGED <<tx, taken, worker, job, results_ch, num_threads, results>>

\* Thread w runs from here on, beside the threads still to be spawned.
Spawn(w) ==
    /\ main = "spawning"
    /\ worker[w] = "unspawned"
    /\ \A v \in Workers : v < w => worker[v] # "unspawned"
    /\ worker' = [worker EXCEPT ![w] = "idle"]
    /\ UNCHANGED <<main, tx, taken, job, results_ch, num_threads, results>>

StartCollecting ==
    /\ main = "spawning"
    /\ \A w \in Workers : worker[w] # "unspawned"
    /\ main' = "collecting"
    /\ UNCHANGED <<tx, taken, worker, job, results_ch, num_threads, results>>

CollectResult_dropped ==
    /\ main = "collecting"
    /\ results_ch # <<>>
    /\ Head(results_ch).result # Done
    /\ results_ch' = Tail(results_ch)
    /\ UNCHANGED <<main, tx, taken, worker, job, num_threads, results>>

CollectResult ==
    /\ main = "collecting"
    /\ results_ch # <<>>
    /\ Head(results_ch).result # Done
    /\ results' = Append(results, Head(results_ch).result)
    /\ results_ch' = Tail(results_ch)
    /\ UNCHANGED <<main, tx, taken, worker, job, num_threads>>

CollectDone_notCounted ==
    /\ main = "collecting"
    /\ results_ch # <<>>
    /\ Head(results_ch).result = Done
    /\ results_ch' = Tail(results_ch)
    /\ UNCHANGED <<main, tx, taken, worker, job, num_threads, results>>

CollectDone_firstEndsIt ==
    /\ main = "collecting"
    /\ results_ch # <<>>
    /\ Head(results_ch).result = Done
    /\ results_ch' = Tail(results_ch)
    /\ num_threads' = num_threads - 1
    /\ main' = "finished"
    /\ UNCHANGED <<tx, taken, worker, job, results>>

\* The last Done ends the loop: whatever the channel still holds is lost.
CollectDone ==
    /\ main = "collecting"
    /\ results_ch # <<>>
    /\ Head(results_ch).result = Done
    /\ results_ch' = Tail(results_ch)
    /\ num_threads' = num_threads - 1
    /\ main' = IF num_threads' = 0 THEN "finished" ELSE main
    /\ UNCHANGED <<tx, taken, worker, job, results>>

-----------------------------------------------------------------------------
(* Scan thread w. *)

Receive_peek(w) ==
    /\ worker[w] = "idle"
    /\ taken < Len(tx)
    /\ ~AsksToQuit(tx[taken + 1])
    /\ taken' \in {taken, taken + 1}
    /\ job' = [job EXCEPT ![w] = tx[taken + 1]]
    /\ worker' = [worker EXCEPT ![w] = "scanning"]
    /\ UNCHANGED <<main, tx, results_ch, num_threads, results>>

\* rx.recv() gives a target to scan ...
Receive(w) ==
    /\ worker[w] = "idle"
    /\ taken < Len(tx)
    /\ ~AsksToQuit(tx[taken + 1])
    /\ taken' = taken + 1
    /\ job' = [job EXCEPT ![w] = tx[taken + 1]]
    /\ worker' = [worker EXCEPT ![w] = "scanning"]
    /\ UNCHANGED <<main, tx, results_ch, num_threads, results>>

\* ... or a message without a host
ReceiveQuit(w) ==
    /\ worker[w] = "idle"
    /\ taken < Len(tx)
    /\ AsksToQuit(tx[taken + 1])
    /\ taken' = taken + 1
    /\ worker' = [worker EXCEPT ![w] = "exiting"]
    /\ UNCHANGED <<main, tx, job, results_ch, num_threads, results>>

\* tls_scan_target or ssh_scan_target returns; results_tx.send(result)
SendResult(w) ==
    /\ worker[w] = "scanning"
    /\ results_ch' = Append(results_ch, [from |-> w, result |-> job[w]])
    /\ job' = [job EXCEPT ![w] = Quit]
    /\ worker' = [worker EXCEPT ![w] = "idle"]
    /\ UNCHANGED <<main, tx, taken, num_threads, results>>

\* The scan panics: the runtime ends the task, nothing is sent, and nobody
\* looks at its JoinHandle.
Panic(w) ==
    /\ worker[w] = "scanning"
    /\ job[w] \in MayPanic
    /\ worker' = [worker EXCEPT ![w] = "panicked"]
    /\ UNCHANGED <<main, tx, taken, job, results_ch, num_threads, results>>

SendDone_silent(w) ==
    /\ worker[w] = "exiting"
    /\ worker' = [worker EXCEPT ![w] = "exited"]
    /\ UNCHANGED <<main, tx, taken, job, results_ch, num_threads, results>>

\* results_tx.send(ScanResult::Done); break
SendDone(w) ==
    /\ worker[w] = "exiting"
    /\ results_ch' = Append(results_ch, [from |-> w, result |-> Done])
    /\ worker' = [worker EXCEPT ![w] = "exited"]
    /\ UNCHANGED <<main, tx, taken, job, num_threads, results>>

-----------------------------------------------------------------------------
Main == SendTarget \/ SendQuit \/ StartSpawning \/ StartCollecting
        \/ CollectResult \/ CollectDone

Thread(w) == Receive(w) \/ ReceiveQuit(w) \/ SendResult(w) \/ Panic(w)
             \/ SendDone(w)

\* scan_runner has returned and nothing is left to do
Terminating == main = "finished" /\ UNCHANGED vars

Next ==
    \/ Main
    \/ \E w \in Workers : Spawn(w) \/ Thread(w)
    \/ Terminating

Spec == Init /\ [][Next]_vars

\* The runtime keeps polling the main task and every spawned task, and every
\* wait inside a scan has a time limit, so a scan ends.
Fairness ==
    /\ WF_vars(Main)
    /\ \A w \in Workers : WF_vars(Spawn(w)) /\ WF_vars(Thread(w))

FairSpec == Spec /\ Fairness

-----------------------------------------------------------------------------
(* Properties. *)

Scanning(w) == worker[w] \in {"scanning", "panicked"}

InChannel == {i \in DOMAIN results_ch : results_ch[i].result # Done}

\* The Done message of thread w is in the results channel.
DoneInChannel(w) == \E i \in DOMAIN results_ch :
    results_ch[i] = [from |-> w, result |-> Done]

\* The threads whose Done message the collector has not seen.
Unaccounted == {w \in Workers : worker[w] # "exited" \/ DoneInChannel(w)}

\* No target is scanned or reported twice: a target is still in the target
\* channel, or with one thread, or in one result of the results channel, or in
\* one element of the results (scan.rs:106-131, any interleaving of threads).
ExactlyOnce ==
    /\ \A w \in Workers : Scanning(w) => job[w] \in 1..taken
    /\ \A i \in InChannel : results_ch[i].result \in 1..taken
    /\ \A i \in DOMAIN results : results[i] \in 1..taken
    /\ \A v, w \in Workers :
        Scanning(v) /\ Scanning(w) /\ job[v] = job[w] => v = w
    /\ \A i, j \in InChannel :
        results_ch[i].result = results_ch[j].result => i = j
    /\ \A i, j \in DOMAIN results : results[i] = results[j] => i = j
    /\ \A w \in Workers, i \in InChannel :
        Scanning(w) => job[w] # results_ch[i].result
    /\ \A w \in Workers, i \in DOMAIN results :
        Scanning(w) => job[w] # results[i]
    /\ \A i \in InChannel, j \in DOMAIN results :
        results_ch[i].result # results[j]

\* The counter the collector stops on is the number of threads whose Done it
\* has not received, panicked threads included (scan.rs:143-151).
DoneAccounting == num_threads = Cardinality(Unaccounted)

\* When scan_runner returns, no thread is scanning or about to report and no
\* result is left behind in the channel (scan.rs:143-160).
Drained ==
    main = "finished" =>
        /\ results_ch = <<>>
        /\ \A w \in Workers : worker[w] = "exited"

\* When scan_runner returns, every target a thread took for scanning has its
\* result in the list, and nothing else is in it.
Complete ==
    main = "finished" =>
        {results[i] : i \in DOMAIN results} =
        {t \in Target \ EmptyHost : t <= taken}

\* What the proofs of Drained and Complete need besides: the queue is the
\* targets in order and then the exit messages; nothing follows the Done
\* message of a thread in the results channel, so a result in the channel is
\* of a thread still waited for; and no target taken for scanning is lost.
Queue ==
    \A i \in 1..Len(tx) : tx[i] = IF i <= NumTargets THEN i ELSE Quit

LastWords ==
    /\ \A w \in Workers : DoneInChannel(w) => worker[w] = "exited"
    /\ \A i, j \in DOMAIN results_ch :
        i < j /\ results_ch[i].result = Done
            => results_ch[j].from # results_ch[i].from
    /\ \A i \in DOMAIN results_ch : results_ch[i].from \in Unaccounted

NothingLost ==
    /\ \A w \in Workers : Scanning(w) => job[w] \notin EmptyHost
    /\ \A i \in InChannel : results_ch[i].result \notin EmptyHost
    /\ \A i \in DOMAIN results : results[i] \notin EmptyHost
    /\ \A t \in Target \ EmptyHost :
        t <= taken =>
            \/ \E w \in Workers : Scanning(w) /\ job[w] = t
            \/ \E i \in InChannel : results_ch[i].result = t
            \/ \E i \in DOMAIN results : results[i] = t

IInv ==
    /\ TypeOK
    /\ Queue
    /\ LastWords
    /\ DoneAccounting
    /\ main = "finished" => num_threads = 0
    /\ ExactlyOnce
    /\ NothingLost

\* The target channel always holds an exit message for each thread that has
\* not taken one and has not died, once all are queued, so no thread can wait
\* on the channel for ever (scan.rs:87-97).
QuitForEveryWorker ==
    main # "queueing" =>
        Cardinality({i \in (taken + 1)..Len(tx) : tx[i] = Quit}) >=
        Cardinality({w \in Workers :
                        worker[w] \in {"unspawned", "idle", "scanning"}})

\* "send all targets into the channel and end with empty targets as a signal
\* for the tasks to exit" (scan.rs:77-79): a thread that leaves finds no target
\* left to scan.
ExitAfterAllTargets ==
    \A w \in Workers : worker[w] \in {"exiting", "exited"} => taken > NumTargets

\* scan_runner returns: "Done scanning. All threads exited." (scan.rs:177)
Termination == <>(main = "finished")

\* The abstract view: a target leaves "pending" when a thread receives it and
\* is "running" until the collector has its result.
Pool == INSTANCE ScanPool WITH
    pending <- (taken + 1)..NumTargets,
    running <- {job[w] : w \in {v \in Workers : Scanning(v)}}
               \union {results_ch[i].result : i \in InChannel},
    reported <- results,
    finished <- main = "finished"

Panicked == \E w \in Workers : worker[w] = "panicked"

\* scan_runner with threads and channels implements ScanPool when every target
\* has a host, and if no scan panics it comes to the end of it (scan.rs:55-180).
ImplementsPool == Pool!Spec /\ ([]~Panicked => Pool!Fairness)
=============================================================================
