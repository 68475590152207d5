------------------------- MODULE ScanRunner_proofs -------------------------
(***************************************************************************)
(* Proofs about ScanRunner for any number of targets and threads, any set  *)
(* of targets without a host and any set of targets whose scan panics.     *)
(***************************************************************************)
EXTENDS ScanRunner, FiniteSetTheorems, SequenceTheorems, TLAPS

(***************************************************************************)
(* What a FIFO channel does to its messages, by position.                  *)
(***************************************************************************)
LEMMA SendFacts ==
    ASSUME NEW S, NEW s \in Seq(S), NEW m \in S
    PROVE  /\ Append(s, m) \in Seq(S)
           /\ Len(Append(s, m)) = Len(s) + 1
           /\ DOMAIN Append(s, m) = 1..(Len(s) + 1)
           /\ DOMAIN s = 1..Len(s)
           /\ Len(s) \in Nat
           /\ \A i \in 1..Len(s) : Append(s, m)[i] = s[i]
           /\ Append(s, m)[Len(s) + 1] = m
  BY AppendProperties, LenProperties

LEMMA RecvFacts ==
    ASSUME NEW S, NEW s \in Seq(S), s # <<>>
    PROVE  /\ Tail(s) \in Seq(S)
           /\ Head(s) \in S
           /\ Head(s) = s[1]
           /\ Len(s) \in Nat \ {0}
           /\ DOMAIN s = 1..Len(s)
           /\ DOMAIN Tail(s) = 1..(Len(s) - 1)
           /\ \A i \in 1..(Len(s) - 1) : Tail(s)[i] = s[i + 1]
  BY HeadTailProperties, LenProperties, EmptySeq

(***************************************************************************)
(* Workers is a finite set.                                                *)
(***************************************************************************)
LEMMA WorkersFinite ==
    /\ IsFiniteSet(Workers)
    /\ Cardinality(Workers) \in Nat
    /\ Workers \subseteq Nat \ {0}
<1>1. PICK n \in Nat : Workers = 1..n
  BY RunnerAssumption DEF Workers
<1>2. IsFiniteSet(Workers)
  BY <1>1, FS_Interval
<1> QED  BY <1>1, <1>2, FS_CardinalityType

-----------------------------------------------------------------------------
(***************************************************************************)
(* Type correctness: no queue ever holds anything but targets, exit        *)
(* messages and results, and the collector's count never goes below zero   *)
(* (num_threads -= 1 at scan.rs:146 would panic).                          *)
(***************************************************************************)
LEMMA CountPositive ==
    ASSUME TypeOK, DoneAccounting, CollectDone
    PROVE  num_threads \in 1..Cardinality(Workers)
<1>a. Head(results_ch) \in Message
  BY RecvFacts DEF TypeOK, CollectDone
<1>b. Head(results_ch).result = Done
  BY DEF CollectDone
<1>1. PICK w \in Workers : Head(results_ch) = [from |-> w, result |-> Done]
  BY <1>a, <1>b DEF Message
<1>2. 1 \in DOMAIN results_ch /\ results_ch[1] = Head(results_ch)
  BY RecvFacts DEF TypeOK, CollectDone
<1>3. w \in Unaccounted
  BY <1>1, <1>2 DEF Unaccounted, DoneInChannel
<1>4. IsFiniteSet(Unaccounted)
  BY WorkersFinite, FS_Subset DEF Unaccounted
<1>5. num_threads # 0
  BY <1>3, <1>4, FS_EmptySet DEF DoneAccounting
<1> QED  BY <1>5, WorkersFinite DEF TypeOK

LEMMA TypeStep ==
    ASSUME TypeOK, DoneAccounting, [Next]_vars
    PROVE  TypeOK'
<1> USE DEF TypeOK
<1>1. CASE SendTarget
  BY <1>1, SendFacts, RunnerAssumption DEF SendTarget, Target
<1>2. CASE SendQuit
  BY <1>2, SendFacts, RunnerAssumption DEF SendQuit
<1>3. CASE StartSpawning
  BY <1>3 DEF StartSpawning
<1>4. CASE StartCollecting
  BY <1>4 DEF StartCollecting
<1>5. CASE CollectResult
  <2>1. Head(results_ch) \in Message /\ Tail(results_ch) \in Seq(Message)
    BY <1>5, RecvFacts DEF CollectResult
  <2>2. Head(results_ch).result \in Target
    BY <1>5, <2>1 DEF CollectResult, Message
  <2>3. results' \in Seq(Target)
    BY <1>5, <2>2, SendFacts DEF CollectResult
  <2> QED  BY <1>5, <2>1, <2>3 DEF CollectResult
<1>6. CASE CollectDone
  <2>1. Tail(results_ch) \in Seq(Message)
    BY <1>6, RecvFacts DEF CollectDone
  <2>2. num_threads - 1 \in 0..Cardinality(Workers)
    BY <1>6, CountPositive, WorkersFinite
  <2> QED  BY <1>6, <2>1, <2>2 DEF CollectDone
<1>7. ASSUME NEW w \in Workers, Spawn(w)  PROVE TypeOK'
  BY <1>7 DEF Spawn
<1>8. ASSUME NEW w \in Workers, Receive(w)  PROVE TypeOK'
  <2>1. tx[taken + 1] \in Target
    BY <1>8, LenProperties DEF Receive, AsksToQuit
  <2> QED  BY <1>8, <2>1, LenProperties DEF Receive
<1>9. ASSUME NEW w \in Workers, ReceiveQuit(w)  PROVE TypeOK'
  BY <1>9, LenProperties DEF ReceiveQuit
<1>10. ASSUME NEW w \in Workers, SendResult(w)  PROVE TypeOK'
  <2>1. [from |-> w, result |-> job[w]] \in Message
    BY DEF Message, Done, Quit
  <2>2. Append(results_ch, [from |-> w, result |-> job[w]]) \in Seq(Message)
    BY <2>1, SendFacts
  <2> QED  BY <1>10, <2>2 DEF SendResult
<1>11. ASSUME NEW w \in Workers, Panic(w)  PROVE TypeOK'
  BY <1>11 DEF Panic
<1>12. ASSUME NEW w \in Workers, SendDone(w)  PROVE TypeOK'
  <2>1. [from |-> w, result |-> Done] \in Message
    BY DEF Message
  <2> QED  BY <1>12, <2>1, SendFacts DEF SendDone
<1>13. CASE UNCHANGED vars
  BY <1>13 DEF vars
<1> QED  BY <1>1, <1>2, <1>3, <1>4, <1>5, <1>6, <1>7, <1>8, <1>9, <1>10,
            <1>11, <1>12, <1>13 DEF Next, Main, Thread, Terminating

-----------------------------------------------------------------------------
(***************************************************************************)
(* The collector's count, and what is in the channel after a Done.         *)
(***************************************************************************)
Accounting == LastWords /\ DoneAccounting

LEMMA QuietAccounting ==
    ASSUME Accounting,
           UNCHANGED <<results_ch, num_threads>>,
           \A w \in Workers : worker'[w] = "exited" <=> worker[w] = "exited"
    PROVE  Accounting'
<1>1. Unaccounted' = Unaccounted
  BY DEF Unaccounted, DoneInChannel
<1> QED  BY <1>1 DEF Accounting, LastWords, DoneAccounting, DoneInChannel

(***************************************************************************)
(* A Done in the channel is the Done of the thread that sent it.           *)
(***************************************************************************)
LEMMA DoneOf ==
    ASSUME TypeOK, NEW i \in DOMAIN results_ch, results_ch[i].result = Done
    PROVE  /\ results_ch[i].from \in Workers
           /\ DoneInChannel(results_ch[i].from)
<1>1. results_ch[i] \in Message
  BY ElementOfSeq, LenProperties DEF TypeOK
<1> QED  BY <1>1 DEF DoneInChannel, Message

LEMMA SendResultAccounting ==
    ASSUME TypeOK, Accounting, ExactlyOnce, NEW w \in Workers, SendResult(w)
    PROVE  Accounting'
<1> DEFINE m == [from |-> w, result |-> job[w]]
           n == Len(results_ch)
<1>1. m \in Message
  BY DEF TypeOK, Message, Done, Quit
<1>2. /\ n \in Nat
      /\ DOMAIN results_ch = 1..n
      /\ DOMAIN results_ch' = 1..(n + 1)
      /\ \A i \in 1..n : results_ch'[i] = results_ch[i]
      /\ results_ch'[n + 1] = m
  BY <1>1, SendFacts DEF SendResult, TypeOK
<1>3. worker[w] = "scanning" /\ worker' = [worker EXCEPT ![w] = "idle"]
  BY DEF SendResult
<1>4. ~DoneInChannel(w)
  BY <1>3 DEF Accounting, LastWords
<1>5. m.result # Done
  BY <1>3 DEF ExactlyOnce, Scanning, Done
<1>6. \A v \in Workers : DoneInChannel(v)' <=> DoneInChannel(v)
  BY <1>2, <1>5 DEF DoneInChannel
<1>7. Unaccounted' = Unaccounted
  BY <1>3, <1>4, <1>6 DEF Unaccounted, TypeOK
<1>8. \A v \in Workers : DoneInChannel(v)' => worker'[v] = "exited"
  BY <1>3, <1>4, <1>6 DEF Accounting, LastWords, TypeOK
<1>9. \A i \in 1..n : results_ch[i].result = Done => results_ch[i].from # w
  BY <1>2, <1>4, DoneOf
<1>10. ASSUME NEW i \in 1..(n + 1), NEW j \in 1..(n + 1),
              i < j, results_ch'[i].result = Done
       PROVE  results_ch'[j].from # results_ch'[i].from
  <2>1. i \in 1..n /\ results_ch'[i] = results_ch[i]
    BY <1>2, <1>10
  <2>2. CASE j \in 1..n
    BY <1>2, <1>10, <2>1, <2>2 DEF Accounting, LastWords
  <2>3. CASE j = n + 1
    BY <1>2, <1>9, <1>10, <2>1, <2>3
  <2> QED  BY <1>2, <2>2, <2>3
<1>11. \A i \in 1..(n + 1) : results_ch'[i].from \in Unaccounted'
  BY <1>2, <1>3, <1>7 DEF Accounting, LastWords, Unaccounted
<1>12. DoneAccounting'
  BY <1>7 DEF Accounting, DoneAccounting, SendResult
<1> QED  BY <1>2, <1>8, <1>10, <1>11, <1>12 DEF Accounting, LastWords

LEMMA SendDoneAccounting ==
    ASSUME TypeOK, Accounting, NEW w \in Workers, SendDone(w)
    PROVE  Accounting'
<1> DEFINE m == [from |-> w, result |-> Done]
           n == Len(results_ch)
<1>1. m \in Message
  BY DEF Message
<1>2. /\ n \in Nat
      /\ DOMAIN results_ch = 1..n
      /\ DOMAIN results_ch' = 1..(n + 1)
      /\ \A i \in 1..n : results_ch'[i] = results_ch[i]
      /\ results_ch'[n + 1] = m
  BY <1>1, SendFacts DEF SendDone, TypeOK
<1>3. worker[w] = "exiting" /\ worker' = [worker EXCEPT ![w] = "exited"]
  BY DEF SendDone
<1>4. ~DoneInChannel(w)
  BY <1>3 DEF Accounting, LastWords
<1>5. DoneInChannel(w)'
  BY <1>2 DEF DoneInChannel
<1>6. \A v \in Workers \ {w} : DoneInChannel(v)' <=> DoneInChannel(v)
  BY <1>2 DEF DoneInChannel
<1>7. Unaccounted' = Unaccounted
  BY <1>3, <1>5, <1>6 DEF Unaccounted, TypeOK
<1>8. \A v \in Workers : DoneInChannel(v)' => worker'[v] = "exited"
  BY <1>3, <1>6 DEF Accounting, LastWords, TypeOK
<1>9. \A i \in 1..n : results_ch[i].result = Done => results_ch[i].from # w
  BY <1>2, <1>4, DoneOf
<1>10. ASSUME NEW i \in 1..(n + 1), NEW j \in 1..(n + 1),
              i < j, results_ch'[i].result = Done
       PROVE  results_ch'[j].from # results_ch'[i].from
  <2>1. i \in 1..n /\ results_ch'[i] = results_ch[i]
    BY <1>2, <1>10
  <2>2. CASE j \in 1..n
    BY <1>2, <1>10, <2>1, <2>2 DEF Accounting, LastWords
  <2>3. CASE j = n + 1
    BY <1>2, <1>9, <1>10, <2>1, <2>3
  <2> QED  BY <1>2, <2>2, <2>3
<1>11. \A i \in 1..(n + 1) : results_ch'[i].from \in Unaccounted'
  BY <1>2, <1>3, <1>7 DEF Accounting, LastWords, Unaccounted
<1>12. DoneAccounting'
  BY <1>7 DEF Accounting, DoneAccounting, SendDone
<1> QED  BY <1>2, <1>8, <1>10, <1>11, <1>12 DEF Accounting, LastWords

LEMMA CollectResultAccounting ==
    ASSUME TypeOK, Accounting, CollectResult
    PROVE  Accounting'
<1> DEFINE n == Len(results_ch)
<1>1. /\ n \in Nat \ {0}
      /\ DOMAIN results_ch = 1..n
      /\ DOMAIN results_ch' = 1..(n - 1)
      /\ \A i \in 1..(n - 1) : results_ch'[i] = results_ch[i + 1]
      /\ results_ch[1].result # Done
  BY RecvFacts DEF CollectResult, TypeOK
<1>2. ASSUME NEW v \in Workers  PROVE DoneInChannel(v)' <=> DoneInChannel(v)
  <2>1. ASSUME NEW i \in 1..n, results_ch[i] = [from |-> v, result |-> Done]
        PROVE  i - 1 \in 1..(n - 1) /\ results_ch'[i - 1] = results_ch[i]
    BY <1>1, <2>1
  <2>2. \A i \in 1..(n - 1) : i + 1 \in 1..n
    BY <1>1
  <2> QED  BY <1>1, <2>1, <2>2 DEF DoneInChannel
<1>3. worker' = worker /\ num_threads' = num_threads
  BY DEF CollectResult
<1>4. Unaccounted' = Unaccounted
  BY <1>2, <1>3 DEF Unaccounted
<1>5. \A i \in 1..(n - 1) : i + 1 \in 1..n /\ results_ch'[i] = results_ch[i + 1]
  BY <1>1
<1>6. \A i, j \in 1..(n - 1) :
        i < j /\ results_ch'[i].result = Done
            => results_ch'[j].from # results_ch'[i].from
  BY <1>1, <1>5 DEF Accounting, LastWords
<1>7. \A i \in 1..(n - 1) : results_ch'[i].from \in Unaccounted'
  BY <1>1, <1>4, <1>5 DEF Accounting, LastWords
<1> QED  BY <1>1, <1>2, <1>3, <1>4, <1>6, <1>7
         DEF Accounting, LastWords, DoneAccounting

LEMMA CollectDoneAccounting ==
    ASSUME TypeOK, Accounting, CollectDone
    PROVE  Accounting'
<1> DEFINE n == Len(results_ch)
<1>1. /\ n \in Nat \ {0}
      /\ DOMAIN results_ch = 1..n
      /\ DOMAIN results_ch' = 1..(n - 1)
      /\ \A i \in 1..(n - 1) : results_ch'[i] = results_ch[i + 1]
      /\ results_ch[1].result = Done
  BY RecvFacts DEF CollectDone, TypeOK
<1>2. PICK w \in Workers : w = results_ch[1].from /\ DoneInChannel(w)
  BY <1>1, DoneOf
<1>3. worker' = worker /\ worker[w] = "exited"
  BY <1>2 DEF CollectDone, Accounting, LastWords
<1>4. \A i \in 1..(n - 1) : /\ i + 1 \in 1..n
                            /\ results_ch'[i] = results_ch[i + 1]
                            /\ results_ch'[i].from # w
  BY <1>1, <1>2 DEF Accounting, LastWords
<1>5. ~DoneInChannel(w)'
  BY <1>1, <1>4 DEF DoneInChannel
<1>6. ASSUME NEW v \in Workers \ {w}
      PROVE  DoneInChannel(v)' <=> DoneInChannel(v)
  <2>1. ASSUME NEW i \in 1..n, results_ch[i] = [from |-> v, result |-> Done]
        PROVE  i - 1 \in 1..(n - 1) /\ results_ch'[i - 1] = results_ch[i]
    BY <1>1, <1>2, <2>1
  <2>2. DoneInChannel(v) => DoneInChannel(v)'
    BY <1>1, <2>1 DEF DoneInChannel
  <2>3. DoneInChannel(v)' => DoneInChannel(v)
    BY <1>1, <1>4 DEF DoneInChannel
  <2> QED  BY <2>2, <2>3
<1>7. Unaccounted' = Unaccounted \ {w} /\ w \in Unaccounted
  BY <1>2, <1>3, <1>5, <1>6 DEF Unaccounted
<1>8. IsFiniteSet(Unaccounted)
  BY WorkersFinite, FS_Subset DEF Unaccounted
<1>9. DoneAccounting'
  BY <1>7, <1>8, FS_RemoveElement DEF Accounting, DoneAccounting, CollectDone
<1>10. \A i, j \in 1..(n - 1) :
        i < j /\ results_ch'[i].result = Done
            => results_ch'[j].from # results_ch'[i].from
  BY <1>1, <1>4 DEF Accounting, LastWords
<1>11. \A i \in 1..(n - 1) : results_ch'[i].from \in Unaccounted'
  BY <1>1, <1>4, <1>7 DEF Accounting, LastWords
<1>12. \A v \in Workers : DoneInChannel(v)' => worker'[v] = "exited"
  BY <1>3, <1>6 DEF Accounting, LastWords
<1> QED  BY <1>1, <1>9, <1>10, <1>11, <1>12 DEF Accounting, LastWords

LEMMA AccountingStep ==
    ASSUME TypeOK, Accounting, ExactlyOnce, [Next]_vars
    PROVE  Accounting'
<1>1. CASE SendTarget \/ SendQuit \/ StartSpawning \/ StartCollecting
  BY <1>1, QuietAccounting
     DEF SendTarget, SendQuit, StartSpawning, StartCollecting
<1>2. CASE CollectResult
  BY <1>2, CollectResultAccounting
<1>3. CASE CollectDone
  BY <1>3, CollectDoneAccounting
<1>4. ASSUME NEW w \in Workers,
             Spawn(w) \/ Receive(w) \/ ReceiveQuit(w) \/ Panic(w)
      PROVE  Accounting'
  BY <1>4, QuietAccounting DEF Spawn, Receive, ReceiveQuit, Panic, TypeOK
<1>5. ASSUME NEW w \in Workers, SendResult(w)  PROVE Accounting'
  BY <1>5, SendResultAccounting
<1>6. ASSUME NEW w \in Workers, SendDone(w)  PROVE Accounting'
  BY <1>6, SendDoneAccounting
<1>7. CASE UNCHANGED vars
  BY <1>7, QuietAccounting DEF vars
<1> QED  BY <1>1, <1>2, <1>3, <1>4, <1>5, <1>6, <1>7
         DEF Next, Main, Thread, Terminating

-----------------------------------------------------------------------------
(***************************************************************************)
(* Where the targets are.                                                  *)
(***************************************************************************)
LEMMA QueueStep ==
    ASSUME TypeOK, Queue, [Next]_vars
    PROVE  Queue'
<1>a. Len(tx) \in Nat /\ tx \in Seq(Target \union {Quit})
  BY LenProperties DEF TypeOK
<1>1. CASE SendTarget
  <2>1. Len(tx) + 1 \in Target /\ tx' = Append(tx, Len(tx) + 1)
    BY <1>a, <1>1, RunnerAssumption DEF SendTarget, Target
  <2>2. /\ Len(tx') = Len(tx) + 1
        /\ \A i \in 1..Len(tx) : tx'[i] = tx[i]
        /\ tx'[Len(tx) + 1] = Len(tx) + 1
    BY <1>a, <2>1, SendFacts
  <2> QED  BY <1>a, <2>1, <2>2 DEF Queue, Target
<1>2. CASE SendQuit
  <2>1. Len(tx) >= NumTargets /\ tx' = Append(tx, Quit)
    BY <1>2 DEF SendQuit
  <2>2. /\ Len(tx') = Len(tx) + 1
        /\ \A i \in 1..Len(tx) : tx'[i] = tx[i]
        /\ tx'[Len(tx) + 1] = Quit
    BY <1>a, <2>1, SendFacts
  <2> QED  BY <1>a, <2>1, <2>2, RunnerAssumption DEF Queue
<1>3. CASE UNCHANGED tx
  BY <1>3 DEF Queue
<1> QED  BY <1>1, <1>2, <1>3
         DEF Next, Main, Thread, Terminating, StartSpawning, StartCollecting,
             CollectResult, CollectDone, Spawn, Receive, ReceiveQuit,
             SendResult, Panic, SendDone, vars

\* Targets is what ExactlyOnce and NothingLost say together.
Targets == ExactlyOnce /\ NothingLost

LEMMA ReceiveTargets ==
    ASSUME TypeOK, Queue, Targets, NEW w \in Workers, Receive(w)
    PROVE  Targets'
<1>1. Len(tx) \in Nat /\ taken \in Nat
  BY LenProperties DEF TypeOK
<1>2. tx[taken + 1] = taken + 1 /\ taken + 1 \in Target \ EmptyHost
  BY <1>1, RunnerAssumption DEF Receive, Queue, AsksToQuit, Target, Quit
<1>3. /\ worker[w] = "idle"
      /\ worker' = [worker EXCEPT ![w] = "scanning"]
      /\ job' = [job EXCEPT ![w] = taken + 1]
      /\ taken' = taken + 1
      /\ UNCHANGED <<results_ch, results>>
  BY <1>2 DEF Receive
<1>4. /\ \A v \in Workers \ {w} :
            Scanning(v)' = Scanning(v) /\ job'[v] = job[v]
      /\ Scanning(w)' /\ job'[w] = taken + 1
      /\ ~Scanning(w)
  BY <1>3 DEF Scanning, TypeOK
<1>5. InChannel' = InChannel
  BY <1>3 DEF InChannel
<1>6. ExactlyOnce'
  BY <1>1, <1>3, <1>4, <1>5 DEF Targets, ExactlyOnce
<1>7. \A t \in Target : t <= taken + 1 => t <= taken \/ t = taken + 1
  BY <1>1, RunnerAssumption DEF Target
<1>8. NothingLost'
  BY <1>2, <1>3, <1>4, <1>5, <1>7 DEF Targets, NothingLost
<1> QED  BY <1>6, <1>8 DEF Targets

LEMMA ReceiveQuitTargets ==
    ASSUME TypeOK, Queue, Targets, NEW w \in Workers, ReceiveQuit(w)
    PROVE  Targets'
<1>1. Len(tx) \in Nat /\ taken \in Nat
  BY LenProperties DEF TypeOK
<1>2. taken + 1 \notin Target \ EmptyHost
  BY <1>1, RunnerAssumption DEF ReceiveQuit, Queue, AsksToQuit, Target, Quit
<1>3. /\ \A v \in Workers : Scanning(v)' = Scanning(v)
      /\ job' = job /\ taken' = taken + 1
      /\ UNCHANGED <<results_ch, results>>
  BY DEF ReceiveQuit, Scanning, TypeOK
<1>4. InChannel' = InChannel
  BY <1>3 DEF InChannel
<1>5. ExactlyOnce'
  BY <1>1, <1>3, <1>4 DEF Targets, ExactlyOnce
<1>6. \A t \in Target \ EmptyHost : t <= taken + 1 => t <= taken
  BY <1>1, <1>2, RunnerAssumption DEF Target
<1>7. NothingLost'
  BY <1>3, <1>4, <1>6 DEF Targets, NothingLost
<1> QED  BY <1>5, <1>7 DEF Targets

LEMMA SendResultTargets ==
    ASSUME TypeOK, Targets, NEW w \in Workers, SendResult(w)
    PROVE  Targets'
<1> DEFINE m == [from |-> w, result |-> job[w]]
           n == Len(results_ch)
<1>1. m \in Message
  BY DEF TypeOK, Message, Done, Quit
<1>2. /\ n \in Nat
      /\ DOMAIN results_ch = 1..n
      /\ DOMAIN results_ch' = 1..(n + 1)
      /\ \A i \in 1..n : results_ch'[i] = results_ch[i]
      /\ results_ch'[n + 1] = m
  BY <1>1, SendFacts DEF SendResult, TypeOK
<1>3. Scanning(w) /\ m.result # Done
  BY DEF SendResult, Targets, ExactlyOnce, Scanning, Done
<1>4. /\ InChannel \subseteq 1..n
      /\ InChannel' = InChannel \union {n + 1}
      /\ n + 1 \notin InChannel
      /\ \A i \in InChannel : results_ch'[i].result = results_ch[i].result
      /\ results_ch'[n + 1].result = job[w]
  BY <1>2, <1>3 DEF InChannel
<1>5. /\ ~Scanning(w)'
      /\ \A v \in Workers \ {w} :
            Scanning(v)' = Scanning(v) /\ job'[v] = job[v]
      /\ UNCHANGED <<taken, results>>
  BY DEF SendResult, Scanning, TypeOK
<1> HIDE DEF m, n
<1> DEFINE r(i) == results_ch[i].result
<1>6. ExactlyOnce'
  <2>1. /\ \A v \in Workers : Scanning(v)' => job'[v] \in 1..taken'
        /\ \A i \in InChannel' : r(i)' \in 1..taken'
        /\ \A i \in DOMAIN results' : results'[i] \in 1..taken'
    BY <1>3, <1>4, <1>5 DEF Targets, ExactlyOnce
  <2>2. /\ \A u, v \in Workers :
              Scanning(u)' /\ Scanning(v)' /\ job'[u] = job'[v] => u = v
        /\ \A i, j \in DOMAIN results' : results'[i] = results'[j] => i = j
        /\ \A v \in Workers, i \in DOMAIN results' :
              Scanning(v)' => job'[v] # results'[i]
    BY <1>3, <1>5 DEF Targets, ExactlyOnce
  <2>3. ASSUME NEW i \in InChannel', NEW j \in InChannel', r(i)' = r(j)'
        PROVE  i = j
    <3>1. \A k \in InChannel : r(k)' = r(k) /\ r(k) # job[w]
      BY <1>3, <1>4 DEF Targets, ExactlyOnce
    <3>2. results_ch'[n + 1].result = job[w]
      BY <1>4
    <3>3. CASE i \in InChannel /\ j \in InChannel
      BY <2>3, <3>1, <3>3 DEF Targets, ExactlyOnce
    <3> QED  BY <1>4, <2>3, <3>1, <3>2, <3>3
  <2>4. \A v \in Workers, i \in InChannel' : Scanning(v)' => job'[v] # r(i)'
    BY <1>3, <1>4, <1>5 DEF Targets, ExactlyOnce
  <2>5. \A i \in InChannel', j \in DOMAIN results' : r(i)' # results'[j]
    BY <1>3, <1>4, <1>5 DEF Targets, ExactlyOnce
  <2> QED  BY <2>1, <2>2, <2>3, <2>4, <2>5 DEF ExactlyOnce
<1>7. NothingLost'
  <2>1. /\ \A v \in Workers : Scanning(v)' => job'[v] \notin EmptyHost
        /\ \A i \in DOMAIN results' : results'[i] \notin EmptyHost
    BY <1>5 DEF Targets, NothingLost
  <2>2. \A i \in InChannel' : r(i)' \notin EmptyHost
    BY <1>3, <1>4 DEF Targets, NothingLost
  <2>3. ASSUME NEW t \in Target \ EmptyHost, t <= taken'
        PROVE  \/ \E v \in Workers : Scanning(v)' /\ job'[v] = t
               \/ \E i \in InChannel' : r(i)' = t
               \/ \E i \in DOMAIN results' : results'[i] = t
    <3>1. CASE \E v \in Workers \ {w} : Scanning(v) /\ job[v] = t
      BY <1>5, <3>1
    <3>2. CASE job[w] = t
      BY <1>4, <3>2
    <3>3. CASE \E i \in InChannel : r(i) = t
      BY <1>4, <3>3
    <3>4. CASE \E i \in DOMAIN results : results[i] = t
      BY <1>5, <3>4
    <3> QED  BY <1>5, <2>3, <3>1, <3>2, <3>3, <3>4 DEF Targets, NothingLost
  <2> QED  BY <2>1, <2>2, <2>3 DEF NothingLost
<1> QED  BY <1>6, <1>7 DEF Targets

LEMMA CollectResultTargets ==
    ASSUME TypeOK, Targets, CollectResult
    PROVE  Targets'
<1> DEFINE n == Len(results_ch)
           k == Len(results)
<1>1. /\ n \in Nat \ {0}
      /\ DOMAIN results_ch = 1..n
      /\ DOMAIN results_ch' = 1..(n - 1)
      /\ \A i \in 1..(n - 1) : i + 1 \in 1..n /\ results_ch'[i] = results_ch[i + 1]
      /\ results_ch[1].result # Done
      /\ Head(results_ch) = results_ch[1]
      /\ results_ch[1] \in Message
  BY RecvFacts DEF CollectResult, TypeOK
<1>2. results_ch[1].result \in Target
  BY <1>1 DEF Message
<1>3. /\ k \in Nat
      /\ DOMAIN results = 1..k
      /\ DOMAIN results' = 1..(k + 1)
      /\ \A i \in 1..k : results'[i] = results[i]
      /\ results'[k + 1] = results_ch[1].result
  BY <1>1, <1>2, SendFacts DEF CollectResult, TypeOK
<1>4. /\ 1 \in InChannel
      /\ InChannel' \subseteq 1..(n - 1)
      /\ \A i \in InChannel' : i + 1 \in InChannel /\ i + 1 # 1
                               /\ results_ch'[i].result = results_ch[i + 1].result
      /\ \A i \in InChannel : i # 1 =>
            i - 1 \in InChannel' /\ results_ch'[i - 1].result = results_ch[i].result
  BY <1>1 DEF InChannel
<1>5. /\ \A v \in Workers : Scanning(v)' = Scanning(v)
      /\ UNCHANGED <<taken, job>>
  BY DEF CollectResult, Scanning
<1> HIDE DEF n, k
<1> DEFINE r(i) == results_ch[i].result
<1>6. ExactlyOnce'
  <2>1. /\ \A v \in Workers : Scanning(v)' => job'[v] \in 1..taken'
        /\ \A u, v \in Workers :
              Scanning(u)' /\ Scanning(v)' /\ job'[u] = job'[v] => u = v
    BY <1>5 DEF Targets, ExactlyOnce
  <2>2. /\ \A i \in InChannel' : r(i)' \in 1..taken'
        /\ \A i \in DOMAIN results' : results'[i] \in 1..taken'
    BY <1>3, <1>4, <1>5 DEF Targets, ExactlyOnce
  <2>3. \A i, j \in InChannel' : r(i)' = r(j)' => i = j
    <3>1. ASSUME NEW i \in InChannel', NEW j \in InChannel', r(i)' = r(j)'
          PROVE  i + 1 = j + 1 /\ i \in Int /\ j \in Int
      BY <1>4, <3>1 DEF Targets, ExactlyOnce
    <3> QED  BY <3>1
  <2>4. \A v \in Workers, i \in InChannel' : Scanning(v)' => job'[v] # r(i)'
    BY <1>4, <1>5 DEF Targets, ExactlyOnce
  <2>5. \A i, j \in DOMAIN results' : results'[i] = results'[j] => i = j
    BY <1>3, <1>4 DEF Targets, ExactlyOnce
  <2>6. \A v \in Workers, i \in DOMAIN results' :
            Scanning(v)' => job'[v] # results'[i]
    BY <1>3, <1>4, <1>5 DEF Targets, ExactlyOnce
  <2>7. \A i \in InChannel', j \in DOMAIN results' : r(i)' # results'[j]
    BY <1>3, <1>4 DEF Targets, ExactlyOnce
  <2> QED  BY <2>1, <2>2, <2>3, <2>4, <2>5, <2>6, <2>7 DEF ExactlyOnce
<1>7. NothingLost'
  <2>a. /\ \A v \in Workers : Scanning(v)' => job'[v] \notin EmptyHost
        /\ \A i \in InChannel' : r(i)' \notin EmptyHost
    BY <1>4, <1>5 DEF Targets, NothingLost
  <2>b. results_ch[1].result \notin EmptyHost
    BY <1>4 DEF Targets, NothingLost
  <2>1. \A i \in DOMAIN results' : results'[i] \notin EmptyHost
    BY <1>3, <2>b DEF Targets, NothingLost
  <2>2. ASSUME NEW t \in Target \ EmptyHost, t <= taken'
        PROVE  \/ \E v \in Workers : Scanning(v)' /\ job'[v] = t
               \/ \E i \in InChannel' : r(i)' = t
               \/ \E i \in DOMAIN results' : results'[i] = t
    <3>1. CASE \E v \in Workers : Scanning(v) /\ job[v] = t
      BY <1>5, <3>1
    <3>2. CASE r(1) = t
      BY <1>3, <3>2
    <3>3. CASE \E i \in InChannel : i # 1 /\ r(i) = t
      BY <1>4, <3>3
    <3>4. CASE \E i \in DOMAIN results : results[i] = t
      BY <1>3, <3>4
    <3> QED  BY <1>5, <2>2, <3>1, <3>2, <3>3, <3>4 DEF Targets, NothingLost
  <2> QED  BY <2>a, <2>1, <2>2 DEF NothingLost
<1> QED  BY <1>6, <1>7 DEF Targets

LEMMA CollectDoneTargets ==
    ASSUME TypeOK, Targets, CollectDone
    PROVE  Targets'
<1> DEFINE n == Len(results_ch)
           r(i) == results_ch[i].result
<1>1. /\ n \in Nat \ {0}
      /\ DOMAIN results_ch = 1..n
      /\ DOMAIN results_ch' = 1..(n - 1)
      /\ \A i \in 1..(n - 1) : i + 1 \in 1..n /\ results_ch'[i] = results_ch[i + 1]
      /\ results_ch[1].result = Done
  BY RecvFacts DEF CollectDone, TypeOK
<1>2. /\ \A i \in InChannel' : i + 1 \in InChannel /\ i \in Int
                               /\ results_ch'[i].result = results_ch[i + 1].result
      /\ \A i \in InChannel :
            i - 1 \in InChannel' /\ results_ch'[i - 1].result = results_ch[i].result
  BY <1>1 DEF InChannel
<1>3. /\ \A v \in Workers : Scanning(v)' = Scanning(v)
      /\ UNCHANGED <<taken, job, results>>
  BY DEF CollectDone, Scanning
<1>4. ExactlyOnce'
  <2>1. ASSUME NEW i \in InChannel', NEW j \in InChannel', r(i)' = r(j)'
        PROVE  i = j
    <3>1. i + 1 = j + 1 /\ i \in Int /\ j \in Int
      BY <1>2, <2>1 DEF Targets, ExactlyOnce
    <3> QED  BY <3>1
  <2> QED  BY <1>2, <1>3, <2>1 DEF Targets, ExactlyOnce
<1>5. NothingLost'
  BY <1>2, <1>3 DEF Targets, NothingLost
<1> QED  BY <1>4, <1>5 DEF Targets

LEMMA QuietTargets ==
    ASSUME Targets,
           UNCHANGED <<job, taken, results_ch, results>>,
           \A w \in Workers : Scanning(w)' = Scanning(w)
    PROVE  Targets'
  BY DEF Targets, ExactlyOnce, NothingLost, InChannel

LEMMA TargetsStep ==
    ASSUME TypeOK, Queue, Targets, [Next]_vars
    PROVE  Targets'
<1>1. CASE SendTarget \/ SendQuit \/ StartSpawning \/ StartCollecting
  BY <1>1, QuietTargets
     DEF SendTarget, SendQuit, StartSpawning, StartCollecting, Scanning
<1>2. CASE CollectResult
  BY <1>2, CollectResultTargets
<1>3. CASE CollectDone
  BY <1>3, CollectDoneTargets
<1>4. ASSUME NEW w \in Workers, Spawn(w) \/ Panic(w) \/ SendDone(w)
      PROVE  Targets'
  <2>1. CASE Spawn(w)
    BY <2>1, QuietTargets DEF Spawn, TypeOK, Scanning
  <2>2. CASE Panic(w)
    BY <2>2, QuietTargets DEF Panic, TypeOK, Scanning
  <2>3. CASE SendDone(w)
    <3>1. InChannel' = InChannel
          /\ \A i \in InChannel : results_ch'[i] = results_ch[i]
      <4>1. [from |-> w, result |-> Done] \in Message
        BY DEF Message
      <4> QED  BY <2>3, <4>1, SendFacts DEF SendDone, InChannel, TypeOK
    <3>2. /\ \A v \in Workers : Scanning(v)' = Scanning(v)
          /\ UNCHANGED <<job, taken, results>>
      BY <2>3 DEF SendDone, TypeOK, Scanning
    <3> QED  BY <3>1, <3>2 DEF Targets, ExactlyOnce, NothingLost
  <2> QED  BY <1>4, <2>1, <2>2, <2>3
<1>5. ASSUME NEW w \in Workers, Receive(w)  PROVE Targets'
  BY <1>5, ReceiveTargets
<1>6. ASSUME NEW w \in Workers, ReceiveQuit(w)  PROVE Targets'
  BY <1>6, ReceiveQuitTargets
<1>7. ASSUME NEW w \in Workers, SendResult(w)  PROVE Targets'
  BY <1>7, SendResultTargets
<1>8. CASE UNCHANGED vars
  BY <1>8, QuietTargets DEF vars, Scanning
<1> QED  BY <1>1, <1>2, <1>3, <1>4, <1>5, <1>6, <1>7, <1>8
         DEF Next, Main, Thread, Terminating

-----------------------------------------------------------------------------
(***************************************************************************)
(* The inductive invariant holds initially, is kept by every step, and so  *)
(* holds in every reachable state.                                         *)
(***************************************************************************)
LEMMA InitIInv == Init => IInv
<1> SUFFICES ASSUME Init  PROVE IInv
  OBVIOUS
<1>1. TypeOK
  BY WorkersFinite, EmptySeq, LenProperties DEF Init, TypeOK
<1>2. Unaccounted = Workers /\ InChannel = {} /\ DOMAIN results = {}
      /\ DOMAIN results_ch = {} /\ \A w \in Workers : ~Scanning(w)
  BY DEF Init, Unaccounted, InChannel, Scanning
<1>3. Queue /\ DoneAccounting /\ main # "finished"
  BY <1>2, LenProperties DEF Init, Queue, DoneAccounting
<1>4. LastWords
  BY <1>2 DEF LastWords, DoneInChannel
<1>5. ExactlyOnce /\ NothingLost
  BY <1>2, RunnerAssumption DEF Init, ExactlyOnce, NothingLost, Target
<1> QED  BY <1>1, <1>3, <1>4, <1>5 DEF IInv

LEMMA StepIInv == IInv /\ [Next]_vars => IInv'
<1> SUFFICES ASSUME IInv, [Next]_vars  PROVE IInv'
  OBVIOUS
<1>1. TypeOK'
  BY TypeStep DEF IInv
<1>2. Accounting'
  BY AccountingStep DEF IInv, Accounting
<1>3. Queue' /\ Targets'
  BY QueueStep, TargetsStep DEF IInv, Targets
<1>4. main' = "finished" => num_threads' = 0
  BY DEF IInv, Next, Main, Thread, Terminating, SendTarget, SendQuit,
         StartSpawning, StartCollecting, CollectResult, CollectDone, Spawn,
         Receive, ReceiveQuit, SendResult, Panic, SendDone, vars
<1> QED  BY <1>1, <1>2, <1>3, <1>4 DEF IInv, Accounting, Targets

(***************************************************************************)
(* The invariant of the runner, for any number of targets and threads and  *)
(* any targets whose scan panics.                                          *)
(***************************************************************************)
THEOREM Invariance == Spec => []IInv
  BY InitIInv, StepIInv, PTL DEF Spec

(***************************************************************************)
(* Every queue holds what it should and the collector's count of threads   *)
(* stays between zero and the number of threads.                           *)
(***************************************************************************)
THEOREM TypeCorrect == Spec => []TypeOK
  BY Invariance, PTL DEF IInv

(***************************************************************************)
(* However the threads interleave, no target is scanned or reported twice. *)
(***************************************************************************)
THEOREM ScansOnce == Spec => []ExactlyOnce
  BY Invariance, PTL DEF IInv

(***************************************************************************)
(* The collector's count is the number of threads whose Done is still to   *)
(* come, panicked threads included.                                        *)
(***************************************************************************)
THEOREM CountsThreads == Spec => []DoneAccounting
  BY Invariance, PTL DEF IInv

(***************************************************************************)
(* When scan_runner returns, every thread has exited and no result was     *)
(* left in the channel.                                                    *)
(***************************************************************************)
LEMMA FinishedDrained == IInv => Drained
<1> SUFFICES ASSUME IInv, main = "finished"
             PROVE  results_ch = <<>> /\ \A w \in Workers : worker[w] = "exited"
  BY DEF Drained
<1>1. Cardinality(Unaccounted) = 0
  BY DEF IInv, DoneAccounting
<1>2. IsFiniteSet(Unaccounted)
  BY WorkersFinite, FS_Subset DEF Unaccounted
<1>3. Unaccounted = {}
  BY <1>1, <1>2, FS_EmptySet
<1>4. DOMAIN results_ch = {}
  BY <1>3 DEF IInv, LastWords
<1>5. results_ch = <<>>
  BY <1>4, LenProperties, EmptySeq DEF IInv, TypeOK
<1>6. \A w \in Workers : worker[w] = "exited"
  BY <1>3 DEF Unaccounted
<1> QED  BY <1>5, <1>6

(***************************************************************************)
(* It returns only when nobody is left and nothing is on its way, in every *)
(* execution.                                                              *)
(***************************************************************************)
THEOREM ReturnsDrained == Spec => []Drained
  BY Invariance, FinishedDrained, PTL

(***************************************************************************)
(* When scan_runner returns, its results are exactly those of the targets  *)
(* the threads took for scanning.                                          *)
(***************************************************************************)
LEMMA FinishedComplete == IInv => Complete
<1> SUFFICES ASSUME IInv, main = "finished"
             PROVE  {results[i] : i \in DOMAIN results} =
                        {t \in Target \ EmptyHost : t <= taken}
  BY DEF Complete
<1>1. results_ch = <<>> /\ \A w \in Workers : worker[w] = "exited"
  BY FinishedDrained DEF Drained
<1>2. InChannel = {} /\ \A w \in Workers : ~Scanning(w)
  BY <1>1 DEF InChannel, Scanning
<1>3. \A t \in Target \ EmptyHost :
        t <= taken => \E i \in DOMAIN results : results[i] = t
  BY <1>2 DEF IInv, NothingLost
<1>4. \A i \in DOMAIN results : results[i] \in Target /\ results[i] <= taken
  BY ElementOfSeq, LenProperties DEF IInv, TypeOK, ExactlyOnce
<1>5. \A i \in DOMAIN results : results[i] \notin EmptyHost
  BY DEF IInv, NothingLost
<1> QED  BY <1>3, <1>4, <1>5

(***************************************************************************)
(* What it returns has no gap and nothing else in it, in every execution.  *)
(***************************************************************************)
THEOREM ReturnsComplete == Spec => []Complete
  BY Invariance, FinishedComplete, PTL

-----------------------------------------------------------------------------
(***************************************************************************)
(* How the threads leave. Each thread that leaves took one message that    *)
(* asks it to, and no message but one of them is an answer to a thread; so *)
(* the queue runs out of threads before it runs out of exit messages, and  *)
(* a target is taken only while fewer messages than there are threads have *)
(* asked one to leave.                                                     *)
(***************************************************************************)
Leaving == {w \in Workers : worker[w] \in {"exiting", "exited"}}

Active == {w \in Workers : worker[w] \in {"unspawned", "idle", "scanning"}}

QuitsAhead == {i \in (taken + 1)..Len(tx) : tx[i] = Quit}

Asking(n) == {i \in 1..n : AsksToQuit(tx[i])}

QuitsQueued ==
    /\ main = "queueing" =>
        taken = 0 /\ \A w \in Workers : worker[w] = "unspawned"
    /\ main # "queueing" =>
        /\ Len(tx) = NumTargets + Cardinality(Workers)
        /\ Cardinality(QuitsAhead) >= Cardinality(Active)

OneLeavesPerMessage ==
    /\ Cardinality(Leaving) = Cardinality(Asking(taken))
    /\ \A i \in 1..taken :
        ~AsksToQuit(tx[i]) => Cardinality(Asking(i)) < Cardinality(Workers)

LEMMA ExitSetsFinite ==
    ASSUME TypeOK
    PROVE  /\ IsFiniteSet(Leaving) /\ Cardinality(Leaving) \in Nat
           /\ IsFiniteSet(Active) /\ Cardinality(Active) \in Nat
           /\ IsFiniteSet(QuitsAhead) /\ Cardinality(QuitsAhead) \in Nat
           /\ \A n \in Nat : /\ IsFiniteSet(Asking(n))
                            /\ Cardinality(Asking(n)) \in Nat
<1>1. Len(tx) \in Nat /\ taken \in Nat
  BY LenProperties DEF TypeOK
<1>2. IsFiniteSet(Leaving) /\ IsFiniteSet(Active)
  BY WorkersFinite, FS_Subset DEF Leaving, Active
<1>3. IsFiniteSet(QuitsAhead)
  <2>1. IsFiniteSet((taken + 1)..Len(tx))
    BY <1>1, FS_Interval
  <2> QED  BY <2>1, FS_Subset DEF QuitsAhead
<1>4. ASSUME NEW n \in Nat  PROVE IsFiniteSet(Asking(n))
  <2>1. IsFiniteSet(1..n)
    BY FS_Interval
  <2> QED  BY <2>1, FS_Subset DEF Asking
<1> QED  BY <1>2, <1>3, <1>4, FS_CardinalityType

(***************************************************************************)
(* When main has queued everything, the exit messages are the last ones,   *)
(* one for each thread.                                                    *)
(***************************************************************************)
LEMMA SpawningQuits ==
    ASSUME IInv, QuitsQueued, StartSpawning
    PROVE  Cardinality(QuitsAhead') >= Cardinality(Active')
<1>1. /\ NumTargets \in Nat /\ Cardinality(Workers) \in Nat
      /\ taken' = 0 /\ tx' = tx /\ worker' = worker
      /\ Len(tx) = NumTargets + Cardinality(Workers)
  BY RunnerAssumption, WorkersFinite DEF StartSpawning, QuitsQueued
<1>2. QuitsAhead' = (NumTargets + 1)..(NumTargets + Cardinality(Workers))
  BY <1>1, RunnerAssumption DEF QuitsAhead, IInv, Queue, Quit
<1>3. Cardinality(QuitsAhead') = Cardinality(Workers)
  BY <1>1, <1>2, FS_Interval
<1>4. Cardinality(Active') <= Cardinality(Workers)
  BY WorkersFinite, FS_Subset DEF Active
<1> QED  BY <1>1, <1>3, <1>4

(***************************************************************************)
(* A thread that takes a message asking it to leave is one active thread   *)
(* less, and the queue has at most one exit message less.                  *)
(***************************************************************************)
LEMMA ReceiveQuitExit ==
    ASSUME IInv, QuitsQueued, OneLeavesPerMessage,
           NEW w \in Workers, ReceiveQuit(w)
    PROVE  QuitsQueued' /\ OneLeavesPerMessage'
<1>1. /\ Len(tx) \in Nat /\ taken \in Nat /\ taken + 1 <= Len(tx)
      /\ taken' = taken + 1 /\ tx' = tx /\ main' = main
      /\ AsksToQuit(tx[taken + 1])
      /\ worker[w] = "idle"
      /\ worker'[w] = "exiting"
      /\ \A v \in Workers \ {w} : worker'[v] = worker[v]
  BY LenProperties DEF IInv, TypeOK, ReceiveQuit
<1>2. main # "queueing"
  BY <1>1 DEF QuitsQueued
<1>3. Active' = Active \ {w} /\ w \in Active
  BY <1>1 DEF Active
<1>4. QuitsAhead' = QuitsAhead \ {taken + 1}
  BY <1>1 DEF QuitsAhead
<1>5. /\ Cardinality(Active') = Cardinality(Active) - 1
      /\ Cardinality(QuitsAhead') >= Cardinality(QuitsAhead) - 1
  <2>1. Cardinality(Active \ {w}) = Cardinality(Active) - 1
    BY <1>3, ExitSetsFinite, FS_RemoveElement DEF IInv
  <2>2. /\ Cardinality(QuitsAhead \ {taken + 1}) \in
                {Cardinality(QuitsAhead), Cardinality(QuitsAhead) - 1}
        /\ Cardinality(QuitsAhead) \in Nat
    BY ExitSetsFinite, FS_RemoveElement DEF IInv
  <2> QED  BY <1>3, <1>4, <2>1, <2>2
<1>6. QuitsQueued'
  <2>1. /\ Cardinality(Active) \in Nat /\ Cardinality(QuitsAhead) \in Nat
        /\ Cardinality(QuitsAhead') \in Nat
    BY <1>4, ExitSetsFinite, FS_RemoveElement, FS_CardinalityType DEF IInv
  <2>2. Cardinality(QuitsAhead) >= Cardinality(Active)
    BY <1>2 DEF QuitsQueued
  <2>3. Cardinality(QuitsAhead') >= Cardinality(Active')
    BY <1>5, <2>1, <2>2
  <2> QED  BY <1>1, <1>2, <2>3 DEF QuitsQueued
<1>7. Leaving' = Leaving \union {w} /\ w \notin Leaving
  BY <1>1 DEF Leaving
<1>8. /\ Asking(taken + 1) = Asking(taken) \union {taken + 1}
      /\ taken + 1 \notin Asking(taken)
      /\ \A n \in Nat : Asking(n)' = Asking(n)
  BY <1>1 DEF Asking, AsksToQuit
<1>9. Cardinality(Leaving') = Cardinality(Asking(taken)')
  <2>1. Cardinality(Leaving') = Cardinality(Leaving) + 1
    BY <1>7, ExitSetsFinite, FS_AddElement DEF IInv
  <2>2. Cardinality(Asking(taken + 1)) = Cardinality(Asking(taken)) + 1
    BY <1>1, <1>8, ExitSetsFinite, FS_AddElement DEF IInv
  <2>3. Asking(taken)' = Asking(taken + 1)
    BY <1>1 DEF Asking, AsksToQuit
  <2> QED  BY <2>1, <2>2, <2>3 DEF OneLeavesPerMessage
<1>10. OneLeavesPerMessage'
  <2> SUFFICES ASSUME NEW i \in 1..taken', ~AsksToQuit(tx'[i])
               PROVE  Cardinality(Asking(i)') < Cardinality(Workers)
    BY <1>9 DEF OneLeavesPerMessage, AsksToQuit
  <2>1. i \in 1..taken /\ ~AsksToQuit(tx[i])
    BY <1>1
  <2> QED  BY <1>8, <2>1 DEF OneLeavesPerMessage
<1> QED  BY <1>6, <1>10

(***************************************************************************)
(* A thread that takes a target has not been asked to leave, so at most    *)
(* all the others have.                                                    *)
(***************************************************************************)
LEMMA ReceiveExit ==
    ASSUME IInv, QuitsQueued, OneLeavesPerMessage,
           NEW w \in Workers, Receive(w)
    PROVE  QuitsQueued' /\ OneLeavesPerMessage'
<1>1. /\ Len(tx) \in Nat /\ taken \in Nat /\ taken + 1 <= Len(tx)
      /\ taken' = taken + 1 /\ tx' = tx /\ main' = main
      /\ ~AsksToQuit(tx[taken + 1])
      /\ worker[w] = "idle"
      /\ worker'[w] = "scanning"
      /\ \A v \in Workers \ {w} : worker'[v] = worker[v]
  BY LenProperties DEF IInv, TypeOK, Receive
<1>2. main # "queueing"
  BY <1>1 DEF QuitsQueued
<1>3. Active' = Active /\ Leaving' = Leaving /\ w \notin Leaving
  BY <1>1 DEF Active, Leaving
<1>4. QuitsAhead' = QuitsAhead
  BY <1>1 DEF QuitsAhead, AsksToQuit
<1>5. QuitsQueued'
  BY <1>1, <1>2, <1>3, <1>4 DEF QuitsQueued
<1>6. /\ Asking(taken + 1) = Asking(taken)
      /\ \A n \in Nat : Asking(n)' = Asking(n)
      /\ Asking(taken)' = Asking(taken + 1)
  BY <1>1 DEF Asking, AsksToQuit
<1>7. Cardinality(Leaving) < Cardinality(Workers)
  <2>1. Leaving \in SUBSET Workers /\ Leaving # Workers
    BY <1>3 DEF Leaving
  <2>2. /\ Cardinality(Leaving) <= Cardinality(Workers)
        /\ Cardinality(Leaving) # Cardinality(Workers)
    BY <2>1, WorkersFinite, FS_Subset
  <2>3. Cardinality(Leaving) \in Nat
    BY ExitSetsFinite DEF IInv
  <2> QED  BY <2>2, <2>3, WorkersFinite
<1>8. OneLeavesPerMessage'
  <2> SUFFICES ASSUME NEW i \in 1..taken', ~AsksToQuit(tx'[i])
               PROVE  Cardinality(Asking(i)') < Cardinality(Workers)
    BY <1>3, <1>6 DEF OneLeavesPerMessage, AsksToQuit
  <2>1. CASE i = taken + 1
    BY <1>1, <1>6, <1>7, <2>1 DEF OneLeavesPerMessage
  <2>2. CASE i \in 1..taken
    BY <1>1, <1>6, <2>2 DEF OneLeavesPerMessage
  <2> QED  BY <1>1, <2>1, <2>2
<1> QED  BY <1>5, <1>8

LEMMA InitExit == Init => QuitsQueued /\ OneLeavesPerMessage
<1> SUFFICES ASSUME Init  PROVE QuitsQueued /\ OneLeavesPerMessage
  OBVIOUS
<1>1. Leaving = {} /\ Asking(taken) = {} /\ taken = 0
  BY DEF Init, Leaving, Asking
<1>2. Cardinality(Leaving) = Cardinality(Asking(taken))
  BY <1>1
<1> QED  BY <1>1, <1>2 DEF Init, QuitsQueued, OneLeavesPerMessage

LEMMA StepExit ==
    ASSUME IInv, QuitsQueued, OneLeavesPerMessage, [Next]_vars
    PROVE  QuitsQueued' /\ OneLeavesPerMessage'
<1>t. /\ Len(tx) \in Nat /\ taken \in Nat
      /\ worker \in [Workers -> {"unspawned", "idle", "scanning", "exiting",
                                 "exited", "panicked"}]
  BY LenProperties DEF IInv, TypeOK
\* Steps that neither queue nor take a message, nor make a thread leave.
<1>q. ASSUME UNCHANGED <<tx, taken>>,
             main = "queueing" => main' = main /\ worker' = worker,
             main # "queueing" => main' # "queueing",
             Leaving' = Leaving, Active' \subseteq Active
      PROVE  QuitsQueued' /\ OneLeavesPerMessage'
  <2>1. QuitsAhead' = QuitsAhead /\ \A n : Asking(n)' = Asking(n)
    BY <1>q DEF QuitsAhead, Asking, AsksToQuit
  <2>2. Cardinality(Active') <= Cardinality(Active)
    BY <1>q, ExitSetsFinite, FS_Subset DEF IInv
  <2>3. Cardinality(Active') \in Nat
    BY <1>q, ExitSetsFinite, FS_Subset, FS_CardinalityType DEF IInv
  <2>4. QuitsQueued'
    <3>1. Cardinality(Active) \in Nat /\ Cardinality(QuitsAhead) \in Nat
      BY ExitSetsFinite DEF IInv
    <3>2. CASE main = "queueing"
      BY <1>q, <3>2 DEF QuitsQueued
    <3>3. CASE main # "queueing"
      BY <1>q, <2>1, <2>2, <2>3, <3>1, <3>3 DEF QuitsQueued
    <3> QED  BY <3>2, <3>3
  <2>5. OneLeavesPerMessage'
    BY <1>q, <2>1 DEF OneLeavesPerMessage, AsksToQuit
  <2> QED  BY <2>4, <2>5
<1>1. CASE SendTarget \/ SendQuit
  <2>1. /\ main = "queueing" /\ taken = 0
        /\ UNCHANGED <<main, taken, worker>>
    BY <1>1 DEF SendTarget, SendQuit, QuitsQueued
  <2>2. Leaving' = Leaving /\ Asking(taken) = {} /\ Asking(taken)' = {}
    BY <2>1 DEF Leaving, Asking
  <2> QED  BY <2>1, <2>2 DEF QuitsQueued, OneLeavesPerMessage
<1>2. CASE StartSpawning
  <2>1. Cardinality(QuitsAhead') >= Cardinality(Active')
    BY <1>2, SpawningQuits
  <2>2. /\ UNCHANGED <<tx, taken, worker>> /\ main' = "spawning"
        /\ Len(tx) = NumTargets + Cardinality(Workers)
    BY <1>2 DEF StartSpawning
  <2>3. Leaving' = Leaving /\ \A n : Asking(n)' = Asking(n)
    BY <2>2 DEF Leaving, Asking, AsksToQuit
  <2> QED  BY <2>1, <2>2, <2>3 DEF QuitsQueued, OneLeavesPerMessage, AsksToQuit
<1>3. CASE StartCollecting \/ CollectResult \/ CollectDone \/ UNCHANGED vars
  <2>1. UNCHANGED <<tx, taken, worker>>
        /\ (main # "queueing" => main' # "queueing")
        /\ (main = "queueing" => main' = main)
    BY <1>3 DEF StartCollecting, CollectResult, CollectDone, vars
  <2> QED  BY <1>q, <2>1 DEF Leaving, Active
<1>4. ASSUME NEW w \in Workers, Spawn(w) \/ SendResult(w) \/ Panic(w) \/ SendDone(w)
      PROVE  QuitsQueued' /\ OneLeavesPerMessage'
  <2>1. /\ UNCHANGED <<main, tx, taken>>
        /\ main # "queueing"
    BY <1>4 DEF Spawn, SendResult, Panic, SendDone, QuitsQueued
  <2>2. Leaving' = Leaving /\ Active' \subseteq Active
    BY <1>4, <1>t DEF Spawn, SendResult, Panic, SendDone, Leaving, Active
  <2> QED  BY <1>q, <2>1, <2>2
<1>5. ASSUME NEW w \in Workers, Receive(w) \/ ReceiveQuit(w)
      PROVE  QuitsQueued' /\ OneLeavesPerMessage'
  BY <1>5, ReceiveExit, ReceiveQuitExit
<1> QED  BY <1>1, <1>2, <1>3, <1>4, <1>5
         DEF Next, Main, Thread, Terminating

(***************************************************************************)
(* Once all is queued an exit message lies ahead for every thread that is  *)
(* neither leaving nor dead; and as many threads have left as messages     *)
(* were taken that ask for it, exit messages and targets without a host    *)
(* (scan.rs:88-97 and 108-113).                                            *)
(***************************************************************************)
THEOREM ExitInvariance == Spec => [](IInv /\ QuitsQueued /\ OneLeavesPerMessage)
<1>1. IInv /\ QuitsQueued /\ OneLeavesPerMessage /\ [Next]_vars
        => (IInv /\ QuitsQueued /\ OneLeavesPerMessage)'
  BY StepIInv, StepExit
<1> QED  BY <1>1, InitIInv, InitExit, PTL DEF Spec

(***************************************************************************)
(* Once all messages are queued, the queue holds an exit message for each  *)
(* thread that has not left and has not died.                              *)
(***************************************************************************)
THEOREM QuitsForAll == Spec => []QuitForEveryWorker
<1>1. QuitsQueued => QuitForEveryWorker
  BY DEF QuitsQueued, QuitForEveryWorker, QuitsAhead, Active
<1> QED  BY <1>1, ExitInvariance, PTL

(***************************************************************************)
(* When scan_runner returns, a target that has a host was scanned exactly  *)
(* if fewer messages asking a thread to leave than there are threads stand *)
(* before it.                                                              *)
(***************************************************************************)
HostlessBefore(t) == {i \in 1..(t - 1) : i \in EmptyHost}

LEMMA ScannedUpTo ==
    ASSUME IInv, QuitsQueued, OneLeavesPerMessage, main = "finished",
           NEW t \in Target \ EmptyHost
    PROVE  t <= taken <=> Cardinality(HostlessBefore(t)) < Cardinality(Workers)
<1>1. /\ Len(tx) \in Nat /\ taken \in Nat /\ t \in Nat /\ t >= 1
      /\ taken <= Len(tx) /\ t <= NumTargets /\ NumTargets \in Nat
      /\ Cardinality(Workers) \in Nat
  BY LenProperties, RunnerAssumption, WorkersFinite DEF IInv, TypeOK, Target
<1>2. Leaving = Workers
  BY FinishedDrained DEF Leaving, Drained
<1>3. \A n \in Nat : n <= taken /\ n <= NumTargets =>
            \A i \in 1..n : tx[i] = i /\ (AsksToQuit(tx[i]) <=> i \in EmptyHost)
  BY <1>1 DEF IInv, Queue, AsksToQuit, Quit
<1>4. ASSUME t <= taken
      PROVE  Cardinality(HostlessBefore(t)) < Cardinality(Workers)
  <2>1. ~AsksToQuit(tx[t])
    BY <1>1, <1>3, <1>4
  <2>2. Asking(t) = HostlessBefore(t)
    BY <1>1, <1>3, <1>4, <2>1 DEF Asking, HostlessBefore
  <2> QED  BY <1>1, <1>4, <2>1, <2>2 DEF OneLeavesPerMessage
<1>5. ASSUME t > taken
      PROVE  ~(Cardinality(HostlessBefore(t)) < Cardinality(Workers))
  <2>1. Asking(taken) \in SUBSET HostlessBefore(t)
    BY <1>1, <1>3, <1>5 DEF Asking, HostlessBefore
  <2>2. IsFiniteSet(HostlessBefore(t))
    <3>1. IsFiniteSet(1..(t - 1))
      BY <1>1, FS_Interval
    <3> QED  BY <3>1, FS_Subset DEF HostlessBefore
  <2>3. Cardinality(Asking(taken)) <= Cardinality(HostlessBefore(t))
        /\ Cardinality(HostlessBefore(t)) \in Nat
    BY <2>1, <2>2, FS_Subset, FS_CardinalityType
  <2> QED  BY <1>1, <1>2, <2>3 DEF OneLeavesPerMessage
<1> QED  BY <1>1, <1>4, <1>5

-----------------------------------------------------------------------------
(***************************************************************************)
(* What can be proved of termination without fairness. As long as no scan  *)
(* has panicked, something can go on until scan_runner returns: nobody     *)
(* waits for a message that will not come. And no step can be taken for    *)
(* ever, whatever panics: there is a number that every step makes smaller. *)
(***************************************************************************)
Unspawned == {w \in Workers : worker[w] = "unspawned"}

Busy == {w \in Workers : worker[w] \in {"scanning", "exiting"}}

\* main has something to send, to spawn or to collect, or a thread has a message
\* to take or something to send: the guards of the actions of Next.
CanGoOn ==
    \/ main = "queueing" /\ Len(tx) <= NumTargets + Cardinality(Workers)
    \/ main = "spawning"
    \/ main = "collecting" /\ results_ch # <<>>
    \/ \E w \in Workers :
        \/ worker[w] = "idle" /\ taken < Len(tx)
        \/ worker[w] \in {"scanning", "exiting"}

NeverStuck == Workers # {} /\ ~Panicked /\ main # "finished" => CanGoOn

Rank == [queueing |-> 3, spawning |-> 2, collecting |-> 1, finished |-> 0]

\* The steps left, at most: sending a message, going on to the next part of
\* main, spawning a thread, and for a message taking it, sending what comes of
\* it and collecting that.
Left ==
    LET all == NumTargets + Cardinality(Workers)
    IN  (all - Len(tx)) + Rank[main] + Cardinality(Unspawned)
        + 3 * (all - taken) + 2 * Cardinality(Busy) + Len(results_ch)

GoesOn ==
    /\ main = "queueing" => Len(tx) <= NumTargets + Cardinality(Workers)
    /\ main \in {"collecting", "finished"} =>
        \A w \in Workers : worker[w] # "unspawned"
    /\ Workers # {} /\ main # "finished" => num_threads > 0

LEMMA GoesOnFacts ==
    ASSUME IInv
    PROVE  /\ Len(tx) \in Nat /\ taken \in Nat /\ taken <= Len(tx)
           /\ Len(results_ch) \in Nat /\ num_threads \in Nat
           /\ NumTargets \in Nat /\ Cardinality(Workers) \in Nat
           /\ main \in {"queueing", "spawning", "collecting", "finished"}
           /\ worker \in [Workers -> {"unspawned", "idle", "scanning",
                                      "exiting", "exited", "panicked"}]
           /\ IsFiniteSet(Unspawned) /\ Cardinality(Unspawned) \in Nat
           /\ IsFiniteSet(Busy) /\ Cardinality(Busy) \in Nat
<1>1. IsFiniteSet(Unspawned) /\ IsFiniteSet(Busy)
  BY WorkersFinite, FS_Subset DEF Unspawned, Busy
<1>2. Cardinality(Unspawned) \in Nat /\ Cardinality(Busy) \in Nat
  BY <1>1, FS_CardinalityType
<1>3. num_threads \in Nat
  BY WorkersFinite DEF IInv, TypeOK
<1> QED  BY <1>1, <1>2, <1>3, LenProperties, RunnerAssumption, WorkersFinite
         DEF IInv, TypeOK

LEMMA InitGoesOn == Init => GoesOn
<1> SUFFICES ASSUME Init  PROVE GoesOn
  OBVIOUS
<1>1. main = "queueing" /\ Len(tx) = 0 /\ num_threads = Cardinality(Workers)
  BY EmptySeq DEF Init
<1>2. Workers # {} => Cardinality(Workers) > 0
  BY WorkersFinite, FS_EmptySet
<1> QED  BY <1>1, <1>2, RunnerAssumption, WorkersFinite DEF GoesOn

LEMMA SentIsLonger ==
    ASSUME TypeOK, SendTarget \/ SendQuit
    PROVE  /\ Len(tx') = Len(tx) + 1
           /\ Len(tx) < NumTargets + Cardinality(Workers)
<1>1. tx \in Seq(Target \union {Quit}) /\ Len(tx) \in Nat
  BY LenProperties DEF TypeOK
<1>2. Cardinality(Workers) \in Nat /\ NumTargets \in Nat
  BY WorkersFinite, RunnerAssumption
<1>3. CASE SendTarget
  <2>1. Len(tx) + 1 \in Target \union {Quit}
    BY <1>1, <1>2, <1>3 DEF SendTarget, Target
  <2>2. Len(Append(tx, Len(tx) + 1)) = Len(tx) + 1
    BY <1>1, <2>1, SendFacts
  <2> QED  BY <1>1, <1>2, <1>3, <2>2 DEF SendTarget
<1>4. CASE SendQuit
  <2>1. Len(Append(tx, Quit)) = Len(tx) + 1
    BY <1>1, SendFacts
  <2> QED  BY <1>4, <2>1 DEF SendQuit
<1> QED  BY <1>3, <1>4

LEMMA SentResultIsLonger ==
    ASSUME TypeOK, NEW w \in Workers, SendResult(w) \/ SendDone(w) \/ Panic(w)
    PROVE  Len(results_ch') \in {Len(results_ch), Len(results_ch) + 1}
<1>1. results_ch \in Seq(Message)
  BY DEF TypeOK
<1>2. CASE Panic(w)
  BY <1>2 DEF Panic
<1>3. CASE SendResult(w) \/ SendDone(w)
  <2> DEFINE sent == IF SendDone(w) THEN Done ELSE job[w]
             message == [from |-> w, result |-> sent]
  <2>1. results_ch' = Append(results_ch, message)
    BY <1>3 DEF SendResult, SendDone
  <2> HIDE DEF message
  <2>2. Len(Append(results_ch, message)) = Len(results_ch) + 1
    BY <1>1, AppendProperties
  <2> QED  BY <2>1, <2>2
<1> QED  BY <1>2, <1>3

LEMMA StepGoesOn ==
    ASSUME IInv, GoesOn, [Next]_vars
    PROVE  GoesOn'
<1>1. /\ Len(tx) \in Nat /\ num_threads \in Nat /\ NumTargets \in Nat
      /\ Cardinality(Workers) \in Nat
      /\ worker \in [Workers -> {"unspawned", "idle", "scanning",
                                 "exiting", "exited", "panicked"}]
  BY GoesOnFacts
<1>2. CASE SendTarget \/ SendQuit
  <2>1. Len(tx') = Len(tx) + 1 /\ Len(tx) < NumTargets + Cardinality(Workers)
    BY <1>1, <1>2, SentIsLonger DEF IInv
  <2>2. UNCHANGED <<main, num_threads>> /\ main = "queueing"
    BY <1>2 DEF SendTarget, SendQuit
  <2> QED  BY <1>1, <2>1, <2>2 DEF GoesOn
<1>3. CASE StartSpawning \/ StartCollecting \/ CollectResult
  BY <1>3 DEF StartSpawning, StartCollecting, CollectResult, GoesOn
<1>4. CASE CollectDone
  <2>1. num_threads \in 1..Cardinality(Workers)
    BY <1>4, CountPositive DEF IInv
  <2> QED  BY <1>1, <1>4, <2>1 DEF CollectDone, GoesOn
<1>5. ASSUME NEW w \in Workers, Spawn(w) \/ Thread(w)
      PROVE  GoesOn'
  <2>1. UNCHANGED <<main, tx, num_threads>>
    BY <1>5 DEF Spawn, Thread, Receive, ReceiveQuit, SendResult, Panic, SendDone
  <2>2. \A v \in Workers : worker[v] # "unspawned" => worker'[v] # "unspawned"
    BY <1>1, <1>5 DEF Spawn, Thread, Receive, ReceiveQuit, SendResult, Panic, SendDone
  <2> QED  BY <2>1, <2>2 DEF GoesOn
<1>6. CASE UNCHANGED vars
  BY <1>6 DEF vars, GoesOn
<1> QED  BY <1>2, <1>3, <1>4, <1>5, <1>6 DEF Next, Main, Terminating

(***************************************************************************)
(* Until scan_runner returns something can go on, for any number of        *)
(* targets and threads, targets without a host included: a thread that     *)
(* waits has an exit message before it, and a collector that waits has a   *)
(* thread that has not said Done (scan.rs:140-158). Only a panic, or having*)
(* no thread at all, can leave it waiting.                                 *)
(***************************************************************************)
THEOREM NeverWaitsForEver == Spec => []NeverStuck
<1>1. ASSUME IInv, QuitsQueued, GoesOn  PROVE NeverStuck
  <2> SUFFICES ASSUME Workers # {}, ~Panicked, main # "finished",
                      main # "queueing", main # "spawning", results_ch = <<>>
               PROVE  CanGoOn
    BY <1>1, GoesOnFacts DEF NeverStuck, CanGoOn, GoesOn
  <2>1. main = "collecting" /\ num_threads > 0
    BY <1>1, GoesOnFacts DEF GoesOn
  <2>2. PICK w \in Workers : worker[w] # "exited"
    <3>1. Unaccounted # {}
      BY <1>1, <2>1, FS_EmptySet DEF IInv, DoneAccounting
    <3>2. \A w \in Workers : ~DoneInChannel(w)
      BY EmptySeq DEF DoneInChannel
    <3> QED  BY <3>1, <3>2 DEF Unaccounted
  <2>3. worker[w] \in {"idle", "scanning", "exiting"}
    BY <1>1, <2>1, <2>2, GoesOnFacts DEF GoesOn, Panicked
  <2>4. ASSUME worker[w] = "idle"  PROVE taken < Len(tx)
    <3>1. w \in Active
      BY <2>4 DEF Active
    <3>2. Cardinality(QuitsAhead) # 0
      <4>1. Cardinality(Active) # 0 /\ Cardinality(Active) \in Nat
        BY <1>1, <3>1, ExitSetsFinite, FS_EmptySet DEF IInv
      <4> QED  BY <1>1, <2>1, <4>1, ExitSetsFinite DEF IInv, QuitsQueued
    <3>3. QuitsAhead # {}
      BY <3>2, FS_EmptySet
    <3> QED  BY <1>1, <3>3, GoesOnFacts DEF QuitsAhead
  <2> QED  BY <2>3, <2>4 DEF CanGoOn
<1>2. IInv /\ GoesOn /\ [Next]_vars => GoesOn'
  BY StepGoesOn
<1> QED  BY <1>1, <1>2, InitGoesOn, ExitInvariance, PTL DEF Spec

LEMMA MovesOn ==
    ASSUME IInv, NEW w \in Workers, NEW to \in {"idle", "scanning", "exiting",
                                                "exited", "panicked"},
           worker' = [worker EXCEPT ![w] = to]
    PROVE  /\ worker[w] = "unspawned" =>
                Cardinality(Unspawned') = Cardinality(Unspawned) - 1
           /\ worker[w] # "unspawned" =>
                Cardinality(Unspawned') = Cardinality(Unspawned)
           /\ w \in Busy /\ to \notin {"scanning", "exiting"} =>
                Cardinality(Busy') = Cardinality(Busy) - 1
           /\ w \notin Busy /\ to \in {"scanning", "exiting"} =>
                Cardinality(Busy') = Cardinality(Busy) + 1
           /\ w \notin Busy /\ to \notin {"scanning", "exiting"} =>
                Cardinality(Busy') = Cardinality(Busy)
<1>1. /\ worker'[w] = to
      /\ \A v \in Workers \ {w} : worker'[v] = worker[v]
      /\ IsFiniteSet(Unspawned) /\ IsFiniteSet(Busy)
  BY GoesOnFacts
<1>2. Unspawned' = Unspawned \ {w} /\ (w \in Unspawned <=> worker[w] = "unspawned")
  BY <1>1 DEF Unspawned
<1>3. Busy' = IF to \in {"scanning", "exiting"} THEN Busy \union {w}
              ELSE Busy \ {w}
  BY <1>1 DEF Busy
<1>4. /\ w \in Unspawned => Cardinality(Unspawned \ {w}) = Cardinality(Unspawned) - 1
      /\ w \notin Unspawned => Unspawned \ {w} = Unspawned
  BY <1>1, FS_RemoveElement
<1>5. /\ w \in Busy => Cardinality(Busy \ {w}) = Cardinality(Busy) - 1
      /\ w \notin Busy => Cardinality(Busy \union {w}) = Cardinality(Busy) + 1
      /\ w \notin Busy => Busy \ {w} = Busy
  BY <1>1, FS_RemoveElement, FS_AddElement
<1> QED  BY <1>2, <1>3, <1>4, <1>5

LEMMA StepLeft ==
    ASSUME IInv, QuitsQueued, GoesOn, Next
    PROVE  Left' < Left \/ UNCHANGED vars
<1> DEFINE all == NumTargets + Cardinality(Workers)
           s == all - Len(tx)
           r == Rank[main]
           u == Cardinality(Unspawned)
           t == all - taken
           b == Cardinality(Busy)
           c == Len(results_ch)
<1>1. /\ Len(tx) \in Nat /\ taken \in Nat /\ c \in Nat /\ all \in Nat
      /\ main \in {"queueing", "spawning", "collecting", "finished"}
      /\ u \in Nat /\ b \in Nat
  BY GoesOnFacts
<1>2. /\ Rank["queueing"] = 3 /\ Rank["spawning"] = 2
      /\ Rank["collecting"] = 1 /\ Rank["finished"] = 0
      /\ Rank' = Rank /\ r \in Nat
  BY <1>1 DEF Rank
<1>3. all' = all
  BY DEF Workers
<1>i. s \in Int /\ r \in Int /\ u \in Int /\ t \in Int /\ b \in Int /\ c \in Int
  BY <1>1, <1>2
<1>l. /\ Left = s + r + u + 3 * t + 2 * b + c
      /\ Left' = s' + r' + u' + 3 * t' + 2 * b' + c'
  BY DEF Left
\* What the actions do to the six numbers.
<1>m. UNCHANGED worker => u' = u /\ b' = b
  BY DEF Unspawned, Busy
<1>4. CASE SendTarget \/ SendQuit
  <2>1. Len(tx') = Len(tx) + 1
    BY <1>4, SentIsLonger DEF IInv
  <2>2. UNCHANGED <<main, taken, worker, results_ch>>
    BY <1>4 DEF SendTarget, SendQuit
  <2>3. s' = s - 1 /\ r' = r /\ t' = t /\ c' = c
    BY <1>1, <1>2, <1>3, <2>1, <2>2
  <2>4. u' = u /\ b' = b
    BY <1>m, <2>2
  <2> HIDE DEF s, r, u, t, b, c
  <2> QED  BY <1>i, <1>l, <2>3, <2>4
<1>5. CASE StartSpawning \/ StartCollecting
  <2>1. UNCHANGED <<tx, taken, worker, results_ch>>
    BY <1>5 DEF StartSpawning, StartCollecting
  <2>2. s' = s /\ t' = t /\ c' = c
    BY <1>3, <2>1
  <2>3. r' = r - 1
    BY <1>2, <1>5 DEF StartSpawning, StartCollecting
  <2>4. u' = u /\ b' = b
    BY <1>m, <2>1
  <2> HIDE DEF s, r, u, t, b, c
  <2> QED  BY <1>i, <1>l, <2>2, <2>3, <2>4
<1>6. CASE CollectResult \/ CollectDone
  <2>1. UNCHANGED <<tx, taken, worker>>
    BY <1>6 DEF CollectResult, CollectDone
  <2>2. s' = s /\ t' = t
    BY <1>3, <2>1
  <2>3. c' = c - 1
    <3>1. results_ch \in Seq(Message) /\ results_ch # <<>>
          /\ results_ch' = Tail(results_ch)
      BY <1>6 DEF CollectResult, CollectDone, IInv, TypeOK
    <3> QED  BY <3>1, HeadTailProperties
  <2>4. r' = r \/ r' = r - 1
    BY <1>2, <1>6 DEF CollectResult, CollectDone
  <2>5. u' = u /\ b' = b
    BY <1>m, <2>1
  <2> HIDE DEF s, r, u, t, b, c
  <2>6. CASE r' = r
    BY <1>i, <1>l, <2>2, <2>3, <2>5, <2>6
  <2>7. CASE r' = r - 1
    BY <1>i, <1>l, <2>2, <2>3, <2>5, <2>7
  <2> QED  BY <2>4, <2>6, <2>7
<1>7. ASSUME NEW w \in Workers, Spawn(w)  PROVE Left' < Left
  <2>1. /\ UNCHANGED <<main, tx, taken, results_ch>>
        /\ worker[w] = "unspawned" /\ worker' = [worker EXCEPT ![w] = "idle"]
    BY <1>7 DEF Spawn
  <2>2. s' = s /\ r' = r /\ t' = t /\ c' = c
    BY <1>2, <1>3, <2>1
  <2>3. u' = u - 1 /\ b' = b
    BY <2>1, MovesOn DEF Busy
  <2> HIDE DEF s, r, u, t, b, c
  <2> QED  BY <1>i, <1>l, <2>2, <2>3
<1>8. ASSUME NEW w \in Workers, Receive(w) \/ ReceiveQuit(w)
      PROVE  Left' < Left
  <2>1. /\ UNCHANGED <<main, tx, results_ch>>
        /\ taken' = taken + 1 /\ worker[w] = "idle"
    BY <1>8 DEF Receive, ReceiveQuit
  <2>2. s' = s /\ r' = r /\ t' = t - 1 /\ c' = c
    BY <1>1, <1>2, <1>3, <2>1
  <2>3. PICK to \in {"scanning", "exiting"} : worker' = [worker EXCEPT ![w] = to]
    BY <1>8 DEF Receive, ReceiveQuit
  <2>4. u' = u /\ b' = b + 1
    BY <2>1, <2>3, MovesOn DEF Busy
  <2> HIDE DEF s, r, u, t, b, c
  <2> QED  BY <1>i, <1>l, <2>2, <2>4
<1>9. ASSUME NEW w \in Workers, SendResult(w) \/ SendDone(w) \/ Panic(w)
      PROVE  Left' < Left
  <2>1. /\ UNCHANGED <<main, tx, taken>>
        /\ w \in Busy /\ worker[w] # "unspawned"
    BY <1>9 DEF SendResult, SendDone, Panic, Busy
  <2>2. s' = s /\ r' = r /\ t' = t
    BY <1>2, <1>3, <2>1
  <2>3. PICK to \in {"idle", "exited", "panicked"} :
            worker' = [worker EXCEPT ![w] = to]
    BY <1>9 DEF SendResult, SendDone, Panic
  <2>4. u' = u /\ b' = b - 1
    BY <2>1, <2>3, MovesOn
  <2>5. c' \in {c, c + 1}
    BY <1>9, SentResultIsLonger DEF IInv
  <2> HIDE DEF s, r, u, t, b, c
  <2>6. CASE c' = c
    BY <1>i, <1>l, <2>2, <2>4, <2>6
  <2>7. CASE c' = c + 1
    BY <1>i, <1>l, <2>2, <2>4, <2>7
  <2> QED  BY <2>5, <2>6, <2>7
<1> QED  BY <1>4, <1>5, <1>6, <1>7, <1>8, <1>9
         DEF Next, Main, Thread, Terminating

(***************************************************************************)
(* Left is a natural number, and every step but stuttering makes it        *)
(* smaller: no execution goes on for ever, with panics or without. With    *)
(* NeverStuck this is Termination up to what fairness adds, that something *)
(* which can go on does (scan.rs:77-160).                                  *)
(***************************************************************************)
THEOREM StepsRunOut == Spec => [](Left \in Nat) /\ [][Left' < Left]_vars
<1>1. ASSUME IInv, QuitsQueued, GoesOn  PROVE Left \in Nat
  <2> DEFINE all == NumTargets + Cardinality(Workers)
             s == all - Len(tx)
             r == Rank[main]
             u == Cardinality(Unspawned)
             t == all - taken
             b == Cardinality(Busy)
             c == Len(results_ch)
  <2>1. s \in Nat /\ t \in Nat
    BY <1>1, GoesOnFacts DEF GoesOn, QuitsQueued
  <2>2. r \in Nat /\ u \in Nat /\ b \in Nat /\ c \in Nat
    BY <1>1, GoesOnFacts DEF Rank
  <2>3. Left = s + r + u + 3 * t + 2 * b + c
    BY DEF Left
  <2> HIDE DEF s, r, u, t, b, c
  <2> QED  BY <2>1, <2>2, <2>3
<1>2. ASSUME IInv, QuitsQueued, GoesOn, [Next]_vars
      PROVE  GoesOn' /\ [Left' < Left]_vars
  <2>1. GoesOn'
    BY <1>2, StepGoesOn
  <2>2. CASE Next
    BY <1>2, <2>1, <2>2, StepLeft
  <2>3. CASE UNCHANGED vars
    BY <2>1, <2>3
  <2> QED  BY <1>2, <2>2, <2>3
<1> QED  BY <1>1, <1>2, InitGoesOn, ExitInvariance, PTL DEF Spec

-----------------------------------------------------------------------------
(***************************************************************************)
(* When every target has a host, scan_runner implements ScanPool: each     *)
(* step begins a scan, reports a result, finishes, or changes nothing the  *)
(* caller can tell (safety; a scan that panics stays "running").           *)
(***************************************************************************)
LEMMA StepAfterAll ==
    ASSUME EmptyHost = {}, IInv, ExitAfterAllTargets, [Next]_vars
    PROVE  ExitAfterAllTargets'
<1> SUFFICES ASSUME NEW w \in Workers, worker'[w] \in {"exiting", "exited"}
             PROVE  taken' > NumTargets
  BY DEF ExitAfterAllTargets
<1>1. Len(tx) \in Nat /\ taken \in Nat
  BY LenProperties DEF IInv, TypeOK
<1>2. CASE worker[w] \in {"exiting", "exited"}
  <2>1. taken > NumTargets
    BY <1>2 DEF ExitAfterAllTargets
  <2>2. taken' \in {taken, taken + 1}
    BY DEF Next, Main, Thread, Terminating, SendTarget, SendQuit,
           StartSpawning, StartCollecting, CollectResult, CollectDone, Spawn,
           Receive, ReceiveQuit, SendResult, Panic, SendDone, vars
  <2> QED  BY <1>1, <2>1, <2>2, RunnerAssumption
<1>3. CASE worker[w] \notin {"exiting", "exited"}
  <2>1. ReceiveQuit(w)
    BY <1>3 DEF IInv, TypeOK, Next, Main, Thread, Terminating, SendTarget,
           SendQuit, StartSpawning, StartCollecting, CollectResult,
           CollectDone, Spawn, Receive, ReceiveQuit, SendResult, Panic,
           SendDone, vars
  <2>2. tx[taken + 1] = Quit /\ taken' = taken + 1 /\ taken < Len(tx)
    BY <2>1 DEF ReceiveQuit, AsksToQuit
  <2> QED  BY <1>1, <2>2, RunnerAssumption DEF IInv, Queue, Quit
<1> QED  BY <1>2, <1>3

LEMMA ExitAfterAll ==
    ASSUME EmptyHost = {}
    PROVE  Spec => []ExitAfterAllTargets
<1>1. Init => ExitAfterAllTargets
  BY DEF Init, ExitAfterAllTargets
<1>2. IInv /\ ExitAfterAllTargets /\ [Next]_vars => ExitAfterAllTargets'
  BY StepAfterAll
<1> QED  BY <1>1, <1>2, Invariance, PTL DEF Spec

Held == {job[w] : w \in {v \in Workers : Scanning(v)}}
Sent == {results_ch[i].result : i \in InChannel}

LEMMA PoolStep ==
    ASSUME IInv, IInv', Drained', ExitAfterAllTargets', EmptyHost = {},
           [Next]_vars
    PROVE  [Pool!Next]_(Pool!vars)
<1> DEFINE pending == (taken + 1)..NumTargets
           running == Held \union Sent
           finished == main = "finished"
<1>t. /\ Len(tx) \in Nat /\ taken \in Nat /\ NumTargets \in Nat
      /\ worker \in [Workers -> {"unspawned", "idle", "scanning", "exiting",
                                 "exited", "panicked"}]
  BY LenProperties, RunnerAssumption DEF IInv, TypeOK
<1>s. ASSUME pending' = pending, running' = running, results' = results,
             finished' = finished
      PROVE  [Pool!Next]_(Pool!vars)
  BY <1>s DEF Held, Sent, Pool!vars
<1>n. ASSUME NEW t \in Target, Pool!Begin(t) \/ Pool!Report(t)
      PROVE  [Pool!Next]_(Pool!vars)
  BY <1>n, Zenon DEF Pool!Next
<1>q. ASSUME UNCHANGED <<job, taken, results_ch, results>>, finished' = finished,
             \A v \in Workers : Scanning(v)' = Scanning(v)
      PROVE  [Pool!Next]_(Pool!vars)
  <2>1. running' = running
    BY <1>q DEF Held, Sent, InChannel
  <2> QED  BY <1>q, <1>s, <2>1
<1>1. CASE SendTarget \/ SendQuit \/ StartSpawning \/ StartCollecting
           \/ UNCHANGED vars
  BY <1>1, <1>q DEF SendTarget, SendQuit, StartSpawning, StartCollecting, vars,
                    Scanning
<1>2. ASSUME NEW w \in Workers, Spawn(w) \/ Panic(w)
      PROVE  [Pool!Next]_(Pool!vars)
  <2>1. UNCHANGED <<job, taken, results_ch, results, main>>
    BY <1>2 DEF Spawn, Panic
  <2>2. \A v \in Workers : Scanning(v)' = Scanning(v)
    BY <1>2, <1>t DEF Spawn, Panic, Scanning
  <2> QED  BY <1>q, <2>1, <2>2
<1>3. ASSUME NEW w \in Workers, Receive(w)  PROVE [Pool!Next]_(Pool!vars)
  <2>1. tx[taken + 1] = taken + 1 /\ taken + 1 \in pending
    BY <1>3, <1>t DEF Receive, AsksToQuit, IInv, Queue
  <2>2. taken' = taken + 1 /\ UNCHANGED <<main, results, results_ch>>
    BY <1>3 DEF Receive
  <2>3. pending' = pending \ {taken + 1}
    BY <1>t, <2>2
  <2>4. /\ \A v \in Workers \ {w} : Scanning(v)' = Scanning(v) /\ job'[v] = job[v]
        /\ ~Scanning(w) /\ Scanning(w)' /\ job'[w] = taken + 1
    BY <1>3, <1>t, <2>1 DEF Receive, Scanning, IInv, TypeOK
  <2>5. Held' = Held \union {taken + 1} /\ Sent' = Sent
    BY <2>2, <2>4 DEF Held, Sent, InChannel
  <2>6. ~finished
    <3>1. worker[w] = "idle"
      BY <1>3 DEF Receive
    <3> QED  BY <3>1, FinishedDrained DEF Drained
  <2>7. PICK t \in Target : t = taken + 1
    BY <1>t, <2>1 DEF Target
  <2>8. Pool!Begin(t)
    BY <2>1, <2>2, <2>3, <2>5, <2>6, <2>7 DEF Pool!Begin, Held, Sent
  <2> QED  BY <1>n, <2>8
<1>4. ASSUME NEW w \in Workers, ReceiveQuit(w)  PROVE [Pool!Next]_(Pool!vars)
  <2>1. taken' = taken + 1 /\ taken + 1 > NumTargets
    BY <1>4, <1>t DEF ReceiveQuit, AsksToQuit, IInv, Queue, Quit
  <2>2. pending' = pending
    BY <1>t, <2>1
  <2>3. /\ UNCHANGED <<main, job, results, results_ch>>
        /\ \A v \in Workers : Scanning(v)' = Scanning(v)
    BY <1>4, <1>t DEF ReceiveQuit, Scanning
  <2>4. running' = running
    BY <2>3 DEF Held, Sent, InChannel
  <2> QED  BY <1>s, <2>2, <2>3, <2>4
<1>5. ASSUME NEW w \in Workers, SendResult(w)  PROVE [Pool!Next]_(Pool!vars)
  <2>1. /\ \A v \in Workers \ {w} : Scanning(v)' = Scanning(v) /\ job'[v] = job[v]
        /\ Scanning(w) /\ ~Scanning(w)'
    BY <1>5, <1>t DEF SendResult, Scanning, IInv, TypeOK
  <2>2. [from |-> w, result |-> job[w]] \in Message /\ job[w] # Done
    BY <2>1 DEF IInv, TypeOK, ExactlyOnce, Message, Done, Quit
  <2>3. /\ DOMAIN results_ch' = DOMAIN results_ch \union {Len(results_ch) + 1}
        /\ \A i \in DOMAIN results_ch : results_ch'[i] = results_ch[i]
        /\ Len(results_ch) + 1 \notin DOMAIN results_ch
        /\ results_ch'[Len(results_ch) + 1].result = job[w]
    BY <1>5, <2>2, SendFacts DEF SendResult, IInv, TypeOK
  <2>4. Sent' = Sent \union {job[w]}
    BY <2>2, <2>3 DEF Sent, InChannel
  <2>5. Held = Held' \union {job[w]}
    BY <2>1 DEF Held
  <2> QED  BY <1>5, <1>s, <2>4, <2>5 DEF SendResult
<1>6. ASSUME NEW w \in Workers, SendDone(w)  PROVE [Pool!Next]_(Pool!vars)
  <2>1. /\ UNCHANGED <<job, taken, results, main>>
        /\ \A v \in Workers : Scanning(v)' = Scanning(v)
    BY <1>6, <1>t DEF SendDone, Scanning
  <2>2. [from |-> w, result |-> Done] \in Message
    BY DEF Message
  <2>3. InChannel' = InChannel
        /\ \A i \in InChannel : results_ch'[i] = results_ch[i]
    BY <1>6, <2>2, SendFacts DEF SendDone, InChannel, IInv, TypeOK
  <2>4. running' = running
    BY <2>1, <2>3 DEF Held, Sent
  <2> QED  BY <1>s, <2>1, <2>4
<1>r. ASSUME results_ch # <<>>, results_ch' = Tail(results_ch)
      PROVE  Sent \subseteq Sent' \union {Head(results_ch).result}
             /\ Sent' \subseteq Sent
             /\ (Head(results_ch).result = Done => Sent' = Sent)
  <2> DEFINE n == Len(results_ch)
  <2>1. /\ n \in Nat \ {0}
        /\ DOMAIN results_ch = 1..n
        /\ DOMAIN results_ch' = 1..(n - 1)
        /\ \A i \in 1..(n - 1) : i + 1 \in 1..n /\ results_ch'[i] = results_ch[i + 1]
        /\ Head(results_ch) = results_ch[1]
    BY <1>r, RecvFacts DEF IInv, TypeOK
  <2>2. \A i \in InChannel : i # 1 =>
            i - 1 \in InChannel' /\ results_ch'[i - 1].result = results_ch[i].result
    BY <2>1 DEF InChannel
  <2>3. \A i \in InChannel' :
            i + 1 \in InChannel /\ results_ch'[i].result = results_ch[i + 1].result
    BY <2>1 DEF InChannel
  <2>4. Head(results_ch).result = Done => 1 \notin InChannel
    BY <2>1 DEF InChannel
  <2>5. Sent' \subseteq Sent
    BY <2>3 DEF Sent
  <2>6. ASSUME NEW i \in InChannel
        PROVE  results_ch[i].result \in Sent' \union {Head(results_ch).result}
    BY <2>1, <2>2 DEF Sent
  <2>7. ASSUME NEW i \in InChannel, i # 1  PROVE results_ch[i].result \in Sent'
    BY <2>2, <2>7 DEF Sent
  <2> QED  BY <2>4, <2>5, <2>6, <2>7 DEF Sent
<1>7. CASE CollectResult
  <2> DEFINE t == Head(results_ch).result
  <2>1. /\ t \in Target /\ t \in Sent
        /\ results_ch' = Tail(results_ch) /\ results_ch # <<>>
    <3>1. /\ 1 \in DOMAIN results_ch /\ results_ch[1] = Head(results_ch)
          /\ Head(results_ch) \in Message
      BY <1>7, RecvFacts DEF CollectResult, IInv, TypeOK
    <3> QED  BY <1>7, <3>1 DEF CollectResult, Sent, InChannel, Message
  <2>2. t \in {results'[i] : i \in DOMAIN results'}
    <3>1. results \in Seq(Target) /\ results' = Append(results, t)
      BY <1>7 DEF CollectResult, IInv, TypeOK
    <3>2. /\ Len(results) + 1 \in DOMAIN results'
          /\ results'[Len(results) + 1] = t
      BY <2>1, <3>1, SendFacts
    <3> QED  BY <3>2
  <2>3. t \notin Sent' /\ t \notin Held'
    BY <2>2 DEF IInv, ExactlyOnce, Sent, Held
  <2>4. Held' = Held /\ UNCHANGED <<taken, main>> /\ main = "collecting"
        /\ results' = Append(results, t)
    BY <1>7 DEF CollectResult, Held, Scanning
  <2>5. Sent' = Sent \ {t}
    BY <1>r, <2>1, <2>3
  <2>6. running' = running \ {t} /\ t \in running
    BY <2>1, <2>3, <2>4, <2>5
  <2>7. PICK u \in Target : u = t
    BY <2>1
  <2>8. Pool!Report(u)
    BY <2>4, <2>6, <2>7 DEF Pool!Report, Held, Sent
  <2> QED  BY <1>n, <2>8
<1>8. CASE CollectDone
  <2>1. /\ results_ch # <<>> /\ results_ch' = Tail(results_ch)
        /\ Head(results_ch).result = Done
        /\ UNCHANGED <<tx, taken, worker, job, results>> /\ main = "collecting"
    BY <1>8 DEF CollectDone
  <2>2. running' = running
    BY <1>r, <2>1 DEF Held, Scanning
  <2>3. CASE main' # "finished"
    BY <1>s, <2>1, <2>2, <2>3
  <2>4. CASE main' = "finished"
    <3>1. results_ch' = <<>> /\ \A w \in Workers : worker'[w] = "exited"
      BY <2>4 DEF Drained
    <3>2. \E w \in Workers : TRUE
      BY <2>1, RecvFacts DEF IInv, TypeOK, Message
    <3>3. taken' > NumTargets
      BY <3>1, <3>2 DEF ExitAfterAllTargets
    <3>4. pending = {} /\ pending' = {}
      BY <1>t, <2>1, <3>3
    <3>5. InChannel' = {} /\ \A w \in Workers : ~Scanning(w)'
      BY <3>1 DEF InChannel, Scanning
    <3>6. running' = {}
      BY <3>5 DEF Held, Sent
    <3>7. Pool!Finish
      BY <2>1, <2>2, <2>4, <3>4, <3>6 DEF Pool!Finish, Held, Sent
    <3> QED  BY <3>7 DEF Pool!Next
  <2> QED  BY <2>3, <2>4
<1> QED  BY <1>1, <1>2, <1>3, <1>4, <1>5, <1>6, <1>7, <1>8
         DEF Next, Main, Thread, Terminating

(***************************************************************************)
(* A runner whose targets all have a host implements the safety part of    *)
(* ScanPool (scan.rs:55-180): what the channels and threads do is a step   *)
(* of the pool or none.                                                    *)
(***************************************************************************)
THEOREM Implements ==
    ASSUME EmptyHost = {}
    PROVE  Spec => Pool!Spec
<1>1. Init => Pool!Init
  <2> SUFFICES ASSUME Init  PROVE Pool!Init
    OBVIOUS
  <2>1. /\ InChannel = {} /\ \A w \in Workers : ~Scanning(w)
        /\ taken + 1 = 1
    BY DEF Init, InChannel, Scanning
  <2> QED  BY <2>1 DEF Init, Pool!Init, Target
<1>2. IInv /\ IInv' /\ Drained' /\ ExitAfterAllTargets' /\ [Next]_vars
        => [Pool!Next]_(Pool!vars)
  BY PoolStep
<1> QED  BY <1>1, <1>2, Invariance, ReturnsDrained, ExitAfterAll, PTL
         DEF Spec, Pool!Spec
=============================================================================
