------------------------- MODULE OutputFiles_proofs -------------------------
(***************************************************************************)
(* Proofs about OutputFiles, for any number of scans, runs of pqcdump,     *)
(* names, blocks and inputs: what each program may find in a file it       *)
(* wrote, or means to write, while the others go on; and that a report has *)
(* all results of its inputs, by induction over them.                      *)
(***************************************************************************)
EXTENDS OutputFiles, FiniteSetTheorems, SequenceTheorems, WellFoundedInduction,
        TLAPS

Blocks == (Document \union {Absent}) \X Nat

\* The first k blocks of a document.
Prefix(d, k) == [j \in 1..k |-> Block(d, j)]

Typing ==
    /\ content \in [Name -> Seq(Blocks) \union {Absent}]
    /\ scan \in [Scans -> {"scanned", "writing", "said written", "ended"}]
    /\ block \in [Scans -> Nat]
    /\ \A s \in Scans : block[s] <= Length[s]
    /\ written \in Nat /\ written <= Length[Report]
    /\ DumpTypeOK

\* A file that is being written is there, and so is every name passed over.
Existing ==
    /\ \A s \in Scans :
        scan[s] \in {"writing", "said written"} => Exists(OutputOf[s])
    /\ report = "writing" => Exists(Output)
    /\ \A d \in Dumps : dump[d] \in {"writing", "done"} => Exists(Path(d))
    /\ TakesFirstFree

OneHolder ==
    \A d, e \in Dumps :
        dump[d] \in {"writing", "done"} /\ dump[e] \in {"writing", "done"}
        /\ Path(d) = Path(e) => d = e

\* The file of the report is as it was, and then a prefix of the report.
OutputState ==
    /\ report = "reading" => written = 0
    /\ ~Shared =>
        /\ report \in {"reading", "refused"} => content[Output] = before[Output]
        /\ report = "writing" => content[Output] = Prefix(Report, written)
        /\ report = "written" => content[Output] = Prefix(Report, Length[Report])

\* The file of a scan is as it was, or a prefix of the results.
ResultState ==
    \A s \in Scans :
        /\ scan[s] = "scanned" =>
            block[s] = 0 /\ content[OutputOf[s]] = before[OutputOf[s]]
        /\ scan[s] \in {"writing", "said written"} =>
            content[OutputOf[s]] = Prefix(s, block[s])
        /\ scan[s] = "ended" =>
            \/ block[s] = 0 /\ content[OutputOf[s]] = before[OutputOf[s]]
            \/ content[OutputOf[s]] = Prefix(s, block[s])

\* What was there at first is no document of a scan.
BeforeOK ==
    \A n \in Name : before[n] = Absent
                    \/ \E d \in Document \ Scans : before[n] = Whole(d)

IInv == Typing /\ Existing /\ OneHolder /\ OutputState /\ ResultState /\ BeforeOK

-----------------------------------------------------------------------------
(* Files. *)

LEMMA NoFile == Absent \notin Seq(Blocks)
<1>1. Absent \notin Seq((Document \union {Absent}) \X Nat)
  BY FileAssumption
<1>. QED  BY <1>1 DEF Blocks

LEMMA PrefixIsSeq ==
    ASSUME NEW d \in Document, NEW k \in Nat
    PROVE  /\ Prefix(d, k) \in Seq(Blocks)
           /\ Len(Prefix(d, k)) = k
           /\ \A j \in 1..k : Prefix(d, k)[j] = <<d, j>>
<1>1. \A j \in 1..k : Block(d, j) \in Blocks /\ Block(d, j) = <<d, j>>
  BY DEF Blocks, Block
<1>. QED  BY <1>1 DEF Prefix

LEMMA WholeIsPrefix ==
    ASSUME NEW d \in Document
    PROVE  Length[d] \in Nat \ {0} /\ Whole(d) = Prefix(d, Length[d])
BY FileAssumption DEF Whole, Prefix

LEMMA WholesDiffer ==
    ASSUME NEW d \in Document, NEW e \in Document, Whole(d) = Whole(e)
    PROVE  d = e
<1>1. ASSUME NEW c \in Document PROVE Whole(c)[1] = <<c, 1>>
  <2>1. Length[c] \in Nat /\ 1 \in 1..Length[c]
    BY WholeIsPrefix
  <2>2. Prefix(c, Length[c])[1] = <<c, 1>>
    BY <2>1, PrefixIsSeq
  <2>. QED  BY <2>2, WholeIsPrefix
<1>. QED  BY <1>1

LEMMA CreateStep ==
    ASSUME Typing, NEW n \in Name, Create(n)
    PROVE  /\ content' \in [Name -> Seq(Blocks) \union {Absent}]
           /\ content'[n] = <<>>
           /\ \A m \in Name : m # n => content'[m] = content[m]
           /\ \A m \in Name : Exists(m) => Exists(m)'
           /\ Exists(n)'
<1>1. <<>> \in Seq(Blocks)
  BY EmptySeq
<1>2. <<>> # Absent
  BY <1>1, NoFile
<1>. QED  BY <1>1, <1>2 DEF Typing, Create, Exists

LEMMA WriteStep ==
    ASSUME Typing, NEW n \in Name, Exists(n), NEW d \in Document,
           NEW i \in Nat \ {0}, WriteAt(n, d, i)
    PROVE  /\ content' \in [Name -> Seq(Blocks) \union {Absent}]
           /\ \A m \in Name : m # n => content'[m] = content[m]
           /\ \A m \in Name : Exists(m) => Exists(m)'
<1>. DEFINE f == content[n]
            k == IF i > Len(f) THEN i ELSE Len(f)
            g == [j \in 1..k |-> IF j = i THEN Block(d, i)
                                 ELSE IF j <= Len(f) THEN f[j] ELSE Hole]
<1>1. f \in Seq(Blocks)
  BY DEF Typing, Exists
<1>2. k \in Nat
  BY <1>1
<1>3. \A j \in 1..k : g[j] \in Blocks
  <2>. SUFFICES ASSUME NEW j \in 1..k PROVE g[j] \in Blocks
    OBVIOUS
  <2>1. Block(d, i) \in Blocks /\ Hole \in Blocks
    BY DEF Block, Blocks, Hole
  <2>2. j <= Len(f) => f[j] \in Blocks
    BY <1>1, <1>2
  <2>. QED  BY <2>1, <2>2
<1>4. g \in Seq(Blocks) /\ g # Absent
  <2>1. g \in [1..k -> Blocks]
    BY <1>3
  <2>2. g \in Seq(Blocks)
    BY <1>2, <2>1
  <2>. QED  BY <2>2, NoFile
<1>5. content' = [content EXCEPT ![n] = g]
  BY DEF WriteAt
<1>. HIDE DEF g
<1>. QED  BY <1>4, <1>5 DEF Typing, Exists

\* A document that is written in order grows by one block.
LEMMA WriteNext ==
    ASSUME Typing, NEW n \in Name, NEW d \in Document, NEW k \in Nat,
           content[n] = Prefix(d, k), WriteAt(n, d, k + 1)
    PROVE  content'[n] = Prefix(d, k + 1)
<1>1. Len(Prefix(d, k)) = k /\ \A j \in 1..k : Prefix(d, k)[j] = Block(d, j)
  BY PrefixIsSeq DEF Block
<1>2. content'[n] =
        [j \in 1..(IF k + 1 > Len(Prefix(d, k)) THEN k + 1 ELSE Len(Prefix(d, k))) |->
            IF j = k + 1 THEN Block(d, k + 1)
            ELSE IF j <= Len(Prefix(d, k)) THEN Prefix(d, k)[j] ELSE Hole]
  BY DEF WriteAt, Typing
<1>3. content'[n] = [j \in 1..(k + 1) |->
            IF j = k + 1 THEN Block(d, k + 1)
            ELSE IF j <= k THEN Prefix(d, k)[j] ELSE Hole]
  BY <1>1, <1>2
<1>4. \A j \in 1..(k + 1) :
        (IF j = k + 1 THEN Block(d, k + 1)
         ELSE IF j <= k THEN Prefix(d, k)[j] ELSE Hole) = Block(d, j)
  BY <1>1
<1>. QED  BY <1>3, <1>4 DEF Prefix

-----------------------------------------------------------------------------
(* The constants. *)

LEMMA Names ==
    /\ \A s \in Scans : s \in Document /\ OutputOf[s] \in Name /\ OutputOf[s] # Output
    /\ \A s, t \in Scans : s # t => OutputOf[s] # OutputOf[t]
    /\ Report \in Document /\ Output \in Name
    /\ Dumps \subseteq Document
    /\ \A i \in DOMAIN Candidates : Candidates[i] \in Name
BY ReportAssumption, UniqueAssumption

LEMMA Paths ==
    ASSUME Typing, NEW d \in Dumps
    PROVE  /\ Path(d) \in Name /\ d \in Document
           /\ attempt[d] \in DOMAIN Candidates
           /\ \A s \in Scans : OutputOf[s] # Path(d)
<1>1. attempt[d] \in DOMAIN Candidates
  BY DEF Typing, DumpTypeOK
<1>. QED  BY <1>1, Names, Apart DEF Path

-----------------------------------------------------------------------------
(* Scans. *)

\* What a step of scan s does: its own file, and nothing else, is written.
LEMMA ScanEffect ==
    ASSUME IInv, NEW s \in Scans, ScanStep(s)
    PROVE  /\ content' \in [Name -> Seq(Blocks) \union {Absent}]
           /\ \A m \in Name : m # OutputOf[s] => content'[m] = content[m]
           /\ \A m \in Name : Exists(m) => Exists(m)'
           /\ scan' \in [Scans -> {"scanned", "writing", "said written", "ended"}]
           /\ block' \in [Scans -> Nat]
           /\ block'[s] <= Length[s]
           /\ \A t \in Scans : t # s => scan'[t] = scan[t] /\ block'[t] = block[t]
           /\ scan'[s] \in {"writing", "said written"} => Exists(OutputOf[s])'
           /\ scan'[s] # "scanned"
           /\ scan'[s] \in {"writing", "said written"} =>
                content'[OutputOf[s]] = Prefix(s, block'[s])
           /\ scan'[s] = "ended" =>
                \/ block'[s] = 0 /\ content'[OutputOf[s]] = before[OutputOf[s]]
                \/ content'[OutputOf[s]] = Prefix(s, block'[s])
<1>. DEFINE n == OutputOf[s]
<1>1. s \in Document /\ n \in Name /\ Length[s] \in Nat \ {0}
  BY Names, WholeIsPrefix
<1>2. /\ Typing
      /\ content \in [Name -> Seq(Blocks) \union {Absent}]
      /\ scan \in [Scans -> {"scanned", "writing", "said written", "ended"}]
  BY DEF IInv, Typing
<1>b. /\ block \in [Scans -> Nat]
      /\ block[s] \in Nat /\ block[s] <= Length[s]
      /\ Length[s] \in Nat \ {0}
  BY <1>1 DEF IInv, Typing
<1>3. /\ scan[s] = "scanned" => block[s] = 0 /\ content[n] = before[n]
      /\ scan[s] \in {"writing", "said written"} =>
            content[n] = Prefix(s, block[s]) /\ Exists(n)
      /\ scan[s] = "ended" => \/ block[s] = 0 /\ content[n] = before[n]
                              \/ content[n] = Prefix(s, block[s])
  BY DEF IInv, ResultState, Existing
<1>. HIDE DEF n
<1>4. CASE CreateResultFile(s)
  <2>1. /\ Create(n) /\ scan[s] = "scanned"
        /\ scan' = [scan EXCEPT ![s] = "writing"] /\ block' = block
    BY <1>4 DEF CreateResultFile, n
  <2>2. /\ content' \in [Name -> Seq(Blocks) \union {Absent}]
        /\ content'[n] = <<>>
        /\ \A m \in Name : m # n => content'[m] = content[m]
        /\ \A m \in Name : Exists(m) => Exists(m)'
        /\ Exists(n)'
    BY <1>1, <1>2, <2>1, CreateStep
  <2>3. block'[s] = 0 /\ content'[n] = Prefix(s, block'[s])
    BY <1>3, <2>1, <2>2 DEF Prefix
  <2>. QED  BY <1>1, <1>2, <1>b, <2>1, <2>2, <2>3 DEF n
<1>5. ASSUME scan[s] \in {"writing", "said written"}, block[s] < Length[s],
             WriteAt(n, s, block[s] + 1), block' = [block EXCEPT ![s] = @ + 1]
      PROVE  /\ content' \in [Name -> Seq(Blocks) \union {Absent}]
             /\ \A m \in Name : m # n => content'[m] = content[m]
             /\ \A m \in Name : Exists(m) => Exists(m)'
             /\ block' \in [Scans -> Nat] /\ block'[s] <= Length[s]
             /\ \A t \in Scans : t # s => block'[t] = block[t]
             /\ content'[n] = Prefix(s, block'[s])
             /\ Exists(n)'
  <2>0. block' = [block EXCEPT ![s] = block[s] + 1] /\ block[s] < Length[s]
    BY <1>5
  <2>1. block[s] + 1 \in Nat \ {0} /\ block'[s] = block[s] + 1
    <3>1. block'[s] = block[s] + 1
      BY <1>b, <2>0
    <3>2. block[s] + 1 \in Nat \ {0}
      BY <1>b
    <3>. QED  BY <3>1, <3>2
  <2>2. /\ content' \in [Name -> Seq(Blocks) \union {Absent}]
        /\ \A m \in Name : m # n => content'[m] = content[m]
        /\ \A m \in Name : Exists(m) => Exists(m)'
    BY <1>1, <1>2, <1>3, <1>5, <2>1, WriteStep
  <2>3. content'[n] = Prefix(s, block[s] + 1)
    BY <1>1, <1>2, <1>3, <1>b, <1>5, WriteNext
  <2>4. block' \in [Scans -> Nat] /\ block'[s] <= Length[s]
    <3>1. block' \in [Scans -> Nat]
      BY <1>b, <2>0, <2>1
    <3>. QED  BY <1>b, <2>0, <2>1, <3>1
  <2>5. \A t \in Scans : t # s => block'[t] = block[t]
    BY <1>b, <1>5
  <2>6. Exists(n)'
    BY <1>1, <1>3, <1>5, <2>2
  <2>. QED  BY <2>1, <2>2, <2>3, <2>4, <2>5, <2>6
<1>6. CASE WriteBlock(s)
  <2>1. /\ scan[s] = "writing" /\ scan' = scan /\ block[s] < Length[s]
        /\ WriteAt(n, s, block[s] + 1) /\ block' = [block EXCEPT ![s] = @ + 1]
    BY <1>b, <1>6 DEF WriteBlock, n
  <2>. QED  BY <1>2, <1>b, <1>5, <2>1 DEF n
<1>7. CASE SayWritten(s)
  <2>1. /\ scan[s] = "writing" /\ scan' = [scan EXCEPT ![s] = "said written"]
        /\ content' = content /\ block' = block
    BY <1>7 DEF SayWritten
  <2>. QED  BY <1>2, <1>b, <1>3, <2>1 DEF n, Exists
<1>8. CASE DropWriter(s)
  <2>1. /\ scan[s] \in {"writing", "said written"} /\ block[s] < Length[s]
        /\ scan' = [scan EXCEPT ![s] = "ended"]
        /\ \/ WriteAt(n, s, block[s] + 1) /\ block' = [block EXCEPT ![s] = @ + 1]
           \/ content' = content /\ block' = block
    BY <1>8 DEF DropWriter, n
  <2>2. CASE WriteAt(n, s, block[s] + 1) /\ block' = [block EXCEPT ![s] = @ + 1]
    BY <1>2, <1>b, <1>5, <2>1, <2>2 DEF n
  <2>3. CASE content' = content /\ block' = block
    BY <1>2, <1>b, <1>3, <2>1, <2>3 DEF n, Exists
  <2>. QED  BY <2>1, <2>2, <2>3
<1>9. CASE ScanEnds(s)
  <2>1. /\ scan[s] # "ended" /\ scan' = [scan EXCEPT ![s] = "ended"]
        /\ content' = content /\ block' = block
    BY <1>9 DEF ScanEnds
  <2>. QED  BY <1>2, <1>b, <1>3, <2>1 DEF n, Exists
<1>. QED  BY <1>4, <1>6, <1>7, <1>8, <1>9 DEF ScanStep

-----------------------------------------------------------------------------
(* create_report. *)

\* What a step of create_report does to the files.
ReportDid ==
    /\ content' \in [Name -> Seq(Blocks) \union {Absent}]
    /\ \A m \in Name : m # Output => content'[m] = content[m]
    /\ \A m \in Name : Exists(m) => Exists(m)'
    /\ written' \in Nat /\ written' <= Length[Report]
    /\ report' = "reading" => written' = 0
    /\ report' = "writing" => Exists(Output)'
    /\ ~Shared =>
        /\ report' \in {"reading", "refused"} => content'[Output] = before[Output]
        /\ report' = "writing" => content'[Output] = Prefix(Report, written')
        /\ report' = "written" => content'[Output] = Prefix(Report, Length[Report])

LEMMA ReportEffect ==
    ASSUME IInv, ReportStep
    PROVE  ReportDid
<1>. USE DEF ReportDid
<1>1. Report \in Document /\ Output \in Name /\ Length[Report] \in Nat \ {0}
  BY Names, WholeIsPrefix
<1>2. /\ Typing
      /\ content \in [Name -> Seq(Blocks) \union {Absent}]
  BY DEF IInv, Typing
<1>b. written \in Nat /\ written <= Length[Report]
  BY DEF IInv, Typing
<1>3. /\ report = "reading" => written = 0
      /\ report = "writing" => Exists(Output)
      /\ ~Shared =>
            /\ report \in {"reading", "refused"} => content[Output] = before[Output]
            /\ report = "writing" => content[Output] = Prefix(Report, written)
            /\ report = "written" => content[Output] = Prefix(Report, Length[Report])
  BY DEF IInv, OutputState, Existing
<1>4. ASSUME content' = content, written' = written,
             \/ report = "reading" /\ report' \in {"reading", "refused"}
             \/ report' = "broke off"
      PROVE  ReportDid
  BY <1>2, <1>b, <1>3, <1>4 DEF Exists
<1>5. CASE CreateReport
  <2>1. /\ report = "reading" /\ report' = "writing" /\ written' = written
        /\ Create(Output)
    BY <1>5 DEF CreateReport
  <2>2. /\ content' \in [Name -> Seq(Blocks) \union {Absent}]
        /\ content'[Output] = <<>>
        /\ \A m \in Name : m # Output => content'[m] = content[m]
        /\ \A m \in Name : Exists(m) => Exists(m)'
        /\ Exists(Output)'
    BY <1>1, <1>2, <2>1, CreateStep
  <2>3. written' = 0 /\ content'[Output] = Prefix(Report, written')
    BY <1>3, <2>1, <2>2 DEF Prefix
  <2>. QED  BY <1>b, <2>1, <2>2, <2>3
<1>6. ASSUME report = "writing", report' \in {"writing", "broke off"},
             written < Length[Report], written' = written + 1,
             WriteAt(Output, Report, written + 1)
      PROVE  ReportDid
  <2>2. written + 1 \in Nat \ {0} /\ written' \in Nat /\ written' <= Length[Report]
    <3>1. written < Length[Report] /\ written' = written + 1
      BY <1>6
    <3>. QED  BY <1>1, <1>b, <3>1
  <2>3. /\ content' \in [Name -> Seq(Blocks) \union {Absent}]
        /\ \A m \in Name : m # Output => content'[m] = content[m]
        /\ \A m \in Name : Exists(m) => Exists(m)'
    BY <1>1, <1>2, <1>3, <1>6, <2>2, WriteStep
  <2>4. ~Shared => content'[Output] = Prefix(Report, written + 1)
    BY <1>1, <1>2, <1>b, <1>3, <1>6, WriteNext
  <2>. QED  BY <1>1, <1>3, <1>6, <2>2, <2>3, <2>4
<1>7. CASE SayReported
  <2>1. /\ content' = content /\ written' = written /\ written = Length[Report]
        /\ report = "writing" /\ report' = "written"
    BY <1>7 DEF SayReported
  <2>. QED  BY <1>2, <1>b, <1>3, <2>1 DEF Exists
<1>8. CASE ReportFails
  <2>1. CASE content' = content /\ written' = written
    BY <1>4, <1>8, <2>1 DEF ReportFails
  <2>2. CASE ~(content' = content /\ written' = written)
    BY <1>6, <1>8, <2>2 DEF ReportFails
  <2>. QED  BY <2>1, <2>2
<1>9. CASE ReadInput \/ RefuseInput
  BY <1>4, <1>9 DEF ReadInput, RefuseInput
<1>10. CASE WriteReport
  BY <1>6, <1>10 DEF WriteReport
<1>. QED  BY <1>5, <1>7, <1>8, <1>9, <1>10 DEF ReportStep

-----------------------------------------------------------------------------
(* pqcdump. *)

\* What a step of run d of pqcdump does to the files and to the other runs.
LEMMA DumpEffect ==
    ASSUME IInv, NEW d \in Dumps, DumpStep(d)
    PROVE  /\ content' \in [Name -> Seq(Blocks) \union {Absent}]
           /\ \A m \in Name : m # Path(d) => content'[m] = content[m]
           /\ \A m \in Name : Exists(m) => Exists(m)'
           /\ content' = content
              \/ (dump'[d] = "writing" /\ attempt' = attempt)
           /\ DumpTypeOK'
           /\ \A e \in Dumps : e # d =>
                dump'[e] = dump[e] /\ attempt'[e] = attempt[e] /\ at'[e] = at[e]
           /\ dump[d] \notin {"writing", "done", "failed"}
              \/ (/\ dump'[d] \in {"writing", "done", "failed"}
                  /\ attempt'[d] = attempt[d])
           /\ dump'[d] \in {"writing", "done"} =>
                /\ attempt'[d] = attempt[d] /\ Exists(Path(d))'
                /\ dump[d] \in {"writing", "done"} \/ ~Exists(Path(d))
           /\ \A i \in 1..(attempt'[d] - 1) : Exists(Candidates[i])'
           /\ dump'[d] = "gave up" =>
                \A i \in DOMAIN Candidates : Exists(Candidates[i])'
           /\ \A m \in Name : Exists(m) /\ content'[m] # content[m] =>
                dump[d] = "writing" /\ Path(d) = m /\ dump' = dump /\ attempt' = attempt
                /\ at'[d] # at[d]
<1>1. Path(d) \in Name /\ d \in Document /\ Length[d] \in Nat \ {0}
  BY Paths, WholeIsPrefix DEF IInv
<1>2. Typing /\ content \in [Name -> Seq(Blocks) \union {Absent}]
  BY DEF IInv, Typing
<1>3. /\ dump \in [Dumps -> {"naming", "writing", "done", "failed", "gave up"}]
      /\ attempt \in [Dumps -> DOMAIN Candidates]
      /\ at \in [Dumps -> Nat]
      /\ \A e \in Dumps : at[e] <= Length[e]
  BY DEF IInv, Typing, DumpTypeOK
<1>4. /\ dump[d] \in {"writing", "done"} => Exists(Path(d))
      /\ \A i \in 1..(attempt[d] - 1) : Exists(Candidates[i])
      /\ dump[d] = "gave up" => \A i \in DOMAIN Candidates : Exists(Candidates[i])
  BY DEF IInv, Existing, TakesFirstFree
<1>5. /\ DOMAIN Candidates = 1..Len(Candidates) /\ Len(Candidates) \in Nat
      /\ \A i \in DOMAIN Candidates : Candidates[i] \in Name
  BY UniqueAssumption
<1>6. attempt[d] \in DOMAIN Candidates /\ Path(d) = Candidates[attempt[d]]
  BY <1>3 DEF Path
<1>a. attempt[d] \in Nat /\ attempt[d] \in 1..Len(Candidates)
  BY <1>5, <1>6
<1>7. CASE Take(d)
  <2>1. /\ dump[d] = "naming" /\ ~Exists(Path(d)) /\ Create(Path(d))
        /\ dump' = [dump EXCEPT ![d] = "writing"] /\ attempt' = attempt /\ at' = at
    BY <1>7 DEF Take, CreateNew, Create
  <2>2. /\ content' \in [Name -> Seq(Blocks) \union {Absent}]
        /\ \A m \in Name : m # Path(d) => content'[m] = content[m]
        /\ \A m \in Name : Exists(m) => Exists(m)'
        /\ content'[Path(d)] # Absent
    BY <1>1, <1>2, <2>1, CreateStep DEF Exists
  <2>3. DumpTypeOK'
    BY <1>3, <2>1 DEF DumpTypeOK
  <2>4. /\ dump'[d] = "writing" /\ Path(d)' = Path(d)
        /\ \A e \in Dumps : e # d => dump'[e] = dump[e]
    BY <1>3, <2>1 DEF Path
  <2>5. \A i \in 1..(attempt'[d] - 1) : Exists(Candidates[i])'
    BY <1>4, <1>5, <1>6, <2>1, <2>2
  <2>6. Exists(Path(d))'
    BY <2>2, <2>4 DEF Exists
  <2>. QED  BY <2>1, <2>2, <2>3, <2>4, <2>5, <2>6
<1>8. CASE NextName(d)
  <2>1. /\ dump[d] = "naming" /\ Exists(Path(d)) /\ content' = content /\ at' = at
        /\ \/ /\ attempt[d] < Len(Candidates)
              /\ attempt' = [attempt EXCEPT ![d] = @ + 1] /\ dump' = dump
           \/ /\ attempt[d] >= Len(Candidates)
              /\ attempt' = attempt /\ dump' = [dump EXCEPT ![d] = "gave up"]
    <3>1. /\ dump[d] = "naming" /\ Exists(Path(d)) /\ content' = content /\ at' = at
          /\ IF attempt[d] < Len(Candidates)
             THEN attempt' = [attempt EXCEPT ![d] = @ + 1] /\ dump' = dump
             ELSE dump' = [dump EXCEPT ![d] = "gave up"] /\ attempt' = attempt
      BY <1>8 DEF NextName
    <3>2. attempt[d] < Len(Candidates) \/ attempt[d] >= Len(Candidates)
      BY <1>5, <1>a
    <3>. QED  BY <1>5, <1>a, <3>1, <3>2
  <2>2. \A i \in 1..attempt[d] : Exists(Candidates[i])
    <3>. SUFFICES ASSUME NEW i \in 1..attempt[d] PROVE Exists(Candidates[i])
      OBVIOUS
    <3>1. i = attempt[d] \/ i \in 1..(attempt[d] - 1)
      BY <1>5, <1>6
    <3>. QED  BY <1>4, <1>6, <2>1, <3>1
  <2>3. CASE /\ attempt[d] < Len(Candidates)
             /\ attempt' = [attempt EXCEPT ![d] = @ + 1] /\ dump' = dump
    <3>1. attempt' = [attempt EXCEPT ![d] = attempt[d] + 1]
      BY <2>3
    <3>2. attempt[d] + 1 \in DOMAIN Candidates
      BY <1>5, <1>6, <2>3
    <3>3. /\ attempt' \in [Dumps -> DOMAIN Candidates] /\ attempt'[d] = attempt[d] + 1
          /\ \A e \in Dumps : e # d => attempt'[e] = attempt[e]
      BY <1>3, <3>1, <3>2
    <3>4. DumpTypeOK'
      BY <1>3, <2>1, <2>3, <3>3 DEF DumpTypeOK
    <3>5. 1..(attempt'[d] - 1) = 1..attempt[d]
      BY <1>5, <1>6, <3>3
    <3>6. dump'[d] = "naming"
      BY <2>1, <2>3
    <3>7. \A i \in 1..(attempt'[d] - 1) : Exists(Candidates[i])'
      BY <2>1, <2>2, <3>5 DEF Exists
    <3>8. content' = content /\ at' = at /\ dump' = dump /\ dump[d] = "naming"
      BY <2>1, <2>3
    <3>9. \A m \in Name : Exists(m) => Exists(m)'
      BY <3>8 DEF Exists
    <3>. QED  BY <1>2, <3>3, <3>4, <3>6, <3>7, <3>8, <3>9
  <2>4. CASE /\ attempt[d] >= Len(Candidates)
             /\ attempt' = attempt /\ dump' = [dump EXCEPT ![d] = "gave up"]
    <3>1. /\ dump' \in [Dumps -> {"naming", "writing", "done", "failed", "gave up"}]
          /\ dump'[d] = "gave up" /\ \A e \in Dumps : e # d => dump'[e] = dump[e]
      BY <1>3, <2>4
    <3>2. DOMAIN Candidates \subseteq 1..attempt[d]
      <4>1. attempt[d] = Len(Candidates)
        <5>1. attempt[d] >= Len(Candidates)
          BY <2>4
        <5>. QED  BY <1>5, <1>a, <5>1
      <4>. QED  BY <1>5, <4>1
    <3>3. DumpTypeOK'
      BY <1>3, <2>1, <2>4, <3>1 DEF DumpTypeOK
    <3>. QED  BY <1>2, <1>4, <2>1, <2>2, <2>4, <3>1, <3>2, <3>3 DEF Exists
  <2>. QED  BY <2>1, <2>3, <2>4
<1>9. CASE WritePage(d)
  <2>1. /\ dump[d] = "writing" /\ at[d] < Length[d] /\ dump' = dump
        /\ attempt' = attempt /\ at' = [at EXCEPT ![d] = at[d] + 1]
        /\ WriteAt(Path(d), d, at[d] + 1)
    BY <1>9 DEF WritePage
  <2>2. at[d] \in Nat /\ at[d] + 1 \in Nat \ {0} /\ at[d] + 1 <= Length[d]
    <3>1. at[d] \in Nat
      BY <1>3
    <3>. QED  BY <1>1, <2>1, <3>1
  <2>3. /\ content' \in [Name -> Seq(Blocks) \union {Absent}]
        /\ \A m \in Name : m # Path(d) => content'[m] = content[m]
        /\ \A m \in Name : Exists(m) => Exists(m)'
    BY <1>1, <1>2, <1>4, <2>1, <2>2, WriteStep
  <2>4. /\ at' \in [Dumps -> Nat] /\ at'[d] = at[d] + 1
        /\ \A e \in Dumps : e # d => at'[e] = at[e]
    BY <1>3, <2>1, <2>2
  <2>5. \A e \in Dumps : at'[e] <= Length[e]
    BY <1>3, <2>2, <2>4
  <2>6. DumpTypeOK'
    BY <1>3, <2>1, <2>4, <2>5 DEF DumpTypeOK
  <2>7. Path(d)' = Path(d) /\ Exists(Path(d))'
    BY <1>1, <1>4, <2>1, <2>3 DEF Path, Exists
  <2>8. \A i \in 1..(attempt'[d] - 1) : Exists(Candidates[i])'
    BY <1>4, <1>5, <1>6, <2>1, <2>3
  <2>9. at'[d] # at[d]
    BY <2>2, <2>4
  <2>. QED  BY <2>1, <2>3, <2>4, <2>6, <2>7, <2>8, <2>9
<1>10. CASE PageWritten(d) \/ DumpFails(d)
  <2>1. /\ content' = content /\ attempt' = attempt /\ at' = at
        /\ \/ dump[d] = "writing" /\ dump' = [dump EXCEPT ![d] = "done"]
           \/ dump' = [dump EXCEPT ![d] = "failed"]
    BY <1>10 DEF PageWritten, DumpFails
  <2>2. /\ dump' \in [Dumps -> {"naming", "writing", "done", "failed", "gave up"}]
        /\ dump'[d] \in {"done", "failed"}
        /\ dump'[d] = "done" => dump[d] = "writing"
        /\ \A e \in Dumps : e # d => dump'[e] = dump[e]
    BY <1>3, <2>1
  <2>3. DumpTypeOK'
    BY <1>3, <2>1, <2>2 DEF DumpTypeOK
  <2>. QED  BY <1>2, <1>4, <2>1, <2>2, <2>3 DEF Exists, Path
<1>. QED  BY <1>7, <1>8, <1>9, <1>10 DEF DumpStep

-----------------------------------------------------------------------------
(* The invariant. *)

LEMMA PassedOver ==
    ASSUME DumpTypeOK, NEW d \in Dumps
    PROVE  1..(attempt[d] - 1) \subseteq DOMAIN Candidates
<1>1. attempt[d] \in DOMAIN Candidates
  BY DEF DumpTypeOK
<1>2. DOMAIN Candidates = 1..Len(Candidates) /\ Len(Candidates) \in Nat
  BY UniqueAssumption
<1>. QED  BY <1>1, <1>2

LEMMA InitHolds == Init => IInv
<1>. SUFFICES ASSUME Init PROVE IInv
  OBVIOUS
<1>. USE DEF Init, FilesInit, ReportInit, DumpInit
<1>1. PICK there \in SUBSET DOMAIN Before :
        content = [n \in Name |-> IF n \in there THEN Whole(Before[n]) ELSE Absent]
  OBVIOUS
<1>2. \A d \in Document : Whole(d) \in Seq(Blocks)
  BY WholeIsPrefix, PrefixIsSeq
<1>3. \A n \in DOMAIN Before : Before[n] \in Document \ Scans
  BY FileAssumption, ReportAssumption
<1>4. /\ content \in [Name -> Seq(Blocks) \union {Absent}]
      /\ \A n \in Name : content[n] = Absent
                        \/ \E d \in Document \ Scans : content[n] = Whole(d)
  BY <1>1, <1>2, <1>3
<1>5. \A d \in Document : 0 <= Length[d] /\ Length[d] \in Nat
  BY WholeIsPrefix
<1>6. 1 \in DOMAIN Candidates
  BY UniqueAssumption, EmptySeq
<1>7. DumpTypeOK
  BY <1>5, <1>6, Names DEF DumpTypeOK
<1>8. Typing
  <2>1. 0 <= Length[Report] /\ \A s \in Scans : 0 <= Length[s]
    BY <1>5, Names
  <2>. QED  BY <1>4, <1>7, <2>1 DEF Typing
<1>9. Existing
  <2>1. \A d \in Dumps : 1..(attempt[d] - 1) = {}
    OBVIOUS
  <2>. QED  BY <2>1 DEF Existing, TakesFirstFree
<1>10. OneHolder /\ BeforeOK
  BY <1>4 DEF OneHolder, BeforeOK
<1>11. OutputState /\ ResultState
  BY Names DEF OutputState, ResultState
<1>. QED  BY <1>8, <1>9, <1>10, <1>11 DEF IInv

\* Names passed over stay taken whatever program makes the step.
LEMMA StillPassedOver ==
    ASSUME IInv, UNCHANGED dumps, \A m \in Name : Exists(m) => Exists(m)'
    PROVE  /\ TakesFirstFree' /\ DumpTypeOK' /\ OneHolder'
           /\ \A d \in Dumps : dump[d] \in {"writing", "done"} => Exists(Path(d))'
           /\ Shared' <=> Shared
<1>1. dump' = dump /\ attempt' = attempt /\ at' = at
  BY DEF dumps
<1>2. DumpTypeOK /\ TakesFirstFree /\ OneHolder
  BY DEF IInv, Typing, Existing
<1>3. DumpTypeOK' /\ OneHolder' /\ (Shared' <=> Shared)
  BY <1>1, <1>2 DEF DumpTypeOK, OneHolder, Shared, Path
<1>4. TakesFirstFree'
  <2>1. \A d \in Dumps : 1..(attempt[d] - 1) \subseteq DOMAIN Candidates
    BY <1>2, PassedOver
  <2>. QED  BY <1>1, <1>2, <2>1, Names DEF TakesFirstFree
<1>5. \A d \in Dumps : dump[d] \in {"writing", "done"} => Exists(Path(d))'
  <2>. SUFFICES ASSUME NEW d \in Dumps, dump[d] \in {"writing", "done"}
                PROVE  Exists(Path(d))'
    OBVIOUS
  <2>1. Path(d) \in Name /\ Path(d)' = Path(d)
    BY <1>1, Paths DEF IInv, Path
  <2>2. Exists(Path(d))
    BY DEF IInv, Existing
  <2>. QED  BY <2>1, <2>2 DEF Exists
<1>. QED  BY <1>3, <1>4, <1>5

LEMMA ScanPreserves ==
    ASSUME IInv, NEW s \in Scans, ScanStep(s), UNCHANGED <<reporting, dumps, before>>
    PROVE  IInv'
<1>1. /\ content' \in [Name -> Seq(Blocks) \union {Absent}]
      /\ \A m \in Name : m # OutputOf[s] => content'[m] = content[m]
      /\ \A m \in Name : Exists(m) => Exists(m)'
      /\ scan' \in [Scans -> {"scanned", "writing", "said written", "ended"}]
      /\ block' \in [Scans -> Nat]
      /\ block'[s] <= Length[s]
      /\ \A t \in Scans : t # s => scan'[t] = scan[t] /\ block'[t] = block[t]
      /\ scan'[s] \in {"writing", "said written"} => Exists(OutputOf[s])'
      /\ scan'[s] # "scanned"
      /\ scan'[s] \in {"writing", "said written"} =>
            content'[OutputOf[s]] = Prefix(s, block'[s])
      /\ scan'[s] = "ended" =>
            \/ block'[s] = 0 /\ content'[OutputOf[s]] = before[OutputOf[s]]
            \/ content'[OutputOf[s]] = Prefix(s, block'[s])
  BY ScanEffect
<1>2. /\ report' = report /\ written' = written /\ before' = before
      /\ UNCHANGED dumps
  BY DEF reporting
<1>3. /\ TakesFirstFree' /\ DumpTypeOK' /\ OneHolder'
      /\ \A d \in Dumps : dump[d] \in {"writing", "done"} => Exists(Path(d))'
      /\ Shared' <=> Shared
  BY <1>1, <1>2, StillPassedOver
<1>4. Typing'
  BY <1>1, <1>2, <1>3 DEF IInv, Typing
<1>5. Existing'
  <2>1. \A t \in Scans : scan'[t] \in {"writing", "said written"} =>
            Exists(OutputOf[t])'
    BY <1>1, Names DEF IInv, Existing
  <2>2. report' = "writing" => Exists(Output)'
    BY <1>1, <1>2, Names DEF IInv, Existing
  <2>. QED  BY <1>2, <1>3, <2>1, <2>2 DEF Existing, dumps
<1>6. OutputState'
  <2>1. content'[Output] = content[Output]
    BY <1>1, Names
  <2>. QED  BY <1>2, <1>3, <2>1 DEF IInv, OutputState
<1>7. ResultState'
  <2>. SUFFICES ASSUME NEW t \in Scans
       PROVE  /\ scan'[t] = "scanned" =>
                    block'[t] = 0 /\ content'[OutputOf[t]] = before[OutputOf[t]]
              /\ scan'[t] \in {"writing", "said written"} =>
                    content'[OutputOf[t]] = Prefix(t, block'[t])
              /\ scan'[t] = "ended" =>
                    \/ block'[t] = 0 /\ content'[OutputOf[t]] = before[OutputOf[t]]
                    \/ content'[OutputOf[t]] = Prefix(t, block'[t])
    BY <1>2 DEF ResultState, Prefix, Block
  <2>1. CASE t = s
    BY <1>1, <2>1
  <2>2. CASE t # s
    <3>1. content'[OutputOf[t]] = content[OutputOf[t]]
      BY <1>1, <2>2, Names
    <3>. QED  BY <1>1, <2>2, <3>1 DEF IInv, ResultState
  <2>. QED  BY <2>1, <2>2
<1>8. BeforeOK'
  BY <1>2 DEF IInv, BeforeOK, Whole, Block
<1>. QED  BY <1>3, <1>4, <1>5, <1>6, <1>7, <1>8 DEF IInv

LEMMA ReportPreserves ==
    ASSUME IInv, ReportStep, UNCHANGED <<scans, dumps, before>>
    PROVE  IInv'
<1>1. /\ content' \in [Name -> Seq(Blocks) \union {Absent}]
      /\ \A m \in Name : m # Output => content'[m] = content[m]
      /\ \A m \in Name : Exists(m) => Exists(m)'
      /\ written' \in Nat /\ written' <= Length[Report]
      /\ report' = "reading" => written' = 0
      /\ report' = "writing" => Exists(Output)'
      /\ ~Shared =>
            /\ report' \in {"reading", "refused"} => content'[Output] = before[Output]
            /\ report' = "writing" => content'[Output] = Prefix(Report, written')
            /\ report' = "written" =>
                content'[Output] = Prefix(Report, Length[Report])
  BY ReportEffect DEF ReportDid
<1>2. scan' = scan /\ block' = block /\ before' = before /\ UNCHANGED dumps
  BY DEF scans
<1>3. /\ TakesFirstFree' /\ DumpTypeOK' /\ OneHolder'
      /\ \A d \in Dumps : dump[d] \in {"writing", "done"} => Exists(Path(d))'
      /\ Shared' <=> Shared
  BY <1>1, <1>2, StillPassedOver
<1>4. Typing'
  BY <1>1, <1>2, <1>3 DEF IInv, Typing
<1>5. Existing'
  BY <1>1, <1>2, <1>3, Names DEF IInv, Existing, dumps
<1>6. OutputState'
  BY <1>1, <1>2, <1>3 DEF OutputState
<1>7. ResultState'
  <2>1. \A t \in Scans : content'[OutputOf[t]] = content[OutputOf[t]]
    BY <1>1, Names
  <2>. QED  BY <1>2, <2>1 DEF IInv, ResultState
<1>8. BeforeOK'
  BY <1>2 DEF IInv, BeforeOK
<1>. QED  BY <1>3, <1>4, <1>5, <1>6, <1>7, <1>8 DEF IInv

LEMMA DumpPreserves ==
    ASSUME IInv, NEW d \in Dumps, DumpStep(d), UNCHANGED <<scans, reporting, before>>
    PROVE  IInv'
<1>1. /\ content' \in [Name -> Seq(Blocks) \union {Absent}]
      /\ \A m \in Name : m # Path(d) => content'[m] = content[m]
      /\ \A m \in Name : Exists(m) => Exists(m)'
      /\ content' = content \/ (dump'[d] = "writing" /\ attempt' = attempt)
      /\ DumpTypeOK'
      /\ \A e \in Dumps : e # d =>
            dump'[e] = dump[e] /\ attempt'[e] = attempt[e] /\ at'[e] = at[e]
      /\ \/ dump[d] \notin {"writing", "done", "failed"}
         \/ /\ dump'[d] \in {"writing", "done", "failed"}
            /\ attempt'[d] = attempt[d]
      /\ dump'[d] \in {"writing", "done"} =>
            /\ attempt'[d] = attempt[d] /\ Exists(Path(d))'
            /\ dump[d] \in {"writing", "done"} \/ ~Exists(Path(d))
      /\ \A i \in 1..(attempt'[d] - 1) : Exists(Candidates[i])'
      /\ dump'[d] = "gave up" => \A i \in DOMAIN Candidates : Exists(Candidates[i])'
  BY DumpEffect
<1>2. /\ scan' = scan /\ block' = block /\ before' = before
      /\ report' = report /\ written' = written
  BY DEF scans, reporting
<1>3. Typing /\ DumpTypeOK /\ Existing /\ OneHolder /\ TakesFirstFree
  BY DEF IInv, Typing, Existing
<1>4. Typing'
  BY <1>1, <1>2, <1>3 DEF Typing
<1>5. \A e \in Dumps : e # d => Path(e) \in Name /\ Path(e)' = Path(e)
  BY <1>1, <1>3, Paths DEF Path
<1>6. TakesFirstFree'
  <2>. SUFFICES ASSUME NEW e \in Dumps
       PROVE  /\ \A i \in 1..(attempt'[e] - 1) : Exists(Candidates[i])'
              /\ dump'[e] = "gave up" =>
                    \A i \in DOMAIN Candidates : Exists(Candidates[i])'
    BY DEF TakesFirstFree, Exists
  <2>1. CASE e = d
    BY <1>1, <2>1
  <2>2. CASE e # d
    <3>1. 1..(attempt[e] - 1) \subseteq DOMAIN Candidates
      BY <1>3, PassedOver
    <3>2. dump'[e] = dump[e] /\ attempt'[e] = attempt[e]
      BY <1>1, <2>2
    <3>. QED  BY <1>1, <1>3, <3>1, <3>2, Names DEF TakesFirstFree
  <2>. QED  BY <2>1, <2>2
<1>7. \A e \in Dumps : dump'[e] \in {"writing", "done"} => Exists(Path(e))'
  <2>. SUFFICES ASSUME NEW e \in Dumps, dump'[e] \in {"writing", "done"}
                PROVE  Exists(Path(e))'
    OBVIOUS
  <2>1. CASE e = d
    BY <1>1, <2>1
  <2>2. CASE e # d
    <3>1. Exists(Path(e)) /\ Path(e) \in Name /\ Path(e)' = Path(e)
      BY <1>1, <1>3, <1>5, <2>2 DEF Existing
    <3>. QED  BY <1>1, <3>1 DEF Exists
  <2>. QED  BY <2>1, <2>2
<1>8. Existing'
  BY <1>1, <1>2, <1>3, <1>6, <1>7, Names DEF Existing
<1>9. OneHolder'
  <2>. SUFFICES ASSUME NEW e \in Dumps, NEW f \in Dumps, e # f,
                       dump'[e] \in {"writing", "done"},
                       dump'[f] \in {"writing", "done"}, Path(e)' = Path(f)'
                PROVE  FALSE
    BY DEF OneHolder
  <2>1. CASE e # d /\ f # d
    <3>1. Path(e) = Path(f) /\ dump[e] = dump'[e] /\ dump[f] = dump'[f]
      BY <1>1, <1>5, <2>1
    <3>. QED  BY <1>3, <3>1 DEF OneHolder
  <2>2. ASSUME NEW g \in Dumps, g # d, dump'[g] \in {"writing", "done"},
               Path(g)' = Path(d)', dump'[d] \in {"writing", "done"}
        PROVE  FALSE
    <3>1. Path(d)' = Path(d) /\ Path(g) = Path(d) /\ dump[g] \in {"writing", "done"}
      BY <1>1, <1>5, <2>2 DEF Path
    <3>2. Exists(Path(d))
      BY <1>3, <3>1 DEF Existing
    <3>3. dump[d] \in {"writing", "done"}
      BY <1>1, <2>2, <3>2
    <3>. QED  BY <1>3, <2>2, <3>1, <3>3 DEF OneHolder
  <2>. QED  BY <2>1, <2>2
<1>10. OutputState'
  <2>1. Shared => Shared'
    <3>. SUFFICES ASSUME NEW e \in Dumps, Path(e) = Output,
                         dump[e] \in {"writing", "done", "failed"}
                  PROVE  Path(e)' = Output /\ dump'[e] \in {"writing", "done", "failed"}
      BY DEF Shared
    <3>. QED  BY <1>1 DEF Path
  <2>2. ~Shared' => content'[Output] = content[Output]
    <3>. SUFFICES ASSUME content'[Output] # content[Output] PROVE Shared'
      OBVIOUS
    <3>1. Output = Path(d) /\ dump'[d] = "writing" /\ attempt' = attempt
      BY <1>1, Names
    <3>. QED  BY <3>1 DEF Shared, Path
  <2>. QED  BY <1>2, <2>1, <2>2 DEF IInv, OutputState
<1>11. ResultState'
  <2>1. \A t \in Scans : content'[OutputOf[t]] = content[OutputOf[t]]
    BY <1>1, <1>3, Names, Paths
  <2>. QED  BY <1>2, <2>1 DEF IInv, ResultState
<1>12. BeforeOK'
  BY <1>2 DEF IInv, BeforeOK
<1>. QED  BY <1>4, <1>8, <1>9, <1>10, <1>11, <1>12 DEF IInv

LEMMA NextHolds == IInv /\ [Next]_vars => IInv'
<1>. SUFFICES ASSUME IInv, [Next]_vars PROVE IInv'
  OBVIOUS
<1>1. CASE (\E s \in Scans : ScanStep(s)) /\ UNCHANGED <<reporting, dumps, before>>
  BY <1>1, ScanPreserves
<1>2. CASE ReportStep /\ UNCHANGED <<scans, dumps, before>>
  BY <1>2, ReportPreserves
<1>3. CASE (\E d \in Dumps : DumpStep(d)) /\ UNCHANGED <<scans, reporting, before>>
  BY <1>3, DumpPreserves
<1>4. CASE UNCHANGED vars
  <2>1. /\ UNCHANGED dumps /\ content' = content /\ scan' = scan /\ block' = block
        /\ report' = report /\ written' = written /\ before' = before
    BY <1>4 DEF vars, scans, reporting
  <2>2. \A m \in Name : Exists(m) => Exists(m)'
    BY <2>1 DEF Exists
  <2>3. /\ TakesFirstFree' /\ DumpTypeOK' /\ OneHolder'
        /\ \A d \in Dumps : dump[d] \in {"writing", "done"} => Exists(Path(d))'
        /\ Shared' <=> Shared
    BY <2>1, <2>2, StillPassedOver
  <2>4. Typing'
    BY <2>1, <2>3 DEF IInv, Typing
  <2>5. Existing'
    BY <2>1, <2>2, <2>3, Names DEF IInv, Existing, dumps
  <2>6. OutputState' /\ ResultState' /\ BeforeOK'
    BY <2>1, <2>3 DEF IInv, OutputState, ResultState, BeforeOK
  <2>. QED  BY <2>3, <2>4, <2>5, <2>6 DEF IInv
<1>. QED  BY <1>1, <1>2, <1>3, <1>4 DEF Next

\* The files and the programs stay in step, whoever moves.
THEOREM Invariant == Spec => []IInv
<1>. QED  BY InitHolds, NextHolds, PTL DEF Spec

-----------------------------------------------------------------------------
(* What follows. *)

\* Whatever names a run of pqcdump finds taken, it tries them all in order
\* before it gives up (report.rs:30-44).
THEOREM TriesEveryName == Spec => []TakesFirstFree
<1>1. IInv => TakesFirstFree
  BY DEF IInv, Existing
<1>. QED  BY <1>1, Invariant, PTL

\* A report that was refused has not touched an older one (main.rs:169-181).
THEOREM RefusalIsHarmless == Spec => []RefusedKeepsOutput
<1>1. IInv => RefusedKeepsOutput
  BY DEF IInv, OutputState, RefusedKeepsOutput
<1>. QED  BY <1>1, Invariant, PTL

\* "Report created successfully" is true when it is said (main.rs:779).
THEOREM SuccessIsTrue == Spec => []SuccessMeansWhole
<1>1. IInv => SuccessMeansWhole
  BY Names, WholeIsPrefix DEF IInv, OutputState, SuccessMeansWhole
<1>. QED  BY <1>1, Invariant, PTL

\* A result file holds the old results, or does not parse, or holds them all
\* (main.rs:800-807).
THEOREM ResultsAreWhole == Spec => []OldOrNewResults
<1>1. ASSUME IInv, NEW s \in Scans
      PROVE  LET f == content[OutputOf[s]]
             IN  /\ scan[s] = "scanned" => f = before[OutputOf[s]]
                 /\ block[s] = Length[s] => f = Whole(s)
                 /\ f = Whole(s) => block[s] = Length[s]
  <2>. DEFINE f == content[OutputOf[s]]
  <2>1. /\ s \in Document /\ OutputOf[s] \in Name
        /\ Length[s] \in Nat \ {0} /\ Whole(s) = Prefix(s, Length[s])
        /\ block[s] \in Nat
    BY <1>1, Names, WholeIsPrefix DEF IInv, Typing
  <2>2. /\ scan[s] = "scanned" => block[s] = 0 /\ f = before[OutputOf[s]]
        /\ \/ block[s] = 0 /\ f = before[OutputOf[s]]
           \/ f = Prefix(s, block[s])
    BY <1>1 DEF IInv, Typing, ResultState
  <2>3. before[OutputOf[s]] # Whole(s)
    <3>1. \A d \in Document \ Scans : Whole(d) # Whole(s)
      BY <2>1, WholesDiffer
    <3>2. Absent # Whole(s)
      BY <2>1, NoFile, PrefixIsSeq
    <3>. QED  BY <1>1, <2>1, <3>1, <3>2 DEF IInv, BeforeOK
  <2>4. f = Prefix(s, block[s]) /\ f = Whole(s) => block[s] = Length[s]
    <3>1. Len(Prefix(s, block[s])) = block[s]
      BY <2>1, PrefixIsSeq
    <3>2. Len(Whole(s)) = Length[s]
      BY <2>1, PrefixIsSeq
    <3>. QED  BY <3>1, <3>2
  <2>. QED  BY <2>1, <2>2, <2>3, <2>4
<1>2. IInv => OldOrNewResults
  BY <1>1 DEF OldOrNewResults
<1>. QED  BY <1>2, Invariant, PTL

\* A run of pqcdump changes no file but the one it made, and makes none that
\* was there (report.rs:12-45).
THEOREM OthersFilesAreKept == Spec => KeepsOthersFiles
<1>. DEFINE Kept == \A n \in Name :
                Exists(n) /\ content'[n] # content[n] =>
                    \E d \in Dumps :
                        at'[d] # at[d] /\ {e \in Dumps : Holds(e, n)} = {d}
<1>1. ASSUME IInv, NEW d \in Dumps, DumpStep(d) PROVE Kept
  <2>. SUFFICES ASSUME NEW n \in Name, Exists(n), content'[n] # content[n]
                PROVE  at'[d] # at[d] /\ {e \in Dumps : Holds(e, n)} = {d}
    OBVIOUS
  <2>1. dump[d] = "writing" /\ Path(d) = n /\ at'[d] # at[d]
    BY <1>1, DumpEffect
  <2>2. \A e \in Dumps : Holds(e, n) => e = d
    BY <1>1, <2>1 DEF IInv, OneHolder, Holds
  <2>. QED  BY <2>1, <2>2 DEF Holds
<1>2. IInv /\ [Next]_vars => [dumps' # dumps => Kept]_<<content, dumps>>
  <2>1. UNCHANGED vars => UNCHANGED <<content, dumps>>
    BY DEF vars
  <2>2. ASSUME IInv, Next, dumps' # dumps PROVE Kept
    <3>1. PICK d \in Dumps : DumpStep(d)
      BY <2>2 DEF Next
    <3>. QED  BY <1>1, <2>2, <3>1
  <2>. QED  BY <2>1, <2>2
<1>. QED  BY <1>2, Invariant, PTL DEF Spec, KeepsOthersFiles

-----------------------------------------------------------------------------
(* Induction, of a set in place of a predicate, and counting. *)

\* The number of places of s that hold an element of V.
Tally(V, s) == Cardinality({i \in DOMAIN s : s[i] \in V})

\* The natural numbers by induction, of a set in place of a predicate.
LEMMA Induct ==
    ASSUME NEW T, T \subseteq Nat, 0 \in T, \A n \in T : n + 1 \in T
    PROVE  T = Nat
<1>. DEFINE R == OpToRel(<, Nat)
            U == Nat \ T
<1>1. IsWellFoundedOn(R, Nat)
  BY NatLessThanWellFounded
<1>2. \A x, y \in Nat : <<y, x>> \in R <=> y < x
  BY DEF OpToRel
<1>. HIDE DEF R
<1>3. SUFFICES ASSUME U # {} PROVE FALSE
  OBVIOUS
<1>4. PICK x \in U : \A y \in U : ~(<<y, x>> \in R)
  BY <1>1, <1>3, WFMin
<1>5. x # 0 /\ x \in Nat
  OBVIOUS
<1>6. x - 1 \in Nat /\ x - 1 < x
  BY <1>5
<1>7. x - 1 \in T
  BY <1>2, <1>4, <1>6
<1>. QED
  BY <1>5, <1>6, <1>7

\* A tally is a number.
LEMMA TallyNat ==
    ASSUME NEW V, NEW X, NEW s \in Seq(X)
    PROVE  /\ IsFiniteSet({i \in DOMAIN s : s[i] \in V})
           /\ Tally(V, s) \in Nat
<1>1. IsFiniteSet(1..Len(s))
  BY FS_Interval
<1>2. {i \in DOMAIN s : s[i] \in V} \in SUBSET (1..Len(s))
  OBVIOUS
<1>3. IsFiniteSet({i \in DOMAIN s : s[i] \in V})
  BY <1>1, <1>2, FS_Subset
<1>. QED  BY <1>3, FS_CardinalityType DEF Tally

LEMMA TallyEmpty ==
    ASSUME NEW V
    PROVE  Tally(V, <<>>) = 0
<1>1. {i \in DOMAIN <<>> : <<>>[i] \in V} = {}
  OBVIOUS
<1>. QED  BY <1>1, FS_EmptySet DEF Tally

LEMMA TallyAppend ==
    ASSUME NEW V, NEW X, NEW s \in Seq(X), NEW x \in X
    PROVE  Tally(V, Append(s, x)) = Tally(V, s) + (IF x \in V THEN 1 ELSE 0)
<1>. DEFINE S == {i \in DOMAIN s : s[i] \in V}
            T == {i \in DOMAIN Append(s, x) : Append(s, x)[i] \in V}
            n == Len(s) + 1
<1>1. IsFiniteSet(S) /\ Cardinality(S) \in Nat
  BY TallyNat DEF Tally
<1>2. Tally(V, s) = Cardinality(S) /\ Tally(V, Append(s, x)) = Cardinality(T)
  BY DEF Tally
<1>3. n \notin S
  OBVIOUS
<1>4. x \in V => T = S \union {n}
  OBVIOUS
<1>5. x \notin V => T = S
  OBVIOUS
<1>6. Cardinality(S \union {n}) = Cardinality(S) + 1
  BY <1>1, <1>3, FS_AddElement
<1>. HIDE DEF S, T, n
<1>7. CASE x \in V
  BY <1>1, <1>2, <1>4, <1>6, <1>7
<1>8. CASE x \notin V
  BY <1>1, <1>2, <1>5, <1>8
<1>. QED  BY <1>7, <1>8

\* What two sequences hold of V is what they hold together.
LEMMA TallyConcat ==
    ASSUME NEW V, NEW X, NEW s \in Seq(X), NEW t \in Seq(X)
    PROVE  Tally(V, s \o t) = Tally(V, s) + Tally(V, t)
<1>. DEFINE G == {n \in Nat : \A u \in Seq(X) : Len(u) = n =>
                    Tally(V, s \o u) = Tally(V, s) + Tally(V, u)}
<1>1. 0 \in G
  <2>1. \A u \in Seq(X) : Len(u) = 0 => u = <<>> /\ s \o u = s
    OBVIOUS
  <2>2. Tally(V, s) \in Nat /\ Tally(V, <<>>) = 0
    BY TallyEmpty, TallyNat
  <2>3. \A u \in Seq(X) : Len(u) = 0 =>
            Tally(V, u) = 0 /\ Tally(V, s \o u) = Tally(V, s)
    BY <2>1, <2>2
  <2>. QED  BY <2>2, <2>3
<1>2. ASSUME NEW n \in G PROVE n + 1 \in G
  <2>. SUFFICES ASSUME NEW u \in Seq(X), Len(u) = n + 1
                PROVE  Tally(V, s \o u) = Tally(V, s) + Tally(V, u)
    OBVIOUS
  <2>. DEFINE f == [i \in 1..n |-> u[i]]
              x == u[n + 1]
  <2>1. f \in Seq(X) /\ Len(f) = n /\ x \in X /\ u = Append(f, x)
    <3>1. f \in Seq(X) /\ Len(f) = n /\ x \in X
      OBVIOUS
    <3>2. Append(f, x) \in Seq(X) /\ Len(Append(f, x)) = n + 1
      BY <3>1
    <3>3. \A i \in 1..(n+1) : u[i] = Append(f, x)[i]
      BY <3>1
    <3>. QED  BY <3>1, <3>2, <3>3
  <2>. HIDE DEF f, x
  <2>2. s \o u = Append(s \o f, x) /\ s \o f \in Seq(X)
    BY <2>1, ConcatAssociative, AppendIsConcat
  <2>3. Tally(V, s \o f) = Tally(V, s) + Tally(V, f)
    BY <2>1
  <2>4. Tally(V, s) \in Nat /\ Tally(V, f) \in Nat
    BY <2>1, TallyNat
  <2>5. Tally(V, u) = Tally(V, f) + (IF x \in V THEN 1 ELSE 0)
    BY <2>1, TallyAppend
  <2>6. Tally(V, s \o u) = Tally(V, s \o f) + (IF x \in V THEN 1 ELSE 0)
    <3>. DEFINE g == s \o f
    <3>. HIDE DEF g
    <3>1. g \in Seq(X) /\ x \in X
      BY <2>1, <2>2 DEF g
    <3>2. Tally(V, Append(g, x)) = Tally(V, g) + (IF x \in V THEN 1 ELSE 0)
      BY <3>1, TallyAppend
    <3>. QED  BY <2>2, <3>2 DEF g
  <2>. QED  BY <2>3, <2>4, <2>5, <2>6
<1>. HIDE DEF G
<1>3. G = Nat
  <2>1. G \subseteq Nat BY DEF G
  <2>. QED BY <1>1, <1>2, <2>1, Induct
<1>. QED  BY <1>3 DEF G

LEMMA TallySubset ==
    ASSUME NEW X, NEW s \in Seq(X), NEW V, NEW W, V \intersect X \subseteq W
    PROVE  Tally(V, s) <= Tally(W, s)
<1>1. {i \in DOMAIN s : s[i] \in V} \in SUBSET {i \in DOMAIN s : s[i] \in W}
  OBVIOUS
<1>2. IsFiniteSet({i \in DOMAIN s : s[i] \in W})
  BY TallyNat
<1>. QED  BY <1>1, <1>2, FS_Subset DEF Tally

LEMMA TallySplit ==
    ASSUME NEW X, NEW s \in Seq(X), NEW V, NEW W, V \intersect W = {}
    PROVE  Tally(V \union W, s) = Tally(V, s) + Tally(W, s)
<1>. DEFINE S == {i \in DOMAIN s : s[i] \in V}
            T == {i \in DOMAIN s : s[i] \in W}
<1>1. {i \in DOMAIN s : s[i] \in V \union W} = S \union T
      /\ S \intersect T = {}
  OBVIOUS
<1>2. IsFiniteSet(S) /\ IsFiniteSet(T)
  BY TallyNat
<1>3. Cardinality(S) \in Nat /\ Cardinality(T) \in Nat
  BY <1>2, FS_CardinalityType
<1>. HIDE DEF S, T
<1>4. Cardinality(S \union T) = Cardinality(S) + Cardinality(T)
  <2>1. Cardinality(S \union T)
            = Cardinality(S) + Cardinality(T) - Cardinality(S \intersect T)
    BY <1>2, FS_Union
  <2>2. Cardinality(S \intersect T) = 0
    BY <1>1, FS_EmptySet
  <2>. QED  BY <1>3, <2>1, <2>2
<1>. QED  BY <1>1, <1>4 DEF Tally, S, T

-----------------------------------------------------------------------------
(* Folds and flattened sequences. *)

LEMMA MaxOf ==
    ASSUME NEW t, NEW n \in Nat, n \in t, t \subseteq 1..n
    PROVE  Max(t) = n
<1>1. \A y \in t : n >= y
  OBVIOUS
<1>2. \A x \in t : (\A y \in t : x >= y) => x = n
  <2>. SUFFICES ASSUME NEW x \in t, \A y \in t : x >= y
                PROVE  x = n
    OBVIOUS
  <2>1. x >= n /\ x \in 1..n
    OBVIOUS
  <2>. QED  BY <2>1
<1>. QED  BY <1>1, <1>2 DEF Max

\* it[t] is the fold, in order, of the elements of s whose indices are in t.
FoldsSets(it, F, base, s, n) ==
    \A t \in SUBSET (1..n) :
        it[t] = IF t = {} THEN base ELSE F[<<it[t \ {Max(t)}], s[Max(t)]>>]

\* The recursion that FoldLeft is defined by has a solution.
LEMMA SetFold ==
    ASSUME NEW D, NEW E, NEW F \in [D \X E -> D], NEW base \in D,
           NEW n \in Nat, NEW s \in [1..n -> E]
    PROVE  \E it \in [SUBSET (1..n) -> D] : FoldsSets(it, F, base, s, n)
<1>. DEFINE Solvable(k) ==
                \E it \in [SUBSET (1..k) -> D] : FoldsSets(it, F, base, s, k)
            G == {k \in Nat : k <= n => Solvable(k)}
<1>1. Solvable(0)
  <2>. DEFINE it == [t \in SUBSET (1..0) |-> base]
  <2>1. it \in [SUBSET (1..0) -> D] /\ FoldsSets(it, F, base, s, 0)
    BY DEF FoldsSets
  <2>. HIDE DEF it
  <2>. QED  BY <2>1
<1>2. ASSUME NEW k \in Nat, k + 1 <= n, Solvable(k) PROVE Solvable(k + 1)
  <2>. DEFINE m == k + 1
  <2>1. k <= n /\ m \in 1..n /\ s[m] \in E /\ m \in Nat
    BY <1>2
  <2>2. PICK it \in [SUBSET (1..k) -> D] : FoldsSets(it, F, base, s, k)
    BY <1>2
  <2>. DEFINE ju == [t \in SUBSET (1..m) |->
                    IF m \in t THEN F[<<it[t \ {m}], s[m]>>] ELSE it[t]]
  <2>3. \A t \in SUBSET (1..m) : t \ {m} \in SUBSET (1..k)
                              /\ (m \notin t => t \in SUBSET (1..k))
    BY <2>1
  <2>4. ju \in [SUBSET (1..m) -> D]
    BY <2>1, <2>3
  <2>5. ASSUME NEW t \in SUBSET (1..m)
        PROVE  ju[t] = IF t = {} THEN base
                       ELSE F[<<ju[t \ {Max(t)}], s[Max(t)]>>]
    <3>1. CASE m \in t
      <4>1. Max(t) = m
        <5>1. t \subseteq 1..m
          OBVIOUS
        <5>. HIDE DEF m
        <5>. QED  BY <2>1, <3>1, <5>1, MaxOf
      <4>2. ju[t \ {m}] = it[t \ {m}]
        BY <2>3
      <4>3. ju[t] = F[<<it[t \ {m}], s[m]>>]
        BY <3>1
      <4>. QED  BY <3>1, <4>1, <4>2, <4>3
    <3>2. CASE m \notin t
      <4>1. t \in SUBSET (1..k) /\ t \in SUBSET (1..m) /\ ju[t] = it[t]
        BY <2>3, <3>2
      <4>2. t \ {Max(t)} \in SUBSET (1..k) /\ t \ {Max(t)} \in SUBSET (1..m)
        BY <4>1
      <4>3. ju[t \ {Max(t)}] = it[t \ {Max(t)}]
        BY <2>1, <3>2, <4>2
      <4>4. it[t] = IF t = {} THEN base
                    ELSE F[<<it[t \ {Max(t)}], s[Max(t)]>>]
        BY <2>2, <4>1 DEF FoldsSets
      <4>. QED  BY <4>1, <4>3, <4>4
    <3>. QED  BY <3>1, <3>2
  <2>. HIDE DEF ju, m
  <2>6. FoldsSets(ju, F, base, s, m)
    BY <2>5 DEF FoldsSets
  <2>. QED  BY <2>4, <2>6 DEF m
<1>. HIDE DEF Solvable
<1>3. G = Nat
  <2>1. G \subseteq Nat /\ 0 \in G
    BY <1>1
  <2>2. ASSUME NEW k \in G PROVE k + 1 \in G
    BY <1>2
  <2>. HIDE DEF G
  <2>. QED  BY <2>1, <2>2, Induct
<1>4. Solvable(n)
  BY <1>3
<1>. QED  BY <1>4 DEF Solvable

\* f[i] is the fold of the first i elements of s.
FoldsSeq(f, F, base, s, n) ==
    f[0] = base /\ \A i \in 1..n : f[i] = F[<<f[i - 1], s[i]>>]

LEMMA SeqFold ==
    ASSUME NEW D, NEW E, NEW F \in [D \X E -> D], NEW base \in D,
           NEW n \in Nat, NEW s \in [1..n -> E]
    PROVE  \E f \in [0..n -> D] : FoldsSeq(f, F, base, s, n)
<1>1. PICK it \in [SUBSET (1..n) -> D] : FoldsSets(it, F, base, s, n)
  BY SetFold
<1>. DEFINE f == [i \in 0..n |-> it[1..i]]
<1>2. \A i \in 0..n : 1..i \in SUBSET (1..n)
  OBVIOUS
<1>3. f \in [0..n -> D]
  BY <1>1, <1>2
<1>4. f[0] = base
  <2>1. 1..0 = {} /\ {} \in SUBSET (1..n) /\ f[0] = it[{}]
    OBVIOUS
  <2>. QED  BY <1>1, <2>1 DEF FoldsSets
<1>5. ASSUME NEW i \in 1..n PROVE f[i] = F[<<f[i - 1], s[i]>>]
  <2>1. i \in Nat /\ i \in 1..i /\ 1..i \subseteq 1..i
    OBVIOUS
  <2>2. Max(1..i) = i
    BY <2>1, MaxOf
  <2>3. (1..i) \ {i} = 1..(i - 1)
    OBVIOUS
  <2>5. 1..i # {} /\ 1..i \in SUBSET (1..n)
    <3>1. i \in 0..n
      OBVIOUS
    <3>2. 1..i \in SUBSET (1..n)
      BY <1>2, <3>1
    <3>. QED  BY <2>1, <3>2
  <2>4. i - 1 \in 0..n /\ i \in 0..n
        /\ f[i] = it[1..i] /\ f[i - 1] = it[1..(i-1)]
    OBVIOUS
  <2>. HIDE DEF f
  <2>. QED  BY <1>1, <2>2, <2>3, <2>5, <2>4 DEF FoldsSets
<1>. HIDE DEF f
<1>. QED  BY <1>3, <1>4, <1>5 DEF FoldsSeq

\* flatten[i] is the first i sequences of ss, one after the other.
Flattens(f, ss, X, n) ==
    /\ ss \in [1..n -> Seq(X)] /\ f \in [0..n -> Seq(X)]
    /\ f[0] = <<>> /\ \A i \in 1..n : f[i] = f[i - 1] \o ss[i]

LEMMA FlattensExist ==
    ASSUME NEW X, NEW n \in Nat, NEW ss \in [1..n -> Seq(X)]
    PROVE  \E f \in [0..n -> Seq(X)] : Flattens(f, ss, X, n)
<1>. DEFINE F == [p \in Seq(X) \X Seq(X) |-> p[1] \o p[2]]
<1>1. \A a, b \in Seq(X) : a \o b \in Seq(X)
  BY ConcatProperties
<1>2. F \in [Seq(X) \X Seq(X) -> Seq(X)]
  BY <1>1
<1>3. \A a, b \in Seq(X) : F[<<a, b>>] = a \o b
  OBVIOUS
<1>4. <<>> \in Seq(X)
  OBVIOUS
<1>. HIDE DEF F
<1>5. PICK f \in [0..n -> Seq(X)] : FoldsSeq(f, F, <<>>, ss, n)
  BY <1>2, <1>4, SeqFold
<1>6. ASSUME NEW i \in 1..n PROVE f[i] = f[i - 1] \o ss[i]
  <2>1. i - 1 \in 0..n
    OBVIOUS
  <2>2. f[i - 1] \in Seq(X) /\ ss[i] \in Seq(X)
    BY <1>5, <2>1
  <2>. QED  BY <1>3, <1>5, <2>2 DEF FoldsSeq
<1>. QED  BY <1>5, <1>6 DEF FoldsSeq, Flattens

\* The recursion that FlattenSeq is defined by has a solution of sequences.
LEMMA FlattenParts ==
    ASSUME NEW X, NEW n \in Nat, n # 0, NEW ss \in [1..n -> Seq(X)]
    PROVE  \E f : Flattens(f, ss, X, n) /\ FlattenSeq(ss) = f[n]
<1>. DEFINE Solves(g) == g = [i \in 1..n |->
                            IF i = 1 THEN ss[i] ELSE g[i - 1] \o ss[i]]
<1>1. ss \in Seq(Seq(X)) /\ Len(ss) = n /\ 1 \in 1..n /\ ss[1] \in Seq(X)
  OBVIOUS
<1>2. \E g : Solves(g)
  <2>1. PICK f \in [0..n -> Seq(X)] : Flattens(f, ss, X, n)
    BY FlattensExist
  <2>. DEFINE g == [i \in 1..n |-> f[i]]
  <2>2. f[1] = ss[1]
    <3>1. f[1] = <<>> \o ss[1]
      <4>1. f[1] = f[1 - 1] \o ss[1] /\ f[0] = <<>>
        BY <1>1, <2>1 DEF Flattens
      <4>2. 1 - 1 = 0
        OBVIOUS
      <4>. QED  BY <4>1, <4>2
    <3>. QED  BY <1>1, <3>1
  <2>3. ASSUME NEW i \in 1..n
        PROVE  f[i] = IF i = 1 THEN ss[i] ELSE g[i - 1] \o ss[i]
    <3>1. CASE i = 1
      BY <2>2, <3>1
    <3>2. CASE i # 1
      <4>1. i - 1 \in 1..n
        BY <3>2
      <4>2. g[i - 1] = f[i - 1]
        BY <4>1
      <4>. QED  BY <2>1, <3>2, <4>2 DEF Flattens
    <3>. QED  BY <3>1, <3>2
  <2>4. Solves(g)
    <3>. DEFINE h == [i \in 1..n |->
                    IF i = 1 THEN ss[i] ELSE g[i - 1] \o ss[i]]
    <3>1. g = h
      BY <2>3
    <3>. QED  BY <3>1
  <2>. HIDE DEF g, Solves
  <2>. QED  BY <2>4
<1>3. FlattenSeq(ss) = (CHOOSE g : Solves(g))[n]
  BY <1>1 DEF FlattenSeq
<1>. HIDE DEF Solves
<1>4. PICK g : Solves(g) /\ FlattenSeq(ss) = g[n]
  BY <1>2, <1>3
<1>5. /\ g[1] = ss[1]
      /\ \A i \in 1..n : i # 1 => g[i] = g[i - 1] \o ss[i]
  BY <1>1, <1>4 DEF Solves
<1>. DEFINE G == {i \in Nat : i \in 1..n => g[i] \in Seq(X)}
<1>6. G = Nat
  <2>1. 0 \in G /\ G \subseteq Nat
    OBVIOUS
  <2>2. ASSUME NEW i \in G, i + 1 \in 1..n PROVE g[i + 1] \in Seq(X)
    <3>1. CASE i = 0
      BY <1>1, <1>5, <3>1
    <3>2. CASE i # 0
      <4>1. i \in 1..n /\ i + 1 # 1 /\ (i + 1) - 1 = i
        BY <2>2, <3>2
      <4>2. g[i] \in Seq(X) /\ ss[i + 1] \in Seq(X)
        BY <2>2, <4>1
      <4>3. g[i + 1] = g[i] \o ss[i + 1]
        BY <1>5, <2>2, <4>1
      <4>. QED  BY <4>2, <4>3, ConcatProperties
    <3>. QED  BY <3>1, <3>2
  <2>3. \A i \in G : i + 1 \in G
    BY <2>2
  <2>. HIDE DEF G
  <2>. QED  BY <2>1, <2>3, Induct
<1>. DEFINE f == [i \in 0..n |-> IF i = 0 THEN <<>> ELSE g[i]]
<1>7. f \in [0..n -> Seq(X)] /\ f[0] = <<>> /\ FlattenSeq(ss) = f[n]
  <2>1. ASSUME NEW i \in 0..n, i # 0 PROVE g[i] \in Seq(X)
    <3>1. i \in G /\ i \in 1..n
      BY <1>6, <2>1
    <3>. QED  BY <3>1
  <2>2. <<>> \in Seq(X)
    OBVIOUS
  <2>. QED  BY <1>4, <2>1, <2>2
<1>8. ASSUME NEW i \in 1..n PROVE f[i] = f[i - 1] \o ss[i]
  <2>1. CASE i = 1
    <3>1. f[1] = ss[1] /\ f[1 - 1] = <<>>
      BY <1>1, <1>5
    <3>. QED  BY <1>1, <2>1, <3>1
  <2>2. CASE i # 1
    <3>1. i - 1 \in 0..n /\ i - 1 # 0
      BY <2>2
    <3>2. f[i] = g[i] /\ f[i - 1] = g[i - 1]
      BY <3>1
    <3>. QED  BY <1>5, <2>2, <3>2
  <2>. QED  BY <2>1, <2>2
<1>. HIDE DEF f
<1>. QED  BY <1>7, <1>8 DEF Flattens

\* The first i of tt have c[i] more results of V than the first i of ss.
Exceeds(V, c, ss, tt, n) ==
    /\ c \in [0..n -> Nat]
    /\ c[0] = 0
    /\ \A i \in 1..n : Tally(V, tt[i]) + c[i - 1] = Tally(V, ss[i]) + c[i]

LEMMA TallyParts ==
    ASSUME NEW V, NEW X, NEW n \in Nat,
           NEW ss, NEW tt, NEW f, NEW g, NEW c,
           Flattens(f, ss, X, n), Flattens(g, tt, X, n),
           Exceeds(V, c, ss, tt, n)
    PROVE  Tally(V, g[n]) = Tally(V, f[n]) + c[n]
<1>0. /\ ss \in [1..n -> Seq(X)] /\ f \in [0..n -> Seq(X)]
      /\ tt \in [1..n -> Seq(X)] /\ g \in [0..n -> Seq(X)]
      /\ c \in [0..n -> Nat]
  BY DEF Flattens, Exceeds
<1>. DEFINE G == {i \in Nat : i \in 0..n =>
                    Tally(V, g[i]) = Tally(V, f[i]) + c[i]}
<1>1. 0 \in G
  BY TallyEmpty DEF Flattens, Exceeds
<1>2. ASSUME NEW k \in G PROVE k + 1 \in G
  <2>. DEFINE i == k + 1
  <2>. SUFFICES ASSUME i \in 1..n
                PROVE  Tally(V, g[i]) = Tally(V, f[i]) + c[i]
    OBVIOUS
  <2>1. k \in 0..n /\ i - 1 = k /\ i \in 0..n
    OBVIOUS
  <2>2. Tally(V, g[k]) = Tally(V, f[k]) + c[k]
    BY <2>1
  <2>. HIDE DEF i, G
  <2>3. f[i] = f[k] \o ss[i] /\ g[i] = g[k] \o tt[i]
    BY <2>1 DEF Flattens
  <2>4. /\ f[k] \in Seq(X) /\ g[k] \in Seq(X)
        /\ ss[i] \in Seq(X) /\ tt[i] \in Seq(X)
    BY <1>0, <2>1
  <2>5. Tally(V, f[i]) = Tally(V, f[k]) + Tally(V, ss[i])
    BY <2>3, <2>4, TallyConcat
  <2>6. Tally(V, g[i]) = Tally(V, g[k]) + Tally(V, tt[i])
    BY <2>3, <2>4, TallyConcat
  <2>7. /\ Tally(V, f[k]) \in Nat /\ Tally(V, ss[i]) \in Nat
        /\ Tally(V, tt[i]) \in Nat /\ Tally(V, g[k]) \in Nat
        /\ Tally(V, f[i]) \in Nat /\ Tally(V, g[i]) \in Nat
    BY <1>0, <2>1, <2>4, TallyNat
  <2>8. Tally(V, tt[i]) + c[k] = Tally(V, ss[i]) + c[i]
    BY <2>1 DEF Exceeds
  <2>9. c[k] \in Nat /\ c[i] \in Nat
    BY <1>0, <2>1
  <2>. DEFINE fk == Tally(V, f[k])  fi == Tally(V, f[i])
              gk == Tally(V, g[k])  gi == Tally(V, g[i])
              si == Tally(V, ss[i]) ti == Tally(V, tt[i])
              ck == c[k]            ci == c[i]
  <2>10. /\ fk \in Nat /\ fi \in Nat /\ gk \in Nat /\ gi \in Nat
         /\ si \in Nat /\ ti \in Nat /\ ck \in Nat /\ ci \in Nat
    BY <2>7, <2>9
  <2>11. gk = fk + ck /\ fi = fk + si /\ gi = gk + ti /\ ti + ck = si + ci
    BY <2>2, <2>5, <2>6, <2>8
  <2>. HIDE DEF fk, fi, gk, gi, si, ti, ck, ci
  <2>12. gi = fi + ci
    BY <2>10, <2>11
  <2>. QED  BY <2>12 DEF fi, gi, ci
<1>. HIDE DEF G
<1>3. G = Nat
  <2>1. G \subseteq Nat  BY DEF G
  <2>. QED  BY <1>1, <1>2, <2>1, Induct
<1>4. n \in G /\ n \in 0..n
  BY <1>3
<1>. QED  BY <1>4 DEF G

\* One more sequence at the end.
LEMMA FlattenAppend ==
    ASSUME NEW V, NEW X, NEW ss \in Seq(Seq(X)), NEW s \in Seq(X)
    PROVE  /\ FlattenSeq(Append(ss, s)) \in Seq(X)
           /\ Tally(V, FlattenSeq(Append(ss, s)))
              = Tally(V, FlattenSeq(ss)) + Tally(V, s)
<1>. DEFINE n == Len(ss)
            m == n + 1
            tt == Append(ss, s)
<1>1. n \in Nat /\ m \in Nat /\ m # 0 /\ m \in 1..m /\ m - 1 = n
  OBVIOUS
<1>2. tt \in [1..m -> Seq(X)] /\ tt[m] = s /\ \A i \in 1..n : tt[i] = ss[i]
  <2>1. tt \in Seq(Seq(X)) /\ Len(tt) = m
    BY AppendProperties
  <2>2. tt[m] = s /\ \A i \in 1..n : tt[i] = ss[i]
    OBVIOUS
  <2>. HIDE DEF tt
  <2>. QED  BY <2>1, <2>2
<1>3. ss \in [1..n -> Seq(X)]
  OBVIOUS
<1>8. n = 0 => FlattenSeq(ss) = <<>>
  BY DEF FlattenSeq
<1>. HIDE DEF tt, m
<1>4. PICK g : Flattens(g, tt, X, m) /\ FlattenSeq(tt) = g[m]
  BY <1>1, <1>2, FlattenParts
<1>5. g[m] = g[n] \o s /\ g[n] \in Seq(X) /\ g[m] \in Seq(X)
  <2>1. n \in 0..m /\ m \in 0..m
    BY <1>1
  <2>. QED  BY <1>1, <1>2, <1>4, <2>1 DEF Flattens
<1>6. Tally(V, g[m]) = Tally(V, g[n]) + Tally(V, s)
  BY <1>5, TallyConcat
<1>7. Tally(V, g[n]) = Tally(V, FlattenSeq(ss))
  <2>1. CASE n = 0
    BY <1>4, <1>8, <2>1 DEF Flattens
  <2>2. CASE n # 0
    <3>. HIDE DEF n
    <3>1. PICK f : Flattens(f, ss, X, n) /\ FlattenSeq(ss) = f[n]
      BY <1>1, <1>3, <2>2, FlattenParts
    <3>. DEFINE h == [i \in 0..n |-> g[i]]
                ts == [i \in 1..n |-> tt[i]]
                c == [i \in 0..n |-> 0]
    <3>2. /\ 0..n \subseteq 0..m /\ 1..n \subseteq 1..m
          /\ 0 \in 0..n /\ n \in 0..n
          /\ \A i \in 1..n : i - 1 \in 0..n
      BY <1>1
    <3>3. h \in [0..n -> Seq(X)] /\ ts \in [1..n -> Seq(X)]
          /\ c \in [0..n -> Nat]
      BY <1>2, <1>4, <3>2 DEF Flattens
    <3>4. Flattens(h, ts, X, n)
      <4>1. h[0] = <<>>
        BY <1>4, <3>2 DEF Flattens
      <4>2. ASSUME NEW i \in 1..n PROVE h[i] = h[i - 1] \o ts[i]
        <5>1. i \in 1..m /\ i \in 0..n /\ i - 1 \in 0..n
          BY <1>1, <3>2
        <5>2. g[i] = g[i - 1] \o tt[i]
          BY <1>4, <5>1 DEF Flattens
        <5>. QED  BY <5>1, <5>2
      <4>. QED  BY <3>3, <4>1, <4>2 DEF Flattens
    <3>5. Exceeds(V, c, ss, ts, n)
      BY <1>2, <3>2, <3>3 DEF Exceeds
    <3>6. c[n] = 0 /\ h[n] = g[n]
      BY <3>2
    <3>. HIDE DEF h, ts, c
    <3>7. Tally(V, h[n]) = Tally(V, f[n]) + c[n]
      BY <1>1, <3>1, <3>4, <3>5, TallyParts
    <3>8. Tally(V, f[n]) \in Nat
      BY <3>1, <3>2, TallyNat DEF Flattens
    <3>. QED  BY <3>1, <3>2, <3>6, <3>7, <3>8
  <2>. QED  BY <2>1, <2>2
<1>. QED  BY <1>4, <1>5, <1>6, <1>7 DEF tt

\* tt is ss with x appended to the j-th of its sequences.
AppendedAt(j, x, ss, tt, X, n) ==
    /\ ss \in [1..n -> Seq(X)] /\ tt \in [1..n -> Seq(X)]
    /\ j \in 1..n /\ x \in X /\ tt[j] = Append(ss[j], x)
    /\ \A i \in 1..n : i # j => tt[i] = ss[i]

\* One more element in the middle.
LEMMA FlattenChange ==
    ASSUME NEW V, NEW X, NEW n \in Nat, NEW ss, NEW tt, NEW j, NEW x,
           AppendedAt(j, x, ss, tt, X, n)
    PROVE  Tally(V, FlattenSeq(tt))
           = Tally(V, FlattenSeq(ss)) + (IF x \in V THEN 1 ELSE 0)
<1>. DEFINE d == IF x \in V THEN 1 ELSE 0
<1>0. /\ ss \in [1..n -> Seq(X)] /\ tt \in [1..n -> Seq(X)]
      /\ j \in 1..n /\ d \in Nat
      /\ \A i \in 1..n : i # j => tt[i] = ss[i]
  BY DEF AppendedAt
<1>7. Tally(V, tt[j]) = Tally(V, ss[j]) + d
  <2>1. ss[j] \in Seq(X) /\ x \in X /\ tt[j] = Append(ss[j], x)
    BY DEF AppendedAt
  <2>. QED  BY <2>1, TallyAppend
<1>. HIDE DEF d
<1>1. n # 0 /\ n \in 0..n
  BY <1>0
<1>2. PICK f : Flattens(f, ss, X, n) /\ FlattenSeq(ss) = f[n]
  BY <1>0, <1>1, FlattenParts
<1>3. PICK g : Flattens(g, tt, X, n) /\ FlattenSeq(tt) = g[n]
  BY <1>0, <1>1, FlattenParts
<1>. DEFINE c == [i \in 0..n |-> IF i < j THEN 0 ELSE d]
<1>4. c \in [0..n -> Nat] /\ c[0] = 0 /\ c[n] = d
  BY <1>0
<1>8. ASSUME NEW i \in 1..n
      PROVE  Tally(V, tt[i]) + c[i - 1] = Tally(V, ss[i]) + c[i]
  <2>1. /\ c[i - 1] = IF i - 1 < j THEN 0 ELSE d
        /\ c[i] = IF i < j THEN 0 ELSE d
    BY <1>0
  <2>2. Tally(V, ss[i]) \in Nat
    BY <1>0, TallyNat
  <2>. HIDE DEF c
  <2>3. CASE i = j
    BY <1>0, <1>7, <2>1, <2>2, <2>3
  <2>4. CASE i # j
    <3>1. tt[i] = ss[i] /\ c[i - 1] = c[i]
      BY <1>0, <2>1, <2>4
    <3>. QED  BY <3>1
  <2>. QED  BY <2>3, <2>4
<1>. HIDE DEF c
<1>5. Exceeds(V, c, ss, tt, n)
  BY <1>4, <1>8 DEF Exceeds
<1>6. Tally(V, g[n]) = Tally(V, f[n]) + c[n]
  BY <1>2, <1>3, <1>5, TallyParts
<1>. QED  BY <1>1, <1>2, <1>3, <1>4, <1>6 DEF d

LEMMA FlattenType ==
    ASSUME NEW X, NEW ss \in Seq(Seq(X))
    PROVE  FlattenSeq(ss) \in Seq(X)
<1>. DEFINE n == Len(ss)
<1>1. n \in Nat /\ ss \in [1..n -> Seq(X)] /\ n \in 0..n
  OBVIOUS
<1>2. CASE n = 0
  BY <1>2 DEF FlattenSeq
<1>3. CASE n # 0
  <2>. HIDE DEF n
  <2>1. PICK f : Flattens(f, ss, X, n) /\ FlattenSeq(ss) = f[n]
    BY <1>1, <1>3, FlattenParts
  <2>. QED  BY <1>1, <2>1 DEF Flattens
<1>. QED  BY <1>2, <1>3

LEMMA FlattenEmpty == FlattenSeq(<<>>) = <<>>
BY DEF FlattenSeq

LEMMA MaxIn ==
    ASSUME NEW n \in Nat, NEW t \in SUBSET (1..n), t # {}
    PROVE  Max(t) \in t
<1>. DEFINE G == {k \in Nat : \A u \in SUBSET (1..k) : u # {} =>
                    \E x \in u : \A y \in u : x >= y}
<1>1. 0 \in G
  <2>1. 1..0 = {}
    OBVIOUS
  <2>. QED  BY <2>1
<1>2. ASSUME NEW k \in G PROVE k + 1 \in G
  <2>. SUFFICES ASSUME NEW u \in SUBSET (1..(k + 1)), u # {}
                PROVE  \E x \in u : \A y \in u : x >= y
    OBVIOUS
  <2>1. CASE k + 1 \in u
    BY <2>1
  <2>2. CASE k + 1 \notin u
    <3>1. u \in SUBSET (1..k)
      BY <2>2
    <3>. QED  BY <3>1
  <2>. QED  BY <2>1, <2>2
<1>3. G \subseteq Nat
  OBVIOUS
<1>. HIDE DEF G
<1>4. n \in G
  BY <1>1, <1>2, <1>3, Induct
<1>5. \E x \in t : \A y \in t : x >= y
  BY <1>4 DEF G
<1>. QED  BY <1>5 DEF Max

\* Each step of a fold with F adds to the measure M the elements that are in V.
Measures(M, V, F, D, E) ==
    /\ M \in [D -> Nat]
    /\ \A d \in D, e \in E : M[F[<<d, e>>]] = M[d] + (IF e \in V THEN 1 ELSE 0)

\* it[t] is what a fold defined as that of the community modules has for the
\* indices t.
FoldsWith(it, F, base, D, E, s) ==
    /\ F \in [D \X E -> D] /\ base \in D /\ s \in Seq(E)
    /\ it[{}] = base
    /\ \A t \in SUBSET (1..Len(s)) : t # {} /\ it[t \ {Max(t)}] \in D =>
            it[t] = F[<<it[t \ {Max(t)}], s[Max(t)]>>]

\* A fold measures what its sequence holds, however M and V are chosen.
LEMMA FoldTallies ==
    ASSUME NEW D, NEW E, NEW F, NEW base, NEW s, NEW it,
           FoldsWith(it, F, base, D, E, s)
    PROVE  /\ it[1..Len(s)] \in D
           /\ \A M, V : Measures(M, V, F, D, E) =>
                M[it[1..Len(s)]] = M[base] + Tally(V, s)
<1>. DEFINE n == Len(s)
            First(k) == [i \in 1..k |-> s[i]]
            v(k) == it[1..k]
            Good(k) == /\ v(k) \in D
                       /\ \A M, V : Measures(M, V, F, D, E) =>
                            M[v(k)] = M[base] + Tally(V, First(k))
            G == {k \in Nat : k <= n => Good(k)}
<1>6. F \in [D \X E -> D] /\ base \in D /\ s \in Seq(E)
  BY DEF FoldsWith
<1>0. n \in Nat /\ \A i \in 1..n : s[i] \in E
  BY <1>6
<1>1. Good(0)
  <2>1. 1..0 = {}
    OBVIOUS
  <2>2. v(0) = base
    BY <2>1 DEF FoldsWith
  <2>3. First(0) = <<>>
    OBVIOUS
  <2>4. \A M, V : Measures(M, V, F, D, E) => M[base] \in Nat
    BY <1>6 DEF Measures
  <2>5. \A V : Tally(V, First(0)) = 0
    BY <2>3, TallyEmpty
  <2>. HIDE DEF First, v
  <2>. QED  BY <1>6, <2>2, <2>4, <2>5
<1>2. ASSUME NEW k \in Nat, k + 1 <= n, Good(k) PROVE Good(k + 1)
  <2>. DEFINE m == k + 1
  <2>1. m \in 1..n /\ m \in Nat /\ m # 0
    BY <1>0, <1>2
  <2>2. v(m) = F[<<v(k), s[m]>>] /\ s[m] \in E
    <3>1. (1..m) \ {m} = 1..k
      BY <2>1
    <3>2. 1..m \in SUBSET (1..n) /\ 1..m # {}
      <4>1. m \in 1..m
        BY <2>1
      <4>2. 1..m \subseteq 1..n
        BY <1>0, <1>2
      <4>. QED  BY <4>1, <4>2
    <3>3. Max(1..m) = m
      <4>1. m \in 1..m /\ 1..m \subseteq 1..m
        BY <2>1
      <4>. HIDE DEF m
      <4>. QED  BY <2>1, <4>1, MaxOf
    <3>. QED  BY <1>0, <1>2, <2>1, <3>1, <3>2, <3>3 DEF FoldsWith
  <2>3. First(k) \in Seq(E) /\ First(m) = Append(First(k), s[m])
    <3>1. \A i \in 1..m : s[i] \in E
      BY <1>0, <2>1
    <3>2. First(k) \in Seq(E) /\ Len(First(k)) = k
      BY <3>1
    <3>3. First(m) \in Seq(E) /\ Len(First(m)) = m
      BY <3>1
    <3>4. \A i \in 1..k : First(m)[i] = First(k)[i]
      OBVIOUS
    <3>5. First(m)[m] = s[m]
      BY <2>1
    <3>. HIDE DEF First
    <3>6. Append(First(k), s[m]) \in Seq(E) /\ Len(Append(First(k), s[m])) = m
      BY <2>2, <3>2
    <3>7. \A i \in 1..m : First(m)[i] = Append(First(k), s[m])[i]
      BY <2>2, <3>2, <3>4, <3>5
    <3>. HIDE DEF m
    <3>. QED  BY <2>1, <3>2, <3>3, <3>6, <3>7
  <2>. HIDE DEF v, First, m
  <2>4. v(m) \in D
    BY <1>6, <1>2, <2>2
  <2>5. ASSUME NEW M, NEW V, Measures(M, V, F, D, E)
        PROVE  M[v(m)] = M[base] + Tally(V, First(m))
    <3>1. M[v(m)] = M[v(k)] + (IF s[m] \in V THEN 1 ELSE 0)
      BY <1>2, <2>2, <2>5 DEF Measures
    <3>2. M[v(k)] = M[base] + Tally(V, First(k))
      BY <1>2, <2>5
    <3>3. Tally(V, First(m))
          = Tally(V, First(k)) + (IF s[m] \in V THEN 1 ELSE 0)
      BY <2>2, <2>3, TallyAppend
    <3>4. M[base] \in Nat /\ Tally(V, First(k)) \in Nat
      BY <1>6, <2>3, <2>5, TallyNat DEF Measures
    <3>. QED  BY <3>1, <3>2, <3>3, <3>4
  <2>. QED  BY <2>4, <2>5 DEF m
<1>. HIDE DEF Good
<1>3. n \in G
  <2>1. 0 \in G /\ G \subseteq Nat
    BY <1>1
  <2>2. ASSUME NEW k \in G PROVE k + 1 \in G
    BY <1>0, <1>2
  <2>. HIDE DEF G
  <2>. QED  BY <1>0, <2>1, <2>2, Induct
<1>4. Good(n)
  BY <1>3
<1>5. First(n) = s
  BY <1>6
<1>. QED  BY <1>4, <1>5 DEF Good

-----------------------------------------------------------------------------
(* What create_report keeps of the results it has read. *)

\* The types of what create_report keeps.
Hosts == {Host[i] : i \in DOMAIN Host}
Results == UNION {Range(ResultsOf[d]) : d \in DOMAIN ResultsOf}
Maps == [Kind -> [Hosts -> Seq(Results)]]
Counts == [total : [Kind -> Nat], success : [Kind -> Nat],
           pqc_supported : [Kind -> Nat]]

\* The rows of one kind that a map gives, and all of them.
RowsOfKind(m, k) == FlattenSeq([i \in DOMAIN Host |-> m[k][Host[i]]])
RowsOf(m) == RowsOfKind(m, "ssh") \o RowsOfKind(m, "tls")

\* What each count counts.
OfKind(k) == {r \in Results : r.kind = k}
Succeeded(k) == {r \in Results : r.kind = k /\ Status(r) = "success"}
Supported(k) == {r \in Results : r.kind = k /\ r.pqc_supported}

LEMMA ResultFacts ==
    /\ \A r \in Results : r.kind \in Kind /\ r.host \in Hosts
                          /\ (r.pqc_supported => r.error = None)
    /\ \A d \in DOMAIN ResultsOf : ResultsOf[d] \in Seq(Results)
<1>1. ASSUME NEW r \in Results
      PROVE  r.kind \in Kind /\ r.host \in Hosts
             /\ (r.pqc_supported => r.error = None)
  <2>1. PICK d \in DOMAIN ResultsOf :
            \E i \in DOMAIN ResultsOf[d] : r = ResultsOf[d][i]
    BY DEF Results, Range
  <2>. QED  BY <2>1, ReportAssumption DEF Hosts
<1>2. ASSUME NEW d \in DOMAIN ResultsOf PROVE ResultsOf[d] \in Seq(Results)
  <2>1. ResultsOf[d] \in Seq(Range(ResultsOf[d]))
    BY ReportAssumption
  <2>2. Range(ResultsOf[d]) \subseteq Results
    BY DEF Results
  <2>. QED  BY <2>1, <2>2
<1>. QED  BY <1>1, <1>2

LEMMA HostFacts ==
    /\ Len(Host) \in Nat /\ DOMAIN Host = 1..Len(Host)
    /\ \A i \in 1..Len(Host) : Host[i] \in Hosts
    /\ \A h \in Hosts : \E i \in 1..Len(Host) : h = Host[i]
    /\ \A i, j \in 1..Len(Host) : Host[i] = Host[j] => i = j
<1>1. Host \in Seq(Range(Host))
  BY ReportAssumption
<1>2. Len(Host) \in Nat /\ DOMAIN Host = 1..Len(Host)
  BY <1>1
<1>. QED  BY <1>2, ReportAssumption DEF Hosts

LEMMA RowsAreResults ==
    ASSUME NEW m \in Maps, NEW k \in Kind
    PROVE  /\ [i \in DOMAIN Host |-> m[k][Host[i]]]
              \in [1..Len(Host) -> Seq(Results)]
           /\ RowsOfKind(m, k) \in Seq(Results)
<1>1. [i \in DOMAIN Host |-> m[k][Host[i]]]
      \in [1..Len(Host) -> Seq(Results)]
  BY HostFacts DEF Maps
<1>2. [i \in DOMAIN Host |-> m[k][Host[i]]] \in Seq(Seq(Results))
  BY <1>1, HostFacts
<1>. QED  BY <1>1, <1>2, FlattenType DEF RowsOfKind

\* A result is filed in one place, whatever its host and kind.
LEMMA FileStep ==
    ASSUME NEW m \in Maps, NEW r \in Results
    PROVE  /\ File(m, r) \in Maps
           /\ \A V : Tally(V, RowsOf(File(m, r)))
                     = Tally(V, RowsOf(m)) + (IF r \in V THEN 1 ELSE 0)
<1>. DEFINE M == File(m, r)
            k == r.kind
            rows(x, y) == [i \in DOMAIN Host |-> x[y][Host[i]]]
<1>1. k \in Kind /\ r.host \in Hosts
  BY ResultFacts
<1>2. m[k] \in [Hosts -> Seq(Results)] /\ m[k][r.host] \in Seq(Results)
  BY <1>1 DEF Maps
<1>3. Append(m[k][r.host], r) \in Seq(Results)
  BY <1>2
<1>4. [m[k] EXCEPT ![r.host] = Append(@, r)] \in [Hosts -> Seq(Results)]
  BY <1>1, <1>2, <1>3
<1>5. M \in Maps /\ M[k] = [m[k] EXCEPT ![r.host] = Append(@, r)]
      /\ \A y \in Kind : y # k => M[y] = m[y]
  BY <1>1, <1>4 DEF Maps, File
<1>6. PICK j \in 1..Len(Host) : r.host = Host[j]
  BY <1>1, HostFacts
<1>7. /\ M[k][Host[j]] = Append(m[k][Host[j]], r)
      /\ \A i \in 1..Len(Host) : i # j => M[k][Host[i]] = m[k][Host[i]]
  BY <1>1, <1>2, <1>5, <1>6, HostFacts
<1>. HIDE DEF M, k
<1>8. ASSUME NEW V
      PROVE  Tally(V, RowsOfKind(M, k))
             = Tally(V, RowsOfKind(m, k)) + (IF r \in V THEN 1 ELSE 0)
  <2>. DEFINE n == Len(Host)
              ss == rows(m, k)
              tt == rows(M, k)
  <2>1. ss \in [1..n -> Seq(Results)] /\ tt \in [1..n -> Seq(Results)]
    BY <1>1, <1>5, RowsAreResults
  <2>2. tt[j] = Append(ss[j], r)
    BY <1>1, <1>6, <1>7, <2>1, HostFacts
  <2>3. \A i \in 1..n : i # j => tt[i] = ss[i]
    BY <1>7, HostFacts
  <2>4. RowsOfKind(M, k) = FlattenSeq(tt) /\ RowsOfKind(m, k) = FlattenSeq(ss)
    BY DEF RowsOfKind
  <2>5. n \in Nat /\ j \in 1..n
    BY HostFacts
  <2>. HIDE DEF ss, tt, n
  <2>6. AppendedAt(j, r, ss, tt, Results, n)
    BY <2>1, <2>2, <2>3, <2>5 DEF AppendedAt
  <2>7. Tally(V, FlattenSeq(tt))
        = Tally(V, FlattenSeq(ss)) + (IF r \in V THEN 1 ELSE 0)
    BY <2>5, <2>6, FlattenChange
  <2>. QED  BY <2>4, <2>7
<1>9. \A y \in Kind : y # k => RowsOfKind(M, y) = RowsOfKind(m, y)
  BY <1>5 DEF RowsOfKind
<1>10. /\ "ssh" \in Kind /\ "tls" \in Kind /\ (k = "ssh" \/ k = "tls")
  BY <1>1 DEF Kind
<1>11. \A x \in {m, M} : RowsOfKind(x, "ssh") \in Seq(Results)
                        /\ RowsOfKind(x, "tls") \in Seq(Results)
  BY <1>5, <1>10, RowsAreResults
<1>12. ASSUME NEW V
       PROVE  Tally(V, RowsOf(M))
              = Tally(V, RowsOf(m)) + (IF r \in V THEN 1 ELSE 0)
  <2>1. \A x \in {m, M} : Tally(V, RowsOf(x))
            = Tally(V, RowsOfKind(x, "ssh")) + Tally(V, RowsOfKind(x, "tls"))
    BY <1>11, TallyConcat DEF RowsOf
  <2>2. Tally(V, RowsOfKind(m, "ssh")) \in Nat
        /\ Tally(V, RowsOfKind(m, "tls")) \in Nat
    BY <1>11, TallyNat
  <2>3. CASE k = "ssh"
    BY <1>8, <1>9, <1>10, <2>1, <2>2, <2>3
  <2>4. CASE k = "tls"
    BY <1>8, <1>9, <1>10, <2>1, <2>2, <2>4
  <2>. QED  BY <1>10, <2>3, <2>4
<1>. QED  BY <1>5, <1>12 DEF M

\* A result is counted under its kind alone.
LEMMA AddStep ==
    ASSUME NEW c \in Counts, NEW r \in Results
    PROVE  /\ Add(c, r) \in Counts
           /\ \A k \in Kind :
                /\ Add(c, r).total[k] =
                    c.total[k] + (IF r \in OfKind(k) THEN 1 ELSE 0)
                /\ Add(c, r).success[k] =
                    c.success[k] + (IF r \in Succeeded(k) THEN 1 ELSE 0)
                /\ Add(c, r).pqc_supported[k] =
                    c.pqc_supported[k] + (IF r \in Supported(k) THEN 1 ELSE 0)
<1>1. r.kind \in Kind
  BY ResultFacts
<1>2. /\ c.total \in [Kind -> Nat] /\ c.success \in [Kind -> Nat]
      /\ c.pqc_supported \in [Kind -> Nat]
  BY DEF Counts
<1>. DEFINE t == [c.total EXCEPT ![r.kind] = @ + 1]
            s == [c.success EXCEPT ![r.kind] =
                    IF Status(r) = "success" THEN @ + 1 ELSE @]
            p == [c.pqc_supported EXCEPT ![r.kind] =
                    IF r.pqc_supported THEN @ + 1 ELSE @]
<1>3. t \in [Kind -> Nat]
      /\ \A k \in Kind : t[k] = c.total[k] + (IF r \in OfKind(k) THEN 1 ELSE 0)
  BY <1>1, <1>2 DEF OfKind
<1>4. s \in [Kind -> Nat]
      /\ \A k \in Kind : s[k] =
            c.success[k] + (IF r \in Succeeded(k) THEN 1 ELSE 0)
  BY <1>1, <1>2 DEF Succeeded
<1>5. p \in [Kind -> Nat]
      /\ \A k \in Kind : p[k] =
            c.pqc_supported[k] + (IF r \in Supported(k) THEN 1 ELSE 0)
  BY <1>1, <1>2 DEF Supported
<1>6. Add(c, r) = [total |-> t, success |-> s, pqc_supported |-> p]
  BY DEF Add
<1>. HIDE DEF t, s, p
<1>. QED  BY <1>3, <1>4, <1>5, <1>6 DEF Counts

\* All results of an input are filed, each once.
LEMMA FoldFile ==
    ASSUME NEW m \in Maps, NEW s \in Seq(Results)
    PROVE  /\ FoldLeft(File, m, s) \in Maps
           /\ \A V : Tally(V, RowsOf(FoldLeft(File, m, s)))
                     = Tally(V, RowsOf(m)) + Tally(V, s)
<1>. DEFINE n == Len(s)
            F == [p \in Maps \X Results |-> File(p[1], p[2])]
            Solves(it) == it = [t \in SUBSET (1..n) |->
                    IF t = {} THEN m ELSE File(it[t \ {Max(t)}], s[Max(t)])]
<1>1. n \in Nat /\ s \in [1..n -> Results] /\ DOMAIN s = 1..n
  OBVIOUS
<1>2. F \in [Maps \X Results -> Maps]
      /\ \A d \in Maps, e \in Results : F[<<d, e>>] = File(d, e)
  BY FileStep
<1>. HIDE DEF F
<1>3. ASSUME NEW t \in SUBSET (1..n), t # {}
      PROVE  s[Max(t)] \in Results /\ t \ {Max(t)} \in SUBSET (1..n)
  <2>1. Max(t) \in t
    BY <1>1, <1>3, MaxIn
  <2>. QED  BY <1>1, <2>1
<1>4. \E it : Solves(it)
  <2>1. PICK it \in [SUBSET (1..n) -> Maps] : FoldsSets(it, F, m, s, n)
    BY <1>1, <1>2, SetFold
  <2>2. ASSUME NEW t \in SUBSET (1..n)
        PROVE  it[t] = IF t = {} THEN m ELSE File(it[t \ {Max(t)}], s[Max(t)])
    BY <1>2, <1>3, <2>1 DEF FoldsSets
  <2>3. Solves(it)
    <3>. DEFINE h == [t \in SUBSET (1..n) |->
                    IF t = {} THEN m ELSE File(it[t \ {Max(t)}], s[Max(t)])]
    <3>1. it = h
      BY <2>2
    <3>. QED  BY <3>1
  <2>. HIDE DEF Solves
  <2>. QED  BY <2>3
<1>5. FoldLeft(File, m, s) = (CHOOSE it : Solves(it))[1..n]
  BY <1>1 DEF FoldLeft, MapThenFoldSet
<1>. HIDE DEF Solves
<1>6. PICK it : Solves(it) /\ FoldLeft(File, m, s) = it[1..n]
  BY <1>4, <1>5
<1>7. FoldsWith(it, F, m, Maps, Results, s)
  <2>1. \A t \in SUBSET (1..n) :
            it[t] = IF t = {} THEN m ELSE File(it[t \ {Max(t)}], s[Max(t)])
    BY <1>6 DEF Solves
  <2>2. {} \in SUBSET (1..n)
    OBVIOUS
  <2>. QED  BY <1>2, <1>3, <2>1, <2>2 DEF FoldsWith
<1>8. /\ it[1..n] \in Maps
      /\ \A M, V : Measures(M, V, F, Maps, Results) =>
            M[it[1..n]] = M[m] + Tally(V, s)
  BY <1>7, FoldTallies
<1>9. ASSUME NEW V
      PROVE  Tally(V, RowsOf(it[1..n])) = Tally(V, RowsOf(m)) + Tally(V, s)
  <2>. DEFINE M == [d \in Maps |-> Tally(V, RowsOf(d))]
  <2>1. M \in [Maps -> Nat]
    <3>1. ASSUME NEW d \in Maps PROVE RowsOf(d) \in Seq(Results)
      <4>1. "ssh" \in Kind /\ "tls" \in Kind
        BY DEF Kind
      <4>. QED  BY <4>1, RowsAreResults, ConcatProperties DEF RowsOf
    <3>. QED  BY <3>1, TallyNat
  <2>2. Measures(M, V, F, Maps, Results)
    BY <1>2, <2>1, FileStep DEF Measures
  <2>. QED  BY <1>8, <2>2
<1>. QED  BY <1>6, <1>8, <1>9

\* And each is counted once under its kind.
LEMMA FoldAdd ==
    ASSUME NEW c \in Counts, NEW s \in Seq(Results)
    PROVE  /\ FoldLeft(Add, c, s) \in Counts
           /\ \A k \in Kind :
                /\ FoldLeft(Add, c, s).total[k] =
                    c.total[k] + Tally(OfKind(k), s)
                /\ FoldLeft(Add, c, s).success[k] =
                    c.success[k] + Tally(Succeeded(k), s)
                /\ FoldLeft(Add, c, s).pqc_supported[k] =
                    c.pqc_supported[k] + Tally(Supported(k), s)
<1>. DEFINE n == Len(s)
            F == [p \in Counts \X Results |-> Add(p[1], p[2])]
            Solves(it) == it = [t \in SUBSET (1..n) |->
                    IF t = {} THEN c ELSE Add(it[t \ {Max(t)}], s[Max(t)])]
<1>1. n \in Nat /\ s \in [1..n -> Results] /\ DOMAIN s = 1..n
  OBVIOUS
<1>2. F \in [Counts \X Results -> Counts]
      /\ \A d \in Counts, e \in Results : F[<<d, e>>] = Add(d, e)
  BY AddStep
<1>. HIDE DEF F
<1>3. ASSUME NEW t \in SUBSET (1..n), t # {}
      PROVE  s[Max(t)] \in Results /\ t \ {Max(t)} \in SUBSET (1..n)
  <2>1. Max(t) \in t
    BY <1>1, <1>3, MaxIn
  <2>. QED  BY <1>1, <2>1
<1>4. \E it : Solves(it)
  <2>1. PICK it \in [SUBSET (1..n) -> Counts] : FoldsSets(it, F, c, s, n)
    BY <1>1, <1>2, SetFold
  <2>2. ASSUME NEW t \in SUBSET (1..n)
        PROVE  it[t] = IF t = {} THEN c ELSE Add(it[t \ {Max(t)}], s[Max(t)])
    BY <1>2, <1>3, <2>1 DEF FoldsSets
  <2>3. Solves(it)
    <3>. DEFINE h == [t \in SUBSET (1..n) |->
                    IF t = {} THEN c ELSE Add(it[t \ {Max(t)}], s[Max(t)])]
    <3>1. it = h
      BY <2>2
    <3>. QED  BY <3>1
  <2>. HIDE DEF Solves
  <2>. QED  BY <2>3
<1>5. FoldLeft(Add, c, s) = (CHOOSE it : Solves(it))[1..n]
  BY <1>1 DEF FoldLeft, MapThenFoldSet
<1>. HIDE DEF Solves
<1>6. PICK it : Solves(it) /\ FoldLeft(Add, c, s) = it[1..n]
  BY <1>4, <1>5
<1>7. FoldsWith(it, F, c, Counts, Results, s)
  <2>1. \A t \in SUBSET (1..n) :
            it[t] = IF t = {} THEN c ELSE Add(it[t \ {Max(t)}], s[Max(t)])
    BY <1>6 DEF Solves
  <2>2. {} \in SUBSET (1..n)
    OBVIOUS
  <2>. QED  BY <1>2, <1>3, <2>1, <2>2 DEF FoldsWith
<1>8. /\ it[1..n] \in Counts
      /\ \A M, V : Measures(M, V, F, Counts, Results) =>
            M[it[1..n]] = M[c] + Tally(V, s)
  BY <1>7, FoldTallies
<1>9. ASSUME NEW k \in Kind
      PROVE  /\ it[1..n].total[k] = c.total[k] + Tally(OfKind(k), s)
             /\ it[1..n].success[k] = c.success[k] + Tally(Succeeded(k), s)
             /\ it[1..n].pqc_supported[k] =
                    c.pqc_supported[k] + Tally(Supported(k), s)
  <2>. DEFINE T == [d \in Counts |-> d.total[k]]
              S == [d \in Counts |-> d.success[k]]
              P == [d \in Counts |-> d.pqc_supported[k]]
  <2>1. /\ T \in [Counts -> Nat] /\ S \in [Counts -> Nat]
        /\ P \in [Counts -> Nat]
    BY DEF Counts
  <2>2. Measures(T, OfKind(k), F, Counts, Results)
    BY <1>2, <2>1, AddStep DEF Measures
  <2>3. Measures(S, Succeeded(k), F, Counts, Results)
    BY <1>2, <2>1, AddStep DEF Measures
  <2>4. Measures(P, Supported(k), F, Counts, Results)
    BY <1>2, <2>1, AddStep DEF Measures
  <2>. QED  BY <1>8, <2>2, <2>3, <2>4
<1>. QED  BY <1>6, <1>8, <1>9

LEMMA TallyAll ==
    ASSUME NEW X, NEW s \in Seq(X)
    PROVE  Tally(X, s) = Len(s)
<1>1. {i \in DOMAIN s : s[i] \in X} = 1..Len(s)
  OBVIOUS
<1>2. Len(s) \in Nat
  OBVIOUS
<1>3. Cardinality(1..Len(s)) = IF 1 > Len(s) THEN 0 ELSE Len(s) - 1 + 1
  BY <1>2, FS_Interval
<1>4. Tally(X, s) = Cardinality(1..Len(s))
  BY <1>1 DEF Tally
<1>. HIDE DEF Tally
<1>. QED  BY <1>2, <1>3, <1>4

\* The results of the documents rs.
All(rs) == FlattenSeq([i \in DOMAIN rs |-> ResultsOf[rs[i]]])

\* Of whatever results, the map holds as many as the inputs read so far, and
\* the counts are those of the inputs.
ReportRight ==
    /\ read \in Seq(DOMAIN ResultsOf) /\ map \in Maps /\ counts \in Counts
    /\ \A V : Tally(V, RowsOf(map)) = Tally(V, All(read))
    /\ \A k \in Kind :
        /\ counts.total[k] = Tally(OfKind(k), All(read))
        /\ counts.success[k] = Tally(Succeeded(k), All(read))
        /\ counts.pqc_supported[k] = Tally(Supported(k), All(read))

LEMMA AllTyped ==
    ASSUME NEW rs \in Seq(DOMAIN ResultsOf)
    PROVE  /\ [i \in DOMAIN rs |-> ResultsOf[rs[i]]] \in Seq(Seq(Results))
           /\ All(rs) \in Seq(Results)
<1>1. \A i \in 1..Len(rs) : ResultsOf[rs[i]] \in Seq(Results)
  BY ResultFacts
<1>2. [i \in DOMAIN rs |-> ResultsOf[rs[i]]] \in Seq(Seq(Results))
  BY <1>1
<1>. QED  BY <1>2, FlattenType DEF All

LEMMA AllAppend ==
    ASSUME NEW rs \in Seq(DOMAIN ResultsOf), NEW d \in DOMAIN ResultsOf, NEW V
    PROVE  Tally(V, All(Append(rs, d)))
           = Tally(V, All(rs)) + Tally(V, ResultsOf[d])
<1>. DEFINE ss == [i \in DOMAIN rs |-> ResultsOf[rs[i]]]
            ts == Append(rs, d)
            tt == [i \in DOMAIN ts |-> ResultsOf[ts[i]]]
            n == Len(rs)
<1>1. ss \in Seq(Seq(Results)) /\ ResultsOf[d] \in Seq(Results)
  BY AllTyped, ResultFacts
<1>2. /\ n \in Nat /\ DOMAIN ts = 1..(n + 1) /\ ts[n + 1] = d
      /\ \A i \in 1..n : ts[i] = rs[i]
  OBVIOUS
<1>3. tt = Append(ss, ResultsOf[d])
  <2>1. tt \in Seq(Seq(Results)) /\ Len(tt) = n + 1
    <3>1. ts \in Seq(DOMAIN ResultsOf) /\ Len(ts) = n + 1
      OBVIOUS
    <3>. HIDE DEF ts
    <3>2. tt \in Seq(Seq(Results))
      BY <3>1, AllTyped
    <3>. QED  BY <1>2, <3>1, <3>2
  <2>2. Len(ss) = n /\ \A i \in 1..n : ss[i] = ResultsOf[rs[i]]
    OBVIOUS
  <2>3. \A i \in 1..n : tt[i] = ss[i]
    BY <1>2, <2>2
  <2>4. tt[n + 1] = ResultsOf[d]
    BY <1>2
  <2>. HIDE DEF tt, ss, n
  <2>. QED  BY <1>1, <1>2, <2>1, <2>2, <2>3, <2>4
<1>4. All(ts) = FlattenSeq(tt) /\ All(rs) = FlattenSeq(ss)
  BY DEF All
<1>. HIDE DEF ss, tt
<1>. QED  BY <1>1, <1>3, <1>4, FlattenAppend

LEMMA ReportRightInit == ReportInit => ReportRight
<1>. SUFFICES ASSUME ReportInit PROVE ReportRight
  OBVIOUS
<1>1. read \in Seq(DOMAIN ResultsOf) /\ read = <<>>
  BY DEF ReportInit
<1>2. map \in Maps
      /\ \A k \in Kind, i \in 1..Len(Host) : map[k][Host[i]] = <<>>
  BY HostFacts DEF ReportInit, Maps, Hosts
<1>3. /\ counts \in Counts
      /\ \A k \in Kind : counts.total[k] = 0 /\ counts.success[k] = 0
                         /\ counts.pqc_supported[k] = 0
  BY DEF ReportInit, Counts, Zero
<1>4. All(read) = <<>>
  BY <1>1, FlattenEmpty DEF All
<1>5. ASSUME NEW V, NEW k \in Kind PROVE Tally(V, RowsOfKind(map, k)) = 0
  <2>. DEFINE ss == [i \in DOMAIN Host |-> map[k][Host[i]]]
              n == Len(Host)
  <2>1. ss \in [1..n -> Seq(Results)] /\ n \in Nat /\ DOMAIN ss = 1..n
        /\ \A i \in 1..n : ss[i] = <<>>
    BY <1>2, RowsAreResults, HostFacts
  <2>. HIDE DEF ss, n
  <2>2. CASE n = 0
    <3>1. ss = <<>>
      BY <2>1, <2>2
    <3>. QED  BY <3>1, FlattenEmpty, TallyEmpty DEF RowsOfKind, ss
  <2>3. CASE n # 0
    <3>1. PICK f : Flattens(f, ss, Results, n) /\ FlattenSeq(ss) = f[n]
      BY <2>1, <2>3, FlattenParts
    <3>. DEFINE G == {i \in Nat : i \in 0..n => f[i] = <<>>}
    <3>2. 0 \in G /\ G \subseteq Nat
      BY <3>1 DEF Flattens
    <3>3. ASSUME NEW i \in G, i + 1 \in 1..n PROVE f[i + 1] = <<>>
      <4>1. f[i] = <<>> /\ (i + 1) - 1 = i /\ ss[i + 1] = <<>>
        BY <2>1, <3>3
      <4>2. f[i + 1] = <<>> \o <<>>
        BY <3>1, <3>3, <4>1 DEF Flattens
      <4>. QED  BY <4>2
    <3>4. ASSUME NEW i \in G PROVE i + 1 \in G
      <4>1. CASE i + 1 \in 1..n
        BY <3>3, <4>1
      <4>2. CASE i + 1 \notin 1..n
        BY <2>1, <4>2
      <4>. QED  BY <4>1, <4>2
    <3>. HIDE DEF G
    <3>5. n \in G
      BY <2>1, <3>2, <3>4, Induct
    <3>6. f[n] = <<>>
      BY <2>1, <3>5 DEF G
    <3>. QED  BY <3>1, <3>6, TallyEmpty DEF RowsOfKind, ss
  <2>. QED  BY <2>1, <2>2, <2>3
<1>6. "ssh" \in Kind /\ "tls" \in Kind
  BY DEF Kind
<1>7. ASSUME NEW V PROVE Tally(V, RowsOf(map)) = 0
  <2>1. /\ RowsOfKind(map, "ssh") \in Seq(Results)
        /\ RowsOfKind(map, "tls") \in Seq(Results)
    BY <1>2, <1>6, RowsAreResults
  <2>2. Tally(V, RowsOf(map)) =
            Tally(V, RowsOfKind(map, "ssh")) + Tally(V, RowsOfKind(map, "tls"))
    BY <2>1, TallyConcat DEF RowsOf
  <2>. QED  BY <1>5, <1>6, <2>2
<1>. QED  BY <1>1, <1>2, <1>3, <1>4, <1>7, TallyEmpty DEF ReportRight

LEMMA RightKept ==
    ASSUME ReportRight, UNCHANGED <<read, map, counts>>
    PROVE  ReportRight'
BY DEF ReportRight, RowsOf, RowsOfKind, All, OfKind, Succeeded, Supported

\* Only reading an input changes what is reported.
LEMMA ReportRightKept ==
    ASSUME ReportRight, ReportStep
    PROVE  ReportRight'
<1>1. CASE ReadInput
  <2>1. PICK d \in DOMAIN ResultsOf :
            /\ read' = Append(read, d)
            /\ map' = FoldLeft(File, map, ResultsOf[d])
            /\ counts' = FoldLeft(Add, counts, ResultsOf[d])
    BY <1>1 DEF ReadInput
  <2>2. ResultsOf[d] \in Seq(Results)
    BY ResultFacts
  <2>3. read \in Seq(DOMAIN ResultsOf) /\ map \in Maps /\ counts \in Counts
    BY DEF ReportRight
  <2>4. /\ map' \in Maps
        /\ \A V : Tally(V, RowsOf(map'))
                  = Tally(V, RowsOf(map)) + Tally(V, ResultsOf[d])
    BY <2>1, <2>2, <2>3, FoldFile
  <2>5. /\ counts' \in Counts
        /\ \A k \in Kind :
            /\ counts'.total[k] =
                counts.total[k] + Tally(OfKind(k), ResultsOf[d])
            /\ counts'.success[k] =
                counts.success[k] + Tally(Succeeded(k), ResultsOf[d])
            /\ counts'.pqc_supported[k] =
                counts.pqc_supported[k] + Tally(Supported(k), ResultsOf[d])
    BY <2>1, <2>2, <2>3, FoldAdd
  <2>6. \A V : Tally(V, All(read'))
              = Tally(V, All(read)) + Tally(V, ResultsOf[d])
    BY <2>1, <2>3, AllAppend
  <2>7. read' \in Seq(DOMAIN ResultsOf)
    BY <2>1, <2>3
  <2>8. \A V : Tally(V, RowsOf(map')) = Tally(V, All(read'))
    BY <2>4, <2>6 DEF ReportRight
  <2>9. \A k \in Kind :
            /\ counts'.total[k] = Tally(OfKind(k), All(read'))
            /\ counts'.success[k] = Tally(Succeeded(k), All(read'))
            /\ counts'.pqc_supported[k] = Tally(Supported(k), All(read'))
    BY <2>5, <2>6 DEF ReportRight
  <2>. QED  BY <2>4, <2>5, <2>7, <2>8, <2>9
            DEF ReportRight, RowsOf, RowsOfKind, All, OfKind, Succeeded,
                Supported
<1>2. CASE \/ RefuseInput \/ CreateReport \/ WriteReport \/ SayReported
           \/ ReportFails
  <2>1. UNCHANGED <<read, map, counts>>
    BY <1>2
    DEF RefuseInput, CreateReport, WriteReport, SayReported, ReportFails
  <2>. QED  BY <2>1, RightKept
<1>. QED  BY <1>1, <1>2 DEF ReportStep

LEMMA ReportIsRight == Spec => []ReportRight
<1>1. Init => ReportRight
  BY ReportRightInit DEF Init
<1>2. ReportRight /\ [Next]_vars => ReportRight'
  <2>. SUFFICES ASSUME ReportRight, [Next]_vars PROVE ReportRight'
    OBVIOUS
  <2>1. ASSUME UNCHANGED <<read, map, counts>> PROVE ReportRight'
    BY <2>1, RightKept
  <2>2. CASE ReportStep
    BY <2>2, ReportRightKept
  <2>3. CASE ~ReportStep
    <3>1. UNCHANGED reporting
      BY <2>3 DEF Next, vars
    <3>. QED  BY <2>1, <3>1 DEF reporting
  <2>. QED  BY <2>2, <2>3
<1>. QED  BY <1>1, <1>2, PTL DEF Spec

\* The invariant gives the rows and the counts of the report.
LEMMA RightRows == ReportRight => RowsMatchInputs
<1>. SUFFICES ASSUME ReportRight PROVE RowsMatchInputs
  OBVIOUS
<1>. DEFINE all == All(read)
            R == Rows
<1>1. R = RowsOf(map) /\ R \in Seq(Results) /\ all \in Seq(Results)
  <2>1. map \in Maps /\ read \in Seq(DOMAIN ResultsOf)
    BY DEF ReportRight
  <2>2. "ssh" \in Kind /\ "tls" \in Kind
    BY DEF Kind
  <2>3. RowsOf(map) \in Seq(Results)
    BY <2>1, <2>2, RowsAreResults, ConcatProperties DEF RowsOf
  <2>4. R = RowsOf(map)
    BY DEF Rows, RowsOf, RowsOfKind
  <2>. QED  BY <2>1, <2>3, <2>4, AllTyped
<1>2. \A V : Tally(V, R) = Tally(V, all)
  BY <1>1 DEF ReportRight
<1>3. /\ counts \in Counts
      /\ \A k \in Kind :
        /\ counts.total[k] = Tally(OfKind(k), all)
        /\ counts.success[k] = Tally(Succeeded(k), all)
        /\ counts.pqc_supported[k] = Tally(Supported(k), all)
  BY DEF ReportRight
<1>4. all = FlattenSeq([i \in DOMAIN read |-> ResultsOf[read[i]]])
  BY DEF All
<1>. HIDE DEF all, R
<1>5. Len(R) = Len(all)
  BY <1>1, <1>2, TallyAll
<1>6. ASSUME NEW i \in DOMAIN all
      PROVE  Occurrences(all[i], R) = Occurrences(all[i], all)
  <2>1. \A s : {j \in DOMAIN s : s[j] = all[i]}
               = {j \in DOMAIN s : s[j] \in {all[i]}}
    OBVIOUS
  <2>2. \A s : Occurrences(all[i], s) = Tally({all[i]}, s)
    BY <2>1 DEF Occurrences, Tally
  <2>. QED  BY <1>2, <2>2
<1>7. ASSUME NEW k \in Kind
      PROVE  /\ counts.total[k] = Cardinality({i \in DOMAIN R : R[i].kind = k})
             /\ counts.success[k] = Cardinality({i \in DOMAIN R :
                    R[i].kind = k /\ Status(R[i]) = "success"})
             /\ Failed(k) = Cardinality({i \in DOMAIN R :
                    R[i].kind = k /\ Status(R[i]) = "error"})
             /\ counts.pqc_supported[k] <= counts.success[k]
  <2>. DEFINE Unsuccessful ==
                {r \in Results : r.kind = k /\ Status(r) = "error"}
  <2>1. \A i \in DOMAIN R : R[i] \in Results
    BY <1>1
  <2>2. {i \in DOMAIN R : R[i].kind = k}
        = {i \in DOMAIN R : R[i] \in OfKind(k)}
    BY <2>1 DEF OfKind
  <2>3. {i \in DOMAIN R : R[i].kind = k /\ Status(R[i]) = "success"}
        = {i \in DOMAIN R : R[i] \in Succeeded(k)}
    BY <2>1 DEF Succeeded
  <2>4. {i \in DOMAIN R : R[i].kind = k /\ Status(R[i]) = "error"}
        = {i \in DOMAIN R : R[i] \in Unsuccessful}
    BY <2>1
  <2>5. OfKind(k) = Succeeded(k) \union Unsuccessful
        /\ Succeeded(k) \intersect Unsuccessful = {}
    BY DEF OfKind, Succeeded, Status
  <2>6. Supported(k) \subseteq Succeeded(k)
    BY ResultFacts DEF Supported, Succeeded, Status
  <2>. HIDE DEF Unsuccessful
  <2>7. Tally(OfKind(k), all)
        = Tally(Succeeded(k), all) + Tally(Unsuccessful, all)
    BY <1>1, <2>5, TallySplit
  <2>8. Tally(Succeeded(k), all) \in Nat /\ Tally(Unsuccessful, all) \in Nat
    BY <1>1, TallyNat
  <2>9. Failed(k) = Tally(Unsuccessful, all)
    BY <1>3, <2>7, <2>8 DEF Failed
  <2>10. Tally(Supported(k), all) <= Tally(Succeeded(k), all)
    BY <1>1, <2>6, TallySubset
  <2>11. counts.total[k] = Tally(OfKind(k), R)
         /\ counts.success[k] = Tally(Succeeded(k), R)
         /\ Failed(k) = Tally(Unsuccessful, R)
    BY <1>2, <1>3, <2>9
  <2>. QED  BY <1>3, <2>2, <2>3, <2>4, <2>10, <2>11 DEF Tally
<1>. QED  BY <1>4, <1>5, <1>6, <1>7 DEF RowsMatchInputs, Rowed, R

\* The report has a row for each result of each input and counts its rows
\* (main.rs:188-248, 350-444 and 521-611).
THEOREM ReportsEveryResult == Spec => []RowsMatchInputs
BY ReportIsRight, RightRows, PTL
=============================================================================
