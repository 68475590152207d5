----------------------------- MODULE ScanReport -----------------------------
(***************************************************************************)
(* The files of pqcscan (pqcscan/src/main.rs). A scan that has its results *)
(* writes them to its result file through a BufWriter; create_report reads *)
(* result files, counts their results and writes the report in one of its  *)
(* formats. They are programs of their own and run side by side.           *)
(*                                                                         *)
(* A document of several blocks is read by nobody as another document: a   *)
(* result file that is cut short, or still being written, does not parse.  *)
(* Reading a file is one step.                                             *)
(***************************************************************************)
EXTENDS FileSystem, FiniteSets, SequencesExt

CONSTANTS
    Scans,      \* the runs of ssh-scan and tls-scan, each with its document
    OutputOf,   \* their --output files
    ResultsOf,  \* the results in each document that is a result file
    Current,    \* the documents whose version is the one of create_report
    Report,     \* the document create_report writes
    Output,     \* its --output
    Inputs,     \* its --input files, in order
    Host,       \* every host, in the order of a BTreeSet of them
    None        \* no error

Kind == {"ssh", "tls"}

ASSUME ReportAssumption ==
    /\ Scans \subseteq Document
    /\ OutputOf \in [Scans -> Name]
    /\ \A s, t \in Scans : OutputOf[s] = OutputOf[t] => s = t
    /\ Scans \subseteq DOMAIN ResultsOf
    /\ \A n \in DOMAIN Before : Before[n] \notin Scans
    /\ DOMAIN ResultsOf \subseteq Document
    /\ Scans \subseteq Current
    /\ Report \in Document \ DOMAIN ResultsOf
    /\ Output \in Name
    /\ \A s \in Scans : OutputOf[s] # Output
    /\ Inputs \in Seq(Name) \ {<<>>}
    /\ Host \in Seq(Range(Host))
    /\ \A i, j \in DOMAIN Host : Host[i] = Host[j] => i = j
    /\ \A d \in DOMAIN ResultsOf : ResultsOf[d] \in Seq(Range(ResultsOf[d]))
    /\ \A d \in DOMAIN ResultsOf : \A i \in DOMAIN ResultsOf[d] :
        /\ ResultsOf[d][i].kind \in Kind
        /\ \E j \in DOMAIN Host : ResultsOf[d][i].host = Host[j]
        /\ ResultsOf[d][i].pqc_supported => ResultsOf[d][i].error = None

VARIABLES
    scan,      \* where each scan is
    block,     \* the blocks of its results it has handed to the system
    report,    \* where create_report is
    read,      \* the documents it has read, in order
    map,       \* tls_map and ssh_map
    counts,    \* the success, pqc_supported and total counts of both kinds
    written    \* the blocks of the report it has written

scans == <<scan, block>>
reporting == <<report, read, map, counts, written>>

Zero == [k \in Kind |-> 0]

ReportTypeOK ==
    /\ scan \in [Scans -> {"scanned", "writing", "said written", "ended"}]
    /\ \A s \in Scans : block[s] \in 0..Length[s]
    /\ report \in {"reading", "writing", "written", "refused",
                   "broke off"}
    /\ read \in Seq(DOMAIN ResultsOf)
    /\ Len(read) <= Len(Inputs)
    /\ counts \in [{"total", "success", "pqc_supported"} -> [Kind -> Nat]]
    /\ written \in 0..Length[Report]

ReportInit ==
    /\ scan = [s \in Scans |-> "scanned"]
    /\ block = [s \in Scans |-> 0]
    /\ report = "reading"
    /\ read = <<>>
    /\ map = [k \in Kind |-> [h \in {Host[i] : i \in DOMAIN Host} |-> <<>>]]
    /\ counts = [c \in {"total", "success", "pqc_supported"} |-> Zero]
    /\ written = 0

-----------------------------------------------------------------------------
(* main after scan_runner, run s with --output. *)

\* File::create(output_file)
CreateResultFile(s) ==
    /\ scan[s] = "scanned"
    /\ Create(OutputOf[s])
    /\ scan' = [scan EXCEPT ![s] = "writing"]
    /\ UNCHANGED block

\* to_writer_pretty fills the buffer again and again; each time it is full a
\* block goes to the file.
WriteBlock(s) ==
    /\ scan[s] = "writing"
    /\ block[s] < Length[s] - 1
    /\ WriteAt(OutputOf[s], s, block[s] + 1)
    /\ block' = [block EXCEPT ![s] = @ + 1]
    /\ UNCHANGED scan

\* "Results written successfully", with the last block still in the buffer
SayWritten(s) ==
    /\ scan[s] = "writing"
    /\ block[s] = Length[s] - 1
    /\ scan' = [scan EXCEPT ![s] = "said written"]
    /\ UNCHANGED <<content, block>>

\* The BufWriter goes out of scope, after SayWritten or after an error: it
\* writes what it holds, and an error of that write is ignored.
DropWriter(s) ==
    /\ scan[s] \in {"writing", "said written"}
    /\ block[s] < Length[s]
    /\ \/ /\ WriteAt(OutputOf[s], s, block[s] + 1)
          /\ block' = [block EXCEPT ![s] = @ + 1]
       \/ UNCHANGED <<content, block>>
    /\ scan' = [scan EXCEPT ![s] = "ended"]

\* The file cannot be created, or the process is killed: no results at all,
\* or as many as are in the file.
ScanEnds(s) ==
    /\ scan[s] # "ended"
    /\ scan' = [scan EXCEPT ![s] = "ended"]
    /\ UNCHANGED <<content, block>>

ScanStep(s) ==
    \/ CreateResultFile(s) \/ WriteBlock(s) \/ SayWritten(s)
    \/ DropWriter(s) \/ ScanEnds(s)

-----------------------------------------------------------------------------
(* create_report. *)

Status(result) == IF result.error = None THEN "success" ELSE "error"

\* The vector of the host is made when its first result comes.
File_anew(m, result) ==
    [m EXCEPT ![result.kind][result.host] = <<result>>]

File(m, result) == [m EXCEPT ![result.kind][result.host] = Append(@, result)]

Add(c, result) ==
    [total |-> [c.total EXCEPT ![result.kind] = @ + 1],
     success |-> [c.success EXCEPT ![result.kind] =
                    IF Status(result) = "success" THEN @ + 1 ELSE @],
     pqc_supported |-> [c.pqc_supported EXCEPT ![result.kind] =
                    IF result.pqc_supported THEN @ + 1 ELSE @]]

Input == Inputs[Len(read) + 1]

ReadInput_creatingFirst ==
    /\ report = "reading"
    /\ Len(read) < Len(Inputs)
    /\ \E d \in DOMAIN ResultsOf \intersect Current :
        /\ content[Input] = Whole(d)
        /\ read' = Append(read, d)
        /\ map' = FoldLeft(File, map, ResultsOf[d])
        /\ counts' = FoldLeft(Add, counts, ResultsOf[d])
    /\ Create(Output)
    /\ UNCHANGED <<report, written>>

ReadInput ==
    /\ report = "reading"
    /\ Len(read) < Len(Inputs)
    /\ \E d \in DOMAIN ResultsOf \intersect Current :
        /\ content[Input] = Whole(d)
        /\ read' = Append(read, d)
        /\ map' = FoldLeft(File, map, ResultsOf[d])
        /\ counts' = FoldLeft(Add, counts, ResultsOf[d])
    /\ UNCHANGED <<content, report, written>>

\* File::open fails, from_reader finds no Scan in the file (a panic), or the
\* version is another: none of the inputs is reported.
RefuseInput ==
    /\ report = "reading"
    /\ Len(read) < Len(Inputs)
    /\ \A d \in DOMAIN ResultsOf \intersect Current : content[Input] # Whole(d)
    /\ report' = "refused"
    /\ UNCHANGED <<content, read, map, counts, written>>

\* File::create(output_file) in the function of the format
CreateReport ==
    /\ report = "reading"
    /\ Len(read) = Len(Inputs)
    /\ Create(Output)
    /\ report' = "writing"
    /\ UNCHANGED <<read, map, counts, written>>

WriteReport ==
    /\ report = "writing"
    /\ written < Length[Report]
    /\ WriteAt(Output, Report, written + 1)
    /\ written' = written + 1
    /\ UNCHANGED <<report, read, map, counts>>

SayReported_unflushed ==
    /\ report = "writing"
    /\ written >= Length[Report] - 1
    /\ report' = "written"
    /\ UNCHANGED <<content, read, map, counts, written>>

\* writer.flush()? has returned, or render_to, which has no buffer:
\* "Report created successfully"
SayReported ==
    /\ report = "writing"
    /\ written = Length[Report]
    /\ report' = "written"
    /\ UNCHANGED <<content, read, map, counts, written>>

\* The file cannot be created, a write of it fails, or the process is killed.
\* After an error a BufWriter still tries to write what it holds.
ReportFails ==
    /\ report \in {"reading", "writing"}
    /\ report' = "broke off"
    /\ \/ /\ report = "writing"
          /\ written < Length[Report]
          /\ WriteAt(Output, Report, written + 1)
          /\ written' = written + 1
       \/ UNCHANGED <<content, written>>
    /\ UNCHANGED <<read, map, counts>>

ReportStep ==
    \/ ReadInput \/ RefuseInput \/ CreateReport \/ WriteReport \/ SayReported
    \/ ReportFails

\* The records of a CSV report and the result elements of an XML report, in
\* order: SSH before TLS, hosts in order, results of a host as they were read
Rows == FlattenSeq([i \in DOMAIN Host |-> map["ssh"][Host[i]]])
        \o FlattenSeq([i \in DOMAIN Host |-> map["tls"][Host[i]]])

Failed(k) == counts.total[k] - counts.success[k]
=============================================================================
