---------------------------- MODULE OutputFiles ----------------------------
(***************************************************************************)
(* Scans and create_report of pqcscan and runs of pqcdump, all writing and *)
(* reading files of one file system, in any order and ending at any point. *)
(***************************************************************************)
EXTENDS ScanReport, UniqueFile

\* The result file of a scan is none of the names pqcdump tries.
ASSUME Apart ==
    \A s \in Scans, i \in DOMAIN Candidates : OutputOf[s] # Candidates[i]

VARIABLE before  \* history: what each path held at first

vars == <<content, scans, reporting, dumps, before>>

TypeOK == ReportTypeOK /\ DumpTypeOK

Init == FilesInit /\ ReportInit /\ DumpInit /\ before = content

Next ==
    \/ (\E s \in Scans : ScanStep(s)) /\ UNCHANGED <<reporting, dumps, before>>
    \/ ReportStep /\ UNCHANGED <<scans, dumps, before>>
    \/ (\E d \in Dumps : DumpStep(d)) /\ UNCHANGED <<scans, reporting, before>>

Spec == Init /\ [][Next]_vars

-----------------------------------------------------------------------------
(* Properties. *)

Occurrences(x, s) == Cardinality({i \in DOMAIN s : s[i] = x})

Rowed(Test(_)) == Cardinality({i \in DOMAIN Rows : Test(Rows[i])})

\* The report has one row for each result of each input, as often as it is
\* there, and the counts of the summary are the numbers of its rows, failures
\* (a difference of two counts) and hosts seen in several files included
\* (main.rs:188-248, 350-444 and 521-611).
RowsMatchInputs ==
    LET all == FlattenSeq([i \in DOMAIN read |-> ResultsOf[read[i]]])
    IN  /\ Len(Rows) = Len(all)
        /\ \A i \in DOMAIN all :
            Occurrences(all[i], Rows) = Occurrences(all[i], all)
        /\ \A k \in Kind :
            /\ counts.total[k] = Rowed(LAMBDA r : r.kind = k)
            /\ counts.success[k] =
                Rowed(LAMBDA r : r.kind = k /\ Status(r) = "success")
            /\ Failed(k) = Rowed(LAMBDA r : r.kind = k /\ Status(r) = "error")
            /\ counts.pqc_supported[k] <= counts.success[k]

\* Another program has had the path of the report: nothing keeps a pqcdump
\* that created it from writing into what File::create emptied under it.
Shared == \E d \in Dumps :
    Path(d) = Output /\ dump[d] \in {"writing", "done", "failed"}

\* "Report created successfully" is said only when all of it is in the file,
\* in every format, whatever failed on the way (main.rs:287-348 and 779).
SuccessMeansWhole ==
    report = "written" /\ ~Shared => content[Output] = Whole(Report)

\* A report that cannot be made, because an input is missing, cut short, still
\* being written or of another version, leaves an older report as it was
\* (main.rs:169-181 before 279-348).
RefusedKeepsOutput ==
    report \in {"reading", "refused"} /\ ~Shared =>
        content[Output] = before[Output]

\* Results are gone for good only after the scan has started to write: until
\* then the file of an earlier scan is whole, and at the end it holds all the
\* results or does not parse (main.rs:800-807).
OldOrNewResults ==
    \A s \in Scans :
        LET f == content[OutputOf[s]]
        IN  /\ scan[s] = "scanned" => f = before[OutputOf[s]]
            /\ block[s] = Length[s] => f = Whole(s)
            /\ f = Whole(s) => block[s] = Length[s]
=============================================================================
