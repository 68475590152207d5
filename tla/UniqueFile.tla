----------------------------- MODULE UniqueFile -----------------------------
(***************************************************************************)
(* How runs of pqcdump write their reports (pqcdump/src/report.rs):        *)
(* create_unique_file tries the path of --output and then the names with   *)
(* -01, -02, ... until one is free, and the page is rendered into it, a    *)
(* write call at a time. The runs and whatever else creates files proceed  *)
(* side by side.                                                           *)
(***************************************************************************)
EXTENDS FileSystem

CONSTANTS
    Dumps,      \* the runs of pqcdump, each with its page in Document
    Candidates  \* the names tried, in order; 99 of them after the first

ASSUME UniqueAssumption ==
    /\ Dumps \subseteq Document
    /\ Candidates \in Seq(Name) \ {<<>>}
    /\ \A i, j \in DOMAIN Candidates : Candidates[i] = Candidates[j] => i = j


VARIABLES
    dump,     \* where each run is
    attempt,  \* the candidate it tries or has
    at        \* the blocks it has written

dumps == <<dump, attempt, at>>

DumpTypeOK ==
    /\ dump \in [Dumps -> {"naming", "writing", "done", "failed", "gave up"}]
    /\ attempt \in [Dumps -> DOMAIN Candidates]
    /\ at \in [Dumps -> Nat]
    /\ \A d \in Dumps : at[d] <= Length[d]

DumpInit ==
    /\ dump = [d \in Dumps |-> "naming"]
    /\ attempt = [d \in Dumps |-> 1]
    /\ at = [d \in Dumps |-> 0]

Path(d) == Candidates[attempt[d]]

Take_lastAnyway(d) ==
    /\ dump[d] = "naming"
    /\ IF attempt[d] < Len(Candidates) THEN CreateNew(Path(d))
       ELSE Create(Path(d))
    /\ dump' = [dump EXCEPT ![d] = "writing"]
    /\ UNCHANGED <<attempt, at>>

\* create_new succeeds
Take(d) ==
    /\ dump[d] = "naming"
    /\ CreateNew(Path(d))
    /\ dump' = [dump EXCEPT ![d] = "writing"]
    /\ UNCHANGED <<attempt, at>>

NextName_oneShort(d) ==
    /\ dump[d] = "naming"
    /\ Exists(Path(d))
    /\ IF attempt[d] < Len(Candidates) - 1
       THEN attempt' = [attempt EXCEPT ![d] = @ + 1] /\ UNCHANGED dump
       ELSE dump' = [dump EXCEPT ![d] = "gave up"] /\ UNCHANGED attempt
    /\ UNCHANGED <<content, at>>

\* ErrorKind::AlreadyExists: on to the next name, if there is one
NextName(d) ==
    /\ dump[d] = "naming"
    /\ Exists(Path(d))
    /\ IF attempt[d] < Len(Candidates)
       THEN attempt' = [attempt EXCEPT ![d] = @ + 1] /\ UNCHANGED dump
       ELSE dump' = [dump EXCEPT ![d] = "gave up"] /\ UNCHANGED attempt
    /\ UNCHANGED <<content, at>>

\* render_to writes to the file directly
WritePage(d) ==
    /\ dump[d] = "writing"
    /\ at[d] < Length[d]
    /\ WriteAt(Path(d), d, at[d] + 1)
    /\ at' = [at EXCEPT ![d] = @ + 1]
    /\ UNCHANGED <<dump, attempt>>

PageWritten(d) ==
    /\ dump[d] = "writing"
    /\ at[d] = Length[d]
    /\ dump' = [dump EXCEPT ![d] = "done"]
    /\ UNCHANGED <<content, attempt, at>>

\* Any other error of an open or a write, or the end of the process
DumpFails(d) ==
    /\ dump[d] \in {"naming", "writing"}
    /\ dump' = [dump EXCEPT ![d] = "failed"]
    /\ UNCHANGED <<content, attempt, at>>

DumpStep(d) ==
    Take(d) \/ NextName(d) \/ WritePage(d) \/ PageWritten(d) \/ DumpFails(d)

-----------------------------------------------------------------------------
(* Properties, of the runs together with anything else that creates files  *)
(* and deletes none.                                                       *)

Holds(d, n) == dump[d] \in {"writing", "done"} /\ Path(d) = n

\* A step of pqcdump changes no file but the one that run created itself, and
\* no other run has that file: "refusing to follow or overwrite an existing
\* path" (report.rs:12-45).
KeepsOthersFiles ==
    [][dumps' # dumps =>
        \A n \in Name :
            Exists(n) /\ content'[n] # content[n] =>
                \E d \in Dumps :
                    at'[d] # at[d] /\ {e \in Dumps : Holds(e, n)} = {d}
      ]_<<content, dumps>>

\* A run gives up only when every name it could have had is taken, and passes
\* over no name that is free (report.rs:30-44).
TakesFirstFree ==
    \A d \in Dumps :
        /\ \A i \in 1..(attempt[d] - 1) : Exists(Candidates[i])
        /\ dump[d] = "gave up" => \A i \in DOMAIN Candidates : Exists(Candidates[i])
=============================================================================
