------------------------------ MODULE ScanPool ------------------------------
(***************************************************************************)
(* What scan_runner (pqcscan/src/scan.rs) promises to its caller, with no  *)
(* word about channels, tasks or exit messages: every target is scanned    *)
(* once, its result is appended once to the list of results, and the scan  *)
(* finishes only when no target is left.                                   *)
(***************************************************************************)
EXTENDS Sequences

CONSTANT Target

VARIABLES
    pending,   \* the targets no task has taken yet
    running,   \* the targets taken, whose result is not in the list yet
    reported,  \* the list of results, each named by its target
    finished   \* the caller has its Scan

vars == <<pending, running, reported, finished>>

Init ==
    /\ pending = Target
    /\ running = {}
    /\ reported = <<>>
    /\ finished = FALSE

Begin(t) ==
    /\ ~finished
    /\ t \in pending
    /\ pending' = pending \ {t}
    /\ running' = running \union {t}
    /\ UNCHANGED <<reported, finished>>

Report(t) ==
    /\ ~finished
    /\ t \in running
    /\ running' = running \ {t}
    /\ reported' = Append(reported, t)
    /\ UNCHANGED <<pending, finished>>

Finish ==
    /\ ~finished
    /\ pending = {}
    /\ running = {}
    /\ finished' = TRUE
    /\ UNCHANGED <<pending, running, reported>>

Next ==
    \/ \E t \in Target : Begin(t) \/ Report(t)
    \/ Finish

Spec == Init /\ [][Next]_vars

\* It comes to its end.
Fairness == WF_vars(Next)
=============================================================================
