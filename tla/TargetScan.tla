----------------------------- MODULE TargetScan -----------------------------
(***************************************************************************)
(* What the scan of one target promises, whatever the protocol and however *)
(* the server behaves: one result, given once, that claims only algorithms *)
(* the target offers, and nothing at all when it reports an error.         *)
(* Fairness, that the result does come, is more than a scan that panics    *)
(* can promise.                                                            *)
(***************************************************************************)
CONSTANTS
    Alg,   \* the algorithms of the database
    Pqc,   \* the post-quantum ones
    None   \* no result yet

VARIABLES
    offered,  \* the algorithms the target offers
    result    \* the ScanResult

vars == <<offered, result>>

Result == [error : BOOLEAN, pqc_supported : BOOLEAN, algos : SUBSET Alg]

Honest(r) ==
    /\ r.algos \subseteq offered
    /\ r.pqc_supported <=> r.algos \intersect Pqc # {}
    /\ r.error => r.algos = {}

Init ==
    /\ offered \in SUBSET Alg
    /\ result = None

Answer ==
    /\ result = None
    /\ result' \in {r \in Result : Honest(r)}
    /\ UNCHANGED offered

Spec == Init /\ [][Answer]_vars

Fairness == WF_vars(Answer)
=============================================================================
