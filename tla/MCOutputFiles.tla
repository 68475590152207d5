--------------------------- MODULE MCOutputFiles ---------------------------
(* Two scans, one of which may replace a result file of an older version,  *)
(* a report over both, one of them twice, which may replace an older       *)
(* report, and two runs of pqcdump whose --output is that of the report.   *)
EXTENDS OutputFiles

CONSTANTS a, b, r, r1, r2, A, B, Old, OldR, R, P, Q, h1, h2

MCName == {a, b, r, r1, r2}
MCDocument == {A, B, Old, OldR, R, P, Q}
MCLength == [d \in MCDocument |-> IF d = P THEN 1
                                 ELSE IF d \in {Old, OldR} THEN 3 ELSE 2]
MCBefore == b :> Old @@ r :> OldR @@ r1 :> OldR
MCScans == {A, B}
MCOutputOf == A :> a @@ B :> b
MCCurrent == {A, B}
MCInputs == <<a, b, a>>
MCHost == <<h1, h2>>
MCDumps == {P, Q}
MCCandidates == <<r, r1, r2>>

Result(k, h, e, p) == [kind |-> k, host |-> h, error |-> e, pqc_supported |-> p]

MCResultsOf ==
    A :> <<Result("ssh", h2, None, TRUE), Result("ssh", h1, "timeout", FALSE)>>
    @@ B :> <<Result("tls", h1, None, FALSE), Result("tls", h1, None, TRUE),
              Result("tls", h2, "timeout", FALSE)>>
    @@ Old :> <<Result("tls", h2, None, TRUE)>>
=============================================================================
