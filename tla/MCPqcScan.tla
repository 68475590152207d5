----------------------------- MODULE MCPqcScan -----------------------------
(* Every target list of up to three of seven kinds of line, and each as -t.  *)
EXTENDS PqcScan

CONSTANTS Host, Crash, Hash, N22, N022, Word

MCText == {Empty, Host, Crash, Hash, N22, N022, Word}
MCHashed == {Hash}
MCPortOf == [x \in MCText |-> IF x \in {N22, N022} THEN 22 ELSE NoPort]
MCTextOf == 22 :> N22

\* host, host:022, :22, host:word, host::22 (an IPv6 address), #, and the host
\* whose scan may panic
MCLines == {<<Host>>, <<Host, N022>>, <<Empty, N22>>, <<Host, Word>>,
            <<Host, Empty, N22>>, <<Hash, N22>>, <<Crash>>}

MCFatal == {[host |-> <<Crash>>, port |-> 22]}
=============================================================================
