----------------------------- MODULE TlsTarget -----------------------------
(***************************************************************************)
(* tls_scan_target of pqcscan/src/tls.rs against one target: one           *)
(* connection for each group to test, with a ClientHello that offers this  *)
(* group alone, and a verdict from the first bytes that come back.         *)
(*                                                                         *)
(* Each connection resolves the name anew and uses the first address, so   *)
(* the groups of one scan may be tested against different machines. The    *)
(* groups are the values of a HashMap and are tested in any order.         *)
(***************************************************************************)
EXTENDS Naturals, Sequences

CONSTANTS
    Group,    \* config.tls_config.groups
    Pqc,      \* those with pqc set
    Hybrid,   \* those with hybrid set
    Address,  \* the addresses the target's name may resolve to
    Offers,   \* the sets of groups a machine may support
    None      \* no result, address, group or reply

ASSUME TlsAssumption ==
    /\ Hybrid \subseteq Pqc
    /\ Pqc \subseteq Group
    /\ Offers \subseteq SUBSET Group

VARIABLES
    supports,      \* the groups each machine supports
    hybrid_only,   \* the argument hybrid_algos_only
    with_nonpqc,   \* the argument scan_nonpqc_algos
    phase,         \* where the scan is
    todo,          \* the groups to test that are left
    group,         \* the group being tested
    peer,          \* the address of its connection
    reply,         \* what the peer has answered
    addr,          \* the address of the first connection
    found,         \* the groups the three lists hold so far
    asked,         \* the groups tested, each with its peer (history)
    smooth,        \* all connections were made and all replies read (history)
    result         \* the ScanResult

options == <<hybrid_only, with_nonpqc>>
vars == <<supports, options, phase, todo, group, peer, reply, addr, found,
          asked, smooth, result>>

\* ScanResult::Tls; lists that are None are empty here
Result == [addr : Address \union {None}, error : BOOLEAN,
           pqc_supported : BOOLEAN, pqc_algos : SUBSET (Pqc \ Hybrid),
           hybrid_algos : SUBSET Hybrid, nonpqc_algos : SUBSET (Group \ Pqc)]

\* None is not a value of the program.
ASSUME NoneAssumption ==
    /\ None \notin Group \union Address
    /\ None \notin Result
    /\ None \notin {"server_hello", "alert", "other"}

TypeOK ==
    /\ supports \in [Address -> Offers]
    /\ hybrid_only \in BOOLEAN /\ with_nonpqc \in BOOLEAN
    /\ phase \in {"connecting", "handshake", "done", "panicked"}
    /\ todo \subseteq Group /\ found \subseteq Group
    /\ group \in Group \union {None}
    /\ peer \in Address \union {None} /\ addr \in Address \union {None}
    /\ reply \in {"server_hello", "alert", "other", None}
    /\ asked \in Seq(Group \X Address)
    /\ smooth \in BOOLEAN
    /\ result \in Result \union {None}

\* groups_to_test
Selected(only, nonpqc) ==
    {g \in Group : (only => g \in Hybrid) /\ (g \in Pqc \/ nonpqc)}

Init ==
    /\ supports \in [Address -> Offers]
    /\ hybrid_only \in BOOLEAN /\ with_nonpqc \in BOOLEAN
    /\ phase = "connecting"
    /\ todo = Selected(hybrid_only, with_nonpqc)
    /\ group = None /\ peer = None /\ reply = None /\ addr = None
    /\ found = {} /\ asked = <<>>
    /\ smooth = TRUE
    /\ result = None

-----------------------------------------------------------------------------
\* The first address the name resolves to accepts the connection.
Connect(g, a) ==
    /\ phase = "connecting"
    /\ g \in todo
    /\ todo' = todo \ {g}
    /\ group' = g /\ peer' = a
    /\ addr' = IF addr = None THEN a ELSE addr
    /\ asked' = Append(asked, <<g, a>>)
    /\ phase' = "handshake"
    /\ UNCHANGED <<supports, options, reply, found, smooth, result>>

\* One connection that cannot be made ends the scan with an error; what was
\* found before it is not reported.
ConnectFails ==
    /\ phase = "connecting"
    /\ todo # {}
    /\ phase' = "done"
    /\ result' = [addr |-> None, error |-> TRUE, pqc_supported |-> FALSE,
                  pqc_algos |-> {}, hybrid_algos |-> {}, nonpqc_algos |-> {}]
    /\ smooth' = FALSE
    /\ UNCHANGED <<supports, options, todo, group, peer, reply, addr, found, asked>>

\* The socket for the connection cannot be made, or not be made a blocking one:
\* these errors are unwrapped (also in utils.rs:74, 77), and the scan dies with
\* all it has found, without a result.
ConnectPanics ==
    /\ phase = "connecting"
    /\ todo # {}
    /\ phase' = "panicked"
    /\ smooth' = FALSE
    /\ UNCHANGED <<supports, options, todo, group, peer, reply, addr, found,
                   asked, result>>

\* The peer answers the ClientHello with a ServerHello (or a request to retry
\* with a key share, which looks the same) when it supports the group, with an
\* alert when it does not; or the connection ends, or anything else arrives.
PeerAnswers ==
    /\ phase = "handshake"
    /\ reply = None
    /\ \/ /\ reply' = IF group \in supports[peer] THEN "server_hello" ELSE "alert"
          /\ smooth' = smooth
       \/ /\ reply' = "other"
          /\ smooth' = FALSE
    /\ UNCHANGED <<supports, options, phase, todo, group, peer, addr, found,
                   asked, result>>

NextGroup == phase' = "connecting" /\ group' = None /\ peer' = None /\ reply' = None

\* tls_connect_with_group returns Ok: the group goes into its list.
HandshakeOk ==
    /\ phase = "handshake"
    /\ reply = "server_hello"
    /\ found' = found \union {group}
    /\ NextGroup
    /\ UNCHANGED <<supports, options, todo, addr, asked, smooth, result>>

HandshakeErr_retries ==
    /\ phase = "handshake"
    /\ reply \in {"alert", "other"}
    /\ todo' = IF reply = "other" /\ Len(asked) < 2 THEN todo \union {group} ELSE todo
    /\ NextGroup
    /\ UNCHANGED <<supports, options, addr, found, asked, smooth, result>>

\* It returns an error: whatever the reason, only logged.
HandshakeErr ==
    /\ phase = "handshake"
    /\ reply \in {"alert", "other"}
    /\ NextGroup
    /\ UNCHANGED <<supports, options, todo, addr, found, asked, smooth, result>>

\* Nothing to read within config.read_timeout, or the write fails.
HandshakeTimeout ==
    /\ phase = "handshake"
    /\ reply = None
    /\ NextGroup
    /\ smooth' = FALSE
    /\ UNCHANGED <<supports, options, todo, addr, found, asked, result>>

\* the lists pqc_algos, hybrid_algos and nonpqc_algos, and pqc_supported
Listed_hybridTwice(groups) ==
    [addr |-> addr, error |-> FALSE,
     pqc_supported |-> groups \intersect Pqc # {},
     pqc_algos |-> groups \intersect Pqc,
     hybrid_algos |-> groups \intersect Hybrid,
     nonpqc_algos |-> groups \ Pqc]

Listed_lastList(groups) ==
    [addr |-> addr, error |-> FALSE,
     pqc_supported |-> groups \intersect Pqc # {},
     pqc_algos |-> (groups \intersect Pqc) \ Hybrid,
     hybrid_algos |-> IF groups \subseteq Hybrid THEN groups ELSE {},
     nonpqc_algos |-> groups \ Pqc]

Listed_supportedByAny(groups) ==
    [addr |-> addr, error |-> FALSE,
     pqc_supported |-> groups # {},
     pqc_algos |-> (groups \intersect Pqc) \ Hybrid,
     hybrid_algos |-> groups \intersect Hybrid,
     nonpqc_algos |-> groups \ Pqc]

Listed(groups) ==
    [addr |-> addr, error |-> FALSE,
     pqc_supported |-> groups \intersect Pqc # {},
     pqc_algos |-> (groups \intersect Pqc) \ Hybrid,
     hybrid_algos |-> groups \intersect Hybrid,
     nonpqc_algos |-> groups \ Pqc]

\* The loop is over.
Finish ==
    /\ phase = "connecting"
    /\ todo = {}
    /\ phase' = "done"
    /\ result' = Listed(found)
    /\ UNCHANGED <<supports, options, todo, group, peer, reply, addr, found,
                   asked, smooth>>

Scan ==
    \/ \E g \in todo, a \in Address : Connect(g, a)
    \/ ConnectFails
    \/ ConnectPanics
    \/ HandshakeOk
    \/ HandshakeErr
    \/ HandshakeTimeout
    \/ Finish

Next == PeerAnswers \/ Scan

Spec == Init /\ [][Next]_vars

\* The task is polled, connecting takes 5 seconds at most and a read 10.
FairSpec == Spec /\ WF_vars(Scan)

-----------------------------------------------------------------------------
(* Properties. *)

Claims(r) == r.pqc_algos \union r.hybrid_algos \union r.nonpqc_algos

\* The groups the machines they were tested against support.
Supported == {g \in Group :
    \E i \in DOMAIN asked : asked[i][1] = g /\ g \in supports[asked[i][2]]}

\* No group is tested twice, and none that the options leave out; a scan that
\* ends without an error has tested all the others (tls.rs:520-532, 542).
EachGroupOnce ==
    /\ \A i, j \in DOMAIN asked : asked[i][1] = asked[j][1] => i = j
    /\ \A i \in DOMAIN asked :
        /\ hybrid_only => asked[i][1] \in Hybrid
        /\ ~with_nonpqc => asked[i][1] \in Pqc
    /\ result # None /\ ~result.error =>
        \A g \in Group :
            g \in Hybrid \/ (~hybrid_only /\ (g \in Pqc \/ with_nonpqc))
                => \E i \in DOMAIN asked : asked[i][1] = g

\* A scan whose connections and reads all went well reports exactly the groups
\* that were tested and are supported; otherwise it reports some of them.
ReportsSupported ==
    result # None =>
        /\ Claims(result) \subseteq Supported
        /\ smooth => Claims(result) = Supported

\* A result of the scan as TargetScan sees it.
Target == INSTANCE TargetScan WITH
    Alg <- Group,
    offered <- UNION {supports[a] : a \in Address},
    result <- IF result = None THEN None
              ELSE [error |-> result.error,
                    pqc_supported |-> result.pqc_supported,
                    algos |-> Claims(result)]

\* tls_scan_target implements the promise every scan makes (TargetScan): one
\* result, given once, each claim of which holds for a machine behind the
\* target's name; and unless it panics the result does come (tls.rs:504-636).
ImplementsTargetScan ==
    Target!Spec /\ ([](phase # "panicked") => Target!Fairness)
=============================================================================
