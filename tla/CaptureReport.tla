--------------------------- MODULE CaptureReport ---------------------------
(***************************************************************************)
(* main of pqcdump (pqcdump/src/main.rs): payloads are examined one after  *)
(* the other and fill the maps of SshSessions and TlsSessions; when        *)
(* reading ends, the report is worked out from them. Any payload may come  *)
(* at any time here; which ones packets and reassembly really give is in   *)
(* PcapPipeline, which implements this module.                             *)
(*                                                                         *)
(* The maps are HashMaps, so a loop over one visits its entries in any     *)
(* order. Only for the loop over keyshare_groups does the order matter,    *)
(* and it is here one entry at a time; the other loops are sets.           *)
(***************************************************************************)
EXTENDS Naturals, Sequences, FiniteSets

CONSTANTS
    Socket, Host, HostOf,        \* the sockets, and the host of each
    V6,                          \* the hosts with an IPv6 address
    Alg, KexLists, Clients,      \* as in SshSessions
    KexAlgos,                    \* the key exchanges kex_algos.json knows
    PqcKex,                      \* those of them that are hybrid or PQC
    Cipher, GroupId, Zero,       \* as in TlsSessions
    ClientHellos, ServerHellos,
    Groups,                      \* the groups tls_groups.json knows
    PqcGroups,                   \* those of them that are hybrid or PQC
    None,                        \* no algorithm, no session, no status
    MaxExamined                  \* bound of the model: payloads examined

VARIABLES
    sessions, host_caps,                          \* SshSessions
    tls_ciphers, keyshare_groups, tls_sessions,   \* TlsSessions
    examined,       \* payloads examined
    phase,          \* what main is doing
    todo,           \* entries of keyshare_groups the loop has not visited
    pqc_hosts,      \* hosts counted as supporting PQC
    tls_hosts_pqc   \* the status shown of each TLS host

Ssh == INSTANCE SshSessions
Tls == INSTANCE TlsSessions WITH NoSession <- None

Supported == "PQC Supported"
NoSupport == "No Support"
Tls12 == "TLS 1.2"

ASSUME ReportAssumption ==
    /\ HostOf \in [Socket -> Host]
    /\ V6 \subseteq Host
    /\ KexLists \subseteq Seq(Alg) \ {<<>>}
    /\ Clients \subseteq Socket
    /\ PqcKex \subseteq KexAlgos /\ KexAlgos \subseteq Alg
    /\ PqcGroups \subseteq Groups /\ Groups \subseteq GroupId
    /\ Zero \notin Groups /\ None \notin Alg \union GroupId \union {Zero}
    /\ None \notin {Supported, NoSupport, Tls12}
    /\ ClientHellos \subseteq Tls!ClientHello
    /\ ServerHellos \subseteq Tls!ServerHello
    /\ MaxExamined \in Nat

ssh == <<sessions, host_caps>>
tls == <<tls_ciphers, keyshare_groups, tls_sessions>>
report == <<todo, pqc_hosts, tls_hosts_pqc>>
vars == <<ssh, tls, examined, phase, report>>

TypeOK ==
    /\ Ssh!TypeOK
    /\ Tls!TypeOK
    /\ examined \in 0..MaxExamined
    /\ phase \in {"reading", "groups", "done", "panicked"}
    /\ todo \subseteq Socket
    /\ pqc_hosts \subseteq Host
    /\ tls_hosts_pqc \in [Host -> {Supported, NoSupport, Tls12, None}]

Init ==
    /\ Ssh!Init
    /\ Tls!Init
    /\ examined = 0
    /\ phase = "reading"
    /\ todo = {}
    /\ pqc_hosts = {}
    /\ tls_hosts_pqc = [h \in Host |-> None]

-----------------------------------------------------------------------------
(* What the loops of main collect from the maps. *)

HostsOf(socks) == {HostOf[s] : s \in socks}

\* the keys of a map of sets: an entry is made when something is inserted
Keys(map) == {s \in DOMAIN map : map[s] # {}}

\* ssh_hosts, tls_hosts and hosts: a host that only named ciphers is not among
\* the hosts that are counted.
SshHosts == Keys(host_caps)
TlsHosts == HostsOf(Keys(tls_ciphers))
Hosts == SshHosts \union HostsOf(Keys(keyshare_groups))

SshPqcHosts == {h \in SshHosts : host_caps[h] \intersect PqcKex # {}}

\* ssh_hosts_pqc_algos of a host
SshCapabilities(h) == host_caps[h] \intersect KexAlgos

\* ssh_sessions_results of a host: the sessions filed under it
SshSessionResults(h) ==
    {flow \in Ssh!Flow : HostOf[flow[1]] = h /\ sessions[flow].negotiated \in KexAlgos}

\* tls_host_capabilities of a host
Capabilities(h) == (UNION {keyshare_groups[s] : s \in {t \in Socket : HostOf[t] = h}})
                   \intersect Groups

\* tls_sessions_results of a client's host
SessionResults(h) ==
    {flow \in Tls!Flow : HostOf[flow[1]] = h /\ tls_sessions[flow] \in Groups}

\* The page lists the sessions of a host under its heading, and has a heading
\* for each of tls_hosts.
ShownSessions == UNION {SessionResults(h) : h \in TlsHosts}

-----------------------------------------------------------------------------

ExaminePayload ==
    /\ phase = "reading"
    /\ examined < MaxExamined
    /\ examined' = examined + 1

\* process_packet_helper, by the kind of message in the payload
ProcessSsh ==
    /\ ExaminePayload
    /\ \E flow \in Ssh!Flow, kex \in KexLists : Ssh!ProcessSsh(flow, kex)
    /\ UNCHANGED <<tls, phase, report>>

ProcessClientHello ==
    /\ ExaminePayload
    /\ \E s \in Socket, hello \in ClientHellos : Tls!ProcessClientHello(s, hello)
    /\ UNCHANGED <<ssh, phase, report>>

ProcessServerHello ==
    /\ ExaminePayload
    /\ \E flow \in Tls!Flow, hello \in ServerHellos : Tls!ProcessServerHello(flow, hello)
    /\ UNCHANGED <<ssh, phase, report>>

\* A payload without a message, or with one its parser refuses, such as the
\* segments of a ClientHello too large for one.
OtherPayload ==
    /\ ExaminePayload
    /\ UNCHANGED <<ssh, tls, phase, report>>

ServerHelloPanics ==
    /\ ExaminePayload
    /\ \E hello \in ServerHellos : Tls!Panics(hello)
    /\ phase' = "panicked"
    /\ UNCHANGED <<ssh, tls, report>>

\* next_packet returns an error, at the end of the file or before it. The SSH
\* hosts and the TLS hosts come first; the key of an IPv6 socket has no
\* brackets and does not parse as a SocketAddr.
EndCapture ==
    /\ phase = "reading"
    /\ pqc_hosts' = SshPqcHosts
    /\ IF TlsHosts \intersect V6 = {}
       THEN phase' = "groups" /\ todo' = Keys(keyshare_groups)
       ELSE phase' = "panicked" /\ UNCHANGED todo
    /\ UNCHANGED <<ssh, tls, examined, tls_hosts_pqc>>

\* One turn of the loop over keyshare_groups: the status of a host is that of
\* the socket visited last, pqc_hosts is added to only.
ReportGroups_lastWins(s) ==
    LET h == HostOf[s]
        supported == keyshare_groups[s] \intersect PqcGroups # {}
    IN  /\ phase = "groups"
        /\ s \in todo
        /\ h \notin V6
        /\ todo' = todo \ {s}
        /\ pqc_hosts' = IF supported THEN pqc_hosts \union {h} ELSE pqc_hosts \ {h}
        /\ tls_hosts_pqc' = [tls_hosts_pqc EXCEPT ![h] = IF supported THEN Supported ELSE NoSupport]
        /\ UNCHANGED <<ssh, tls, examined, phase>>

ReportGroups(s) ==
    LET h == HostOf[s]
        supported == keyshare_groups[s] \intersect PqcGroups # {}
    IN  /\ phase = "groups"
        /\ s \in todo
        /\ h \notin V6
        /\ todo' = todo \ {s}
        /\ pqc_hosts' = IF supported THEN pqc_hosts \union {h} ELSE pqc_hosts
        /\ tls_hosts_pqc' = [tls_hosts_pqc EXCEPT ![h] = IF supported THEN Supported ELSE NoSupport]
        /\ UNCHANGED <<ssh, tls, examined, phase>>

GroupsPanic(s) ==
    /\ phase = "groups"
    /\ s \in todo
    /\ HostOf[s] \in V6
    /\ phase' = "panicked"
    /\ UNCHANGED <<ssh, tls, examined, report>>

\* The TLS hosts without a status are given one, and the report is generated.
Finish_overwrites ==
    /\ phase = "groups"
    /\ todo = {}
    /\ phase' = "done"
    /\ tls_hosts_pqc' = [h \in Host |-> IF h \in TlsHosts THEN Tls12 ELSE tls_hosts_pqc[h]]
    /\ UNCHANGED <<ssh, tls, examined, todo, pqc_hosts>>

Finish ==
    /\ phase = "groups"
    /\ todo = {}
    /\ phase' = "done"
    /\ tls_hosts_pqc' = [h \in Host |->
            IF h \in TlsHosts /\ tls_hosts_pqc[h] = None THEN Tls12 ELSE tls_hosts_pqc[h]]
    /\ UNCHANGED <<ssh, tls, examined, todo, pqc_hosts>>

Next ==
    \/ ProcessSsh
    \/ ProcessClientHello
    \/ ProcessServerHello
    \/ OtherPayload
    \/ ServerHelloPanics
    \/ EndCapture
    \/ \E s \in Socket : ReportGroups(s) \/ GroupsPanic(s)
    \/ Finish

Spec == Init /\ [][Next]_vars

-----------------------------------------------------------------------------
(* Properties. *)

\* The tables of the report agree: the group of a TLS session, listed under its
\* client, is among the algorithms listed under its server (tls.rs:69-73 fills
\* two maps that main.rs:320-397 reports apart). An SSH session is listed under
\* a host that has a heading, and its algorithm is among those listed of both
\* ends, of whom one may have named it in another connection or after the other
\* (ssh.rs:113-127 fills what main.rs:201-288 reports apart).
SessionsMatchCapabilities ==
    \A h \in Host :
        /\ \A flow \in SessionResults(h) :
              tls_sessions[flow] \in Capabilities(HostOf[flow[2]])
        /\ \A flow \in SshSessionResults(h) :
              /\ h \in SshHosts
              /\ sessions[flow].negotiated \in
                    SshCapabilities(h) \intersect SshCapabilities(HostOf[flow[2]])

\* Whatever the order of the loops, the hosts counted as supporting PQC are
\* those that named a PQC algorithm in SSH or TLS, on any of their ports, and
\* they are among the hosts counted (main.rs:201-246, 319-359).
PqcHostsRight ==
    phase = "done" =>
        /\ pqc_hosts = {h \in Host : \/ host_caps[h] \intersect PqcKex # {}
                                     \/ Capabilities(h) \intersect PqcGroups # {}}
        /\ pqc_hosts \subseteq Hosts

\* A session that used PQC has PQC hosts: the server of a TLS session, which
\* chose the group, and both ends of an SSH session, which named the algorithm
\* (the page counts sessions and hosts from different maps, main.rs:251-288 and
\* 366-404 against 201-246 and 319-359).
PqcSessionsBacked ==
    phase = "done" =>
        /\ \A flow \in Tls!Flow :
              tls_sessions[flow] \in PqcGroups => HostOf[flow[2]] \in pqc_hosts
        /\ \A flow \in Ssh!Flow :
              sessions[flow].negotiated \in PqcKex
                  => {HostOf[flow[1]], HostOf[flow[2]]} \subseteq pqc_hosts

\* Every TLS host of the report has a status; one shown as PQC is counted as
\* such, and one shown as TLS 1.2 is not the server of any session and has no
\* algorithm listed (main.rs:303, 351-364).
StatusBacked ==
    phase = "done" =>
        \A h \in TlsHosts :
            /\ tls_hosts_pqc[h] # None
            /\ tls_hosts_pqc[h] = Supported => h \in pqc_hosts
            /\ tls_hosts_pqc[h] = NoSupport => h \in Hosts
            /\ tls_hosts_pqc[h] = Tls12 =>
                  /\ Capabilities(h) = {}
                  /\ \A flow \in Tls!Flow :
                        HostOf[flow[2]] = h => tls_sessions[flow] = None
=============================================================================
