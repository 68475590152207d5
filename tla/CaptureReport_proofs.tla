------------------------ MODULE CaptureReport_proofs ------------------------
(***************************************************************************)
(* Proofs about CaptureReport, for any sockets, hosts, algorithms and      *)
(* messages, and a capture of any length: the capture implements           *)
(* SshSessions, whose theorems then speak about the report; the maps of    *)
(* TlsSessions agree; and the report's loop may take any order.            *)
(***************************************************************************)
EXTENDS CaptureReport, TLAPS

SshP == INSTANCE SshSessions_proofs

\* What SshSessions assumes of its constants holds of those of the report.
LEMMA SshAssumed == SshP!SessionsAssumption
BY ReportAssumption DEF SshP!SessionsAssumption

\* The two instances of SshSessions are the same.
LEMMA SameSsh ==
    ASSUME NEW flow \in Ssh!Flow, NEW kex \in KexLists, Ssh!ProcessSsh(flow, kex)
    PROVE  flow \in SshP!Flow /\ SshP!ProcessSsh(flow, kex)
<1>1. ASSUME NEW client, NEW server
      PROVE  Ssh!Negotiate(client, server) = SshP!Negotiate(client, server)
  BY DEF Ssh!Negotiate, SshP!Negotiate, Ssh!Names, SshP!Names
<1>2. ASSUME NEW session PROVE Ssh!Settle(session) = SshP!Settle(session)
  BY <1>1 DEF Ssh!Settle, SshP!Settle
<1>3. ASSUME NEW session, NEW forward
      PROVE  Ssh!Record(session, forward, kex) = SshP!Record(session, forward, kex)
  BY DEF Ssh!Record, SshP!Record
<1>4. ASSUME NEW caps, NEW host, NEW prev, NEW next
      PROVE  Ssh!AddCaps(caps, host, prev, next, kex) = SshP!AddCaps(caps, host, prev, next, kex)
  BY DEF Ssh!AddCaps, SshP!AddCaps, Ssh!Names, SshP!Names
<1>5. ASSUME NEW map PROVE Ssh!IsForward(map, flow) = SshP!IsForward(map, flow)
  BY DEF Ssh!IsForward, SshP!IsForward, Ssh!NoSession, SshP!NoSession, Ssh!Reverse, SshP!Reverse
<1>6. Ssh!Reverse(flow) = SshP!Reverse(flow)
  BY DEF Ssh!Reverse, SshP!Reverse
<1>7. Ssh!After(sessions, host_caps, flow, kex) = SshP!After(sessions, host_caps, flow, kex)
  BY <1>2, <1>3, <1>4, <1>5, <1>6 DEF Ssh!After, SshP!After
<1>. QED
  BY <1>7 DEF Ssh!ProcessSsh, SshP!ProcessSsh, Ssh!Flow, SshP!Flow

\* Only ProcessSsh touches the maps of SshSessions.
LEMMA OthersKeepSsh ==
    ASSUME [Next]_vars, ~ProcessSsh
    PROVE  UNCHANGED ssh
BY DEF Next, vars, ProcessClientHello, ProcessServerHello, OtherPayload,
       ServerHelloPanics, EndCapture, ReportGroups, GroupsPanic, Finish

\* A capture, TLS hellos and the work of the report included, is a behaviour
\* of SshSessions (main.rs:546-558 shares no state between the two parsers).
THEOREM ImplementsSsh == Spec => SshP!Spec
<1>1. Init => SshP!Init
  BY DEF Init, Ssh!Init, SshP!Init, Ssh!NoSession, SshP!NoSession, Ssh!Flow, SshP!Flow
<1>2. [Next]_vars => [SshP!Next]_(SshP!vars)
  <2>. SUFFICES ASSUME [Next]_vars PROVE [SshP!Next]_(SshP!vars)
    OBVIOUS
  <2>1. CASE ProcessSsh
    BY <2>1, SameSsh DEF ProcessSsh, SshP!Next
  <2>2. CASE ~ProcessSsh
    BY <2>2, OthersKeepSsh DEF ssh, SshP!vars
  <2>. QED
    BY <2>1, <2>2
<1>. QED
  BY <1>1, <1>2, PTL DEF Spec, SshP!Spec

\* What is proved of SshSessions and used here.
LEMMA SshFacts ==
    Spec => [](SshP!TypeOK /\ SshP!NegotiatedRight /\ SshP!CapsMatchSessions)
BY ImplementsSsh, SshAssumed, SshP!TypeCorrect, SshP!NegotiatesRight, SshP!CapsAgree, PTL

\* Both ends of an SSH session have named the algorithm it negotiated.
LEMMA NegotiatedIsNamed ==
    ASSUME SshP!TypeOK, SshP!NegotiatedRight, SshP!CapsMatchSessions,
           NEW flow \in Ssh!Flow, sessions[flow].negotiated # None
    PROVE  /\ sessions[flow].negotiated \in host_caps[HostOf[flow[1]]]
           /\ sessions[flow].negotiated \in host_caps[HostOf[flow[2]]]
<1> DEFINE client == sessions[flow].client
           server == sessions[flow].server
           a == sessions[flow].negotiated
<1>1. /\ flow \in SshP!Flow
      /\ flow[1] \in Socket /\ flow[2] \in Socket
      /\ HostOf[flow[1]] \in Host /\ HostOf[flow[2]] \in Host
  BY ReportAssumption DEF Ssh!Flow, SshP!Flow
<1>2. client \in KexLists /\ server \in KexLists /\ a = SshP!Negotiate(client, server)
  BY <1>1 DEF SshP!TypeOK, SshP!Session, SshP!NegotiatedRight
<1>3. a \in SshP!Names(client) /\ a \in SshP!Names(server)
  BY <1>2, SshAssumed, SshP!NegotiateType
<1>4. SshP!Names(client) \subseteq host_caps[HostOf[flow[1]]]
  BY <1>1 DEF SshP!CapsMatchSessions
<1>5. SshP!Names(server) \subseteq host_caps[HostOf[flow[2]]]
  BY <1>1 DEF SshP!CapsMatchSessions
<1>. QED
  BY <1>3, <1>4, <1>5

-----------------------------------------------------------------------------
(* The maps of TlsSessions. *)

\* The group of a session is one its server is known for: what makes the
\* tables of the report agree, kept by ProcessServerHello alone.
Backed ==
    \A flow \in Tls!Flow :
        tls_sessions[flow] # None => tls_sessions[flow] \in keyshare_groups[flow[2]]

TlsInv == Tls!TypeOK /\ Backed

\* The group a ServerHello shows is a group or zero.
LEMMA KeyShareType ==
    ASSUME NEW hello \in ServerHellos
    PROVE  Tls!KeyShare(hello) \in GroupId \union {Zero}
<1>1. hello.shares \in Seq(Seq(GroupId))
  BY ReportAssumption DEF Tls!ServerHello
<1>2. CASE hello.shares = <<>>
  BY <1>2 DEF Tls!KeyShare
<1>3. CASE hello.shares # <<>>
  <2>1. hello.shares[Len(hello.shares)] \in Seq(GroupId)
    BY <1>1, <1>3
  <2>. QED
    BY <1>3, <2>1 DEF Tls!KeyShare
<1>. QED
  BY <1>2, <1>3

LEMMA TlsClientStep ==
    ASSUME TlsInv, NEW s \in Socket, NEW hello \in ClientHellos,
           Tls!ProcessClientHello(s, hello)
    PROVE  TlsInv'
<1>1. hello.ciphers \subseteq Cipher /\ hello.groups \subseteq GroupId
  BY ReportAssumption DEF Tls!ClientHello
<1>2. /\ tls_ciphers' = [tls_ciphers EXCEPT ![s] = @ \union hello.ciphers]
      /\ keyshare_groups' = [keyshare_groups EXCEPT ![s] = @ \union hello.groups]
      /\ tls_sessions' = tls_sessions
  BY DEF Tls!ProcessClientHello, Tls!AddTo
<1>3. Tls!TypeOK'
  BY <1>1, <1>2 DEF TlsInv, Tls!TypeOK
<1>4. \A t \in Socket : keyshare_groups[t] \subseteq keyshare_groups'[t]
  BY <1>2 DEF TlsInv, Tls!TypeOK
<1>5. Backed'
  BY <1>2, <1>4 DEF TlsInv, Backed, Tls!Flow
<1>. QED
  BY <1>3, <1>5 DEF TlsInv

LEMMA TlsServerStep ==
    ASSUME TlsInv, NEW f \in Tls!Flow, NEW hello \in ServerHellos,
           Tls!ProcessServerHello(f, hello)
    PROVE  TlsInv'
<1> DEFINE g == Tls!KeyShare(hello)
<1>1. g \in GroupId \union {Zero}
  BY KeyShareType
<1>2. hello.cipher \in Cipher /\ f[1] \in Socket /\ f[2] \in Socket
  BY ReportAssumption DEF Tls!ServerHello, Tls!Flow
<1>3. /\ tls_ciphers' = [tls_ciphers EXCEPT ![f[2]] = @ \union {hello.cipher}]
      /\ keyshare_groups' = [keyshare_groups EXCEPT ![f[2]] = @ \union {g}]
      /\ tls_sessions' = [tls_sessions EXCEPT ![f] = g]
  BY DEF Tls!ProcessServerHello, Tls!AddTo
<1> HIDE DEF g
<1>4. Tls!TypeOK'
  BY <1>1, <1>2, <1>3 DEF TlsInv, Tls!TypeOK
<1>5. /\ \A t \in Socket : keyshare_groups[t] \subseteq keyshare_groups'[t]
      /\ g \in keyshare_groups'[f[2]]
  BY <1>2, <1>3 DEF TlsInv, Tls!TypeOK
<1>6. ASSUME NEW flow \in Tls!Flow, tls_sessions'[flow] # None
      PROVE  tls_sessions'[flow] \in keyshare_groups'[flow[2]]
  <2>1. CASE flow = f
    BY <1>3, <1>5, <2>1 DEF TlsInv, Tls!TypeOK
  <2>2. CASE flow # f
    <3>1. tls_sessions'[flow] = tls_sessions[flow]
      BY <1>3, <2>2 DEF TlsInv, Tls!TypeOK
    <3>2. flow[2] \in Socket
      BY DEF Tls!Flow
    <3>. QED
      BY <1>5, <1>6, <3>1, <3>2 DEF TlsInv, Backed
  <2>. QED
    BY <2>1, <2>2
<1>. QED
  BY <1>4, <1>6 DEF TlsInv, Backed

LEMMA TlsInvariance == Spec => []TlsInv
<1>1. Init => TlsInv
  BY DEF Init, Tls!Init, TlsInv, Tls!TypeOK, Backed
<1>2. TlsInv /\ [Next]_vars => TlsInv'
  <2>. SUFFICES ASSUME TlsInv, [Next]_vars PROVE TlsInv'
    OBVIOUS
  <2>1. CASE ProcessClientHello
    BY <2>1, TlsClientStep DEF ProcessClientHello
  <2>2. CASE ProcessServerHello
    BY <2>2, TlsServerStep DEF ProcessServerHello
  <2>3. CASE ~ProcessClientHello /\ ~ProcessServerHello
    <3>1. tls' = tls
      BY <2>3 DEF Next, vars, ProcessSsh, OtherPayload, ServerHelloPanics,
                  EndCapture, ReportGroups, GroupsPanic, Finish
    <3>. QED
      BY <3>1 DEF tls, TlsInv, Tls!TypeOK, Backed
  <2>. QED
    BY <2>1, <2>2, <2>3
<1>. QED
  BY <1>1, <1>2, PTL DEF Spec

\* The group of a TLS session listed under its client is listed under its
\* server, the algorithm of an SSH session under both ends.
THEOREM TablesAgree == Spec => []SessionsMatchCapabilities
<1>1. ASSUME TlsInv, NEW h \in Host, NEW flow \in SessionResults(h)
      PROVE  tls_sessions[flow] \in Capabilities(HostOf[flow[2]])
  <2>1. /\ flow \in Tls!Flow
        /\ tls_sessions[flow] \in Groups
        /\ flow[2] \in Socket
    BY DEF SessionResults, Tls!Flow
  <2>2. tls_sessions[flow] # None
    BY <2>1, ReportAssumption
  <2>3. tls_sessions[flow] \in keyshare_groups[flow[2]]
    BY <1>1, <2>1, <2>2 DEF TlsInv, Backed
  <2>. QED
    BY <2>1, <2>3 DEF Capabilities
<1>2. ASSUME SshP!TypeOK, SshP!NegotiatedRight, SshP!CapsMatchSessions,
             NEW h \in Host, NEW flow \in SshSessionResults(h)
      PROVE  /\ h \in SshHosts
             /\ sessions[flow].negotiated \in
                    SshCapabilities(h) \intersect SshCapabilities(HostOf[flow[2]])
  <2>1. /\ flow \in Ssh!Flow
        /\ HostOf[flow[1]] = h
        /\ sessions[flow].negotiated \in KexAlgos
    BY DEF SshSessionResults
  <2>2. sessions[flow].negotiated # None
    BY <2>1, ReportAssumption
  <2>3. /\ sessions[flow].negotiated \in host_caps[h]
        /\ sessions[flow].negotiated \in host_caps[HostOf[flow[2]]]
    BY <1>2, <2>1, <2>2, NegotiatedIsNamed
  <2>4. h \in DOMAIN host_caps
    BY <1>2 DEF SshP!TypeOK
  <2>. QED
    BY <2>1, <2>3, <2>4 DEF SshCapabilities, SshHosts, Keys
<1>3. /\ TlsInv
      /\ SshP!TypeOK /\ SshP!NegotiatedRight /\ SshP!CapsMatchSessions
      => SessionsMatchCapabilities
  BY <1>1, <1>2 DEF SessionsMatchCapabilities
<1>. QED
  BY <1>3, TlsInvariance, SshFacts, PTL

-----------------------------------------------------------------------------
(* The loop of the report. *)

\* the sockets with a PQC group
PqcSockets == {s \in Keys(keyshare_groups) : keyshare_groups[s] \intersect PqcGroups # {}}

\* While the loop runs, the hosts counted are the SSH hosts and those of the
\* sockets visited so far; it ends when all have been.
Counted == pqc_hosts = SshPqcHosts \union HostsOf(PqcSockets \ todo)

LoopInv ==
    /\ phase \in {"groups", "done"} => Counted
    /\ phase = "done" => todo = {}

LEMMA EndCaptureStep ==
    ASSUME EndCapture PROVE LoopInv'
<1>1. /\ UNCHANGED <<host_caps, keyshare_groups>>
      /\ pqc_hosts' = SshPqcHosts
      /\ phase' \in {"groups", "panicked"}
      /\ phase' = "groups" => todo' = Keys(keyshare_groups)
  BY DEF EndCapture, ssh, tls
<1>2. SshPqcHosts' = SshPqcHosts /\ PqcSockets' = PqcSockets
  BY <1>1 DEF SshPqcHosts, SshHosts, PqcSockets, Keys
<1>3. HostsOf(PqcSockets \ Keys(keyshare_groups)) = {}
  BY DEF HostsOf, PqcSockets
<1>4. phase' = "groups" => HostsOf((PqcSockets \ todo)') = {}
  BY <1>1, <1>2, <1>3
<1>. QED
  BY <1>1, <1>2, <1>4 DEF LoopInv, Counted, HostsOf

LEMMA ReportGroupsStep ==
    ASSUME LoopInv, NEW s \in Socket, ReportGroups(s), todo \subseteq Keys(keyshare_groups)
    PROVE  LoopInv'
<1>1. /\ UNCHANGED <<host_caps, keyshare_groups, phase>>
      /\ phase = "groups" /\ s \in todo /\ todo' = todo \ {s}
      /\ pqc_hosts' = IF keyshare_groups[s] \intersect PqcGroups # {}
                      THEN pqc_hosts \union {HostOf[s]} ELSE pqc_hosts
  BY DEF ReportGroups, ssh, tls
<1>2. SshPqcHosts' = SshPqcHosts /\ PqcSockets' = PqcSockets
  BY <1>1 DEF SshPqcHosts, SshHosts, PqcSockets, Keys
<1>3. Counted
  BY <1>1 DEF LoopInv
<1>4. CASE keyshare_groups[s] \intersect PqcGroups # {}
  <2>1. PqcSockets \ (todo \ {s}) = (PqcSockets \ todo) \union {s}
    BY <1>1, <1>4 DEF PqcSockets
  <2>2. HostsOf((PqcSockets \ todo) \union {s}) = HostsOf(PqcSockets \ todo) \union {HostOf[s]}
    BY DEF HostsOf
  <2>. QED
    BY <1>1, <1>2, <1>3, <1>4, <2>1, <2>2 DEF LoopInv, Counted, HostsOf
<1>5. CASE keyshare_groups[s] \intersect PqcGroups = {}
  <2>1. PqcSockets \ (todo \ {s}) = PqcSockets \ todo
    BY <1>1, <1>5 DEF PqcSockets
  <2>. QED
    BY <1>1, <1>2, <1>3, <1>5, <2>1 DEF LoopInv, Counted, HostsOf
<1>. QED
  BY <1>4, <1>5

\* No entry of keyshare_groups is ever removed.
LEMMA KeysGrow ==
    ASSUME TlsInv, TlsInv', ProcessSsh \/ ProcessClientHello \/ ProcessServerHello
    PROVE  Keys(keyshare_groups) \subseteq Keys(keyshare_groups')
<1>1. ASSUME NEW s \in Socket PROVE keyshare_groups[s] \subseteq keyshare_groups'[s]
  <2>1. CASE ProcessSsh
    BY <2>1 DEF ProcessSsh, tls
  <2>2. CASE ProcessClientHello
    BY <2>2 DEF ProcessClientHello, Tls!ProcessClientHello, Tls!AddTo, TlsInv, Tls!TypeOK
  <2>3. CASE ProcessServerHello
    BY <2>3 DEF ProcessServerHello, Tls!ProcessServerHello, Tls!AddTo, TlsInv, Tls!TypeOK
  <2>. QED
    BY <2>1, <2>2, <2>3
<1>. QED
  BY <1>1 DEF Keys, TlsInv, Tls!TypeOK

LEMMA LoopInvariance == Spec => [](LoopInv /\ todo \subseteq Keys(keyshare_groups))
<1> DEFINE Inv == LoopInv /\ todo \subseteq Keys(keyshare_groups)
<1>1. Init => Inv
  BY DEF Init, LoopInv
<1>2. TlsInv /\ TlsInv' /\ Inv /\ [Next]_vars => Inv'
  <2>. SUFFICES ASSUME TlsInv, TlsInv', Inv, [Next]_vars PROVE Inv'
    OBVIOUS
  <2>1. CASE EndCapture
    <3>1. todo' \subseteq Keys(keyshare_groups)'
      BY <2>1 DEF EndCapture, tls, Keys
    <3>. QED
      BY <2>1, <3>1, EndCaptureStep
  <2>2. CASE \E s \in Socket : ReportGroups(s)
    <3>1. todo' \subseteq Keys(keyshare_groups)'
      BY <2>2 DEF ReportGroups, tls, Keys
    <3>. QED
      BY <2>2, <3>1, ReportGroupsStep
  <2>3. CASE Finish
    <3>1. /\ UNCHANGED <<host_caps, keyshare_groups, todo, pqc_hosts>>
          /\ phase = "groups" /\ todo = {}
      BY <2>3 DEF Finish, ssh, tls
    <3>. QED
      BY <3>1 DEF LoopInv, Counted, SshPqcHosts, SshHosts, PqcSockets, HostsOf, Keys
  <2>4. CASE ProcessSsh \/ ProcessClientHello \/ ProcessServerHello
    <3>1. phase' = "reading" /\ todo' = todo
      BY <2>4 DEF ProcessSsh, ProcessClientHello, ProcessServerHello, ExaminePayload, report
    <3>2. Keys(keyshare_groups) \subseteq Keys(keyshare_groups')
      BY <2>4, KeysGrow
    <3>. QED
      BY <3>1, <3>2 DEF LoopInv, Keys
  <2>5. CASE OtherPayload \/ ServerHelloPanics \/ (\E s \in Socket : GroupsPanic(s))
    <3>1. /\ UNCHANGED <<host_caps, keyshare_groups, todo, pqc_hosts>>
          /\ phase' \in {"reading", "panicked"}
      BY <2>5 DEF OtherPayload, ServerHelloPanics, GroupsPanic, ExaminePayload, ssh, tls, report
    <3>. QED
      BY <3>1 DEF LoopInv, Keys
  <2>6. CASE UNCHANGED vars
    BY <2>6 DEF vars, ssh, tls, report, LoopInv, Counted, SshPqcHosts, SshHosts,
                PqcSockets, HostsOf, Keys
  <2>. QED
    BY <2>1, <2>2, <2>3, <2>4, <2>5, <2>6 DEF Next
<1>. QED
  BY <1>1, <1>2, TlsInvariance, PTL DEF Spec

\* Whatever order the loop takes, the hosts counted as supporting PQC are
\* those that named a PQC algorithm on any of their ports (main.rs:319-359).
THEOREM CountsRightHosts == Spec => []PqcHostsRight
<1>1. ASSUME TlsInv, LoopInv, SshP!TypeOK
      PROVE  PqcHostsRight
  <2>. SUFFICES ASSUME phase = "done" PROVE PqcHostsRight!2
    BY DEF PqcHostsRight
  <2>1. pqc_hosts = SshPqcHosts \union HostsOf(PqcSockets)
    <3>1. PqcSockets \ todo = PqcSockets
      BY <1>1 DEF LoopInv
    <3>. QED
      BY <1>1, <3>1 DEF LoopInv, Counted
  <2>2. DOMAIN host_caps = Host /\ DOMAIN keyshare_groups = Socket
    BY <1>1 DEF SshP!TypeOK, TlsInv, Tls!TypeOK
  <2>3. SshPqcHosts = {h \in Host : host_caps[h] \intersect PqcKex # {}}
    BY <2>2 DEF SshPqcHosts, SshHosts, Keys
  <2>4. HostsOf(PqcSockets) = {h \in Host : Capabilities(h) \intersect PqcGroups # {}}
    <3>1. ASSUME NEW s \in PqcSockets
          PROVE  HostOf[s] \in Host /\ Capabilities(HostOf[s]) \intersect PqcGroups # {}
      BY <2>2, ReportAssumption DEF PqcSockets, Keys, Capabilities
    <3>2. ASSUME NEW h \in Host, Capabilities(h) \intersect PqcGroups # {}
          PROVE  \E s \in PqcSockets : HostOf[s] = h
      BY <2>2, <3>2 DEF PqcSockets, Keys, Capabilities
    <3>. QED
      BY <3>1, <3>2 DEF HostsOf
  <2>5. SshPqcHosts \subseteq Hosts /\ HostsOf(PqcSockets) \subseteq Hosts
    BY DEF SshPqcHosts, Hosts, HostsOf, PqcSockets
  <2>. QED
    BY <2>1, <2>3, <2>4, <2>5
<1>. QED
  BY <1>1, TlsInvariance, LoopInvariance, SshFacts, PTL

\* A host at the end of a session that used PQC is counted as supporting it,
\* though sessions and hosts are counted from different maps.
THEOREM SessionsBacked == Spec => []PqcSessionsBacked
<1>1. ASSUME TlsInv, PqcHostsRight, phase = "done",
             NEW flow \in Tls!Flow, tls_sessions[flow] \in PqcGroups
      PROVE  HostOf[flow[2]] \in pqc_hosts
  <2>1. flow[2] \in Socket /\ HostOf[flow[2]] \in Host
    BY ReportAssumption DEF Tls!Flow
  <2>2. tls_sessions[flow] \in keyshare_groups[flow[2]]
    BY <1>1, ReportAssumption DEF TlsInv, Backed
  <2>3. tls_sessions[flow] \in Capabilities(HostOf[flow[2]])
    BY <1>1, <2>1, <2>2, ReportAssumption DEF Capabilities
  <2>. QED
    BY <1>1, <2>1, <2>3 DEF PqcHostsRight
<1>2. ASSUME SshP!TypeOK, SshP!NegotiatedRight, SshP!CapsMatchSessions, PqcHostsRight,
             phase = "done", NEW flow \in Ssh!Flow, sessions[flow].negotiated \in PqcKex
      PROVE  {HostOf[flow[1]], HostOf[flow[2]]} \subseteq pqc_hosts
  <2>1. HostOf[flow[1]] \in Host /\ HostOf[flow[2]] \in Host
    BY ReportAssumption DEF Ssh!Flow
  <2>2. sessions[flow].negotiated # None
    BY <1>2, ReportAssumption
  <2>3. /\ sessions[flow].negotiated \in host_caps[HostOf[flow[1]]]
        /\ sessions[flow].negotiated \in host_caps[HostOf[flow[2]]]
    BY <1>2, <2>2, NegotiatedIsNamed
  <2>. QED
    BY <1>2, <2>1, <2>3 DEF PqcHostsRight
<1>3. /\ TlsInv /\ PqcHostsRight
      /\ SshP!TypeOK /\ SshP!NegotiatedRight /\ SshP!CapsMatchSessions
      => PqcSessionsBacked
  BY <1>1, <1>2 DEF PqcSessionsBacked
<1>. QED
  BY <1>3, TlsInvariance, CountsRightHosts, SshFacts, PTL

-----------------------------------------------------------------------------
(* The statuses shown. *)

\* the hosts the loop has visited
Visited == HostsOf(Keys(keyshare_groups) \ todo)

\* A host has a status once the loop has visited it, and is counted when that
\* is Supported; before the loop there is none.
StatusInv ==
    /\ tls_hosts_pqc \in [Host -> {Supported, NoSupport, Tls12, None}]
    /\ phase = "reading" => \A h \in Host : tls_hosts_pqc[h] = None
    /\ phase = "groups" =>
          \A h \in Host :
              /\ tls_hosts_pqc[h] # Tls12
              /\ tls_hosts_pqc[h] # None <=> h \in Visited
              /\ tls_hosts_pqc[h] = Supported => h \in pqc_hosts
    /\ StatusBacked

LEMMA StatusAtEnd ==
    ASSUME EndCapture, StatusInv
    PROVE  StatusInv'
<1>1. /\ phase = "reading" /\ phase' \in {"groups", "panicked"}
      /\ UNCHANGED <<keyshare_groups, tls_hosts_pqc>>
      /\ phase' = "groups" => todo' = Keys(keyshare_groups)
  BY DEF EndCapture, tls
<1>2. phase' = "groups" => Visited' = {}
  BY <1>1 DEF Visited, HostsOf, Keys
<1>. QED
  BY <1>1, <1>2, ReportAssumption DEF StatusInv, StatusBacked

LEMMA StatusInLoop ==
    ASSUME StatusInv, NEW s \in Socket, ReportGroups(s), todo \subseteq Keys(keyshare_groups)
    PROVE  StatusInv'
<1> DEFINE pqc == keyshare_groups[s] \intersect PqcGroups # {}
<1>1. /\ UNCHANGED <<keyshare_groups, phase>>
      /\ phase = "groups" /\ s \in todo /\ todo' = todo \ {s}
      /\ pqc_hosts' = IF pqc THEN pqc_hosts \union {HostOf[s]} ELSE pqc_hosts
      /\ tls_hosts_pqc' = [tls_hosts_pqc EXCEPT ![HostOf[s]] =
                                IF pqc THEN Supported ELSE NoSupport]
  BY DEF ReportGroups, tls
<1> HIDE DEF pqc
<1>2. Visited' = Visited \union {HostOf[s]}
  <2>1. (Keys(keyshare_groups) \ todo)' = (Keys(keyshare_groups) \ todo) \union {s}
    BY <1>1 DEF Keys
  <2>. QED
    BY <2>1 DEF Visited, HostsOf
<1>3. HostOf[s] \in Host
  BY ReportAssumption
<1>4. tls_hosts_pqc' \in [Host -> {Supported, NoSupport, Tls12, None}]
  BY <1>1 DEF StatusInv
<1>5. ASSUME NEW h \in Host
      PROVE  /\ tls_hosts_pqc'[h] # Tls12
             /\ tls_hosts_pqc'[h] # None <=> h \in Visited'
             /\ tls_hosts_pqc'[h] = Supported => h \in pqc_hosts'
  <2>1. CASE h = HostOf[s]
    <3>1. tls_hosts_pqc'[h] = IF pqc THEN Supported ELSE NoSupport
      BY <1>1, <1>3, <2>1 DEF StatusInv
    <3>2. h \in Visited'
      BY <1>2, <2>1
    <3>3. Supported # NoSupport /\ Supported # Tls12 /\ NoSupport # Tls12
      BY DEF Supported, NoSupport, Tls12
    <3>4. None # Supported /\ None # NoSupport
      BY ReportAssumption
    <3>5. pqc => h \in pqc_hosts'
      BY <1>1, <2>1
    <3>. QED
      BY <3>1, <3>2, <3>3, <3>4, <3>5
  <2>2. CASE h # HostOf[s]
    <3>1. tls_hosts_pqc'[h] = tls_hosts_pqc[h]
      BY <1>1, <2>2 DEF StatusInv
    <3>2. h \in Visited' <=> h \in Visited
      BY <1>2, <2>2
    <3>. QED
      BY <1>1, <3>1, <3>2 DEF StatusInv
  <2>. QED
    BY <2>1, <2>2
<1>. QED
  BY <1>1, <1>4, <1>5 DEF StatusInv, StatusBacked

LEMMA StatusAtFinish ==
    ASSUME TlsInv, StatusInv, Finish
    PROVE  StatusInv'
<1>1. /\ UNCHANGED <<host_caps, tls_ciphers, keyshare_groups, tls_sessions, pqc_hosts>>
      /\ phase = "groups" /\ phase' = "done" /\ todo = {}
      /\ tls_hosts_pqc' = [h \in Host |->
            IF h \in TlsHosts /\ tls_hosts_pqc[h] = None THEN Tls12 ELSE tls_hosts_pqc[h]]
  BY DEF Finish, ssh, tls
<1>2. Visited = HostsOf(Keys(keyshare_groups))
  BY <1>1 DEF Visited
<1>3. TlsHosts' = TlsHosts /\ Hosts' = Hosts
  BY <1>1 DEF TlsHosts, Hosts, SshHosts, Keys
<1>4. ASSUME NEW h \in Host, h \notin Visited
      PROVE  Capabilities(h)' = {} /\ \A flow \in Tls!Flow :
                HostOf[flow[2]] = h => tls_sessions'[flow] = None
  <2>1. ASSUME NEW s \in Socket, HostOf[s] = h PROVE keyshare_groups[s] = {}
    BY <1>2, <1>4, <2>1 DEF HostsOf, Keys, TlsInv, Tls!TypeOK
  <2>2. Capabilities(h)' = {}
    BY <1>1, <2>1 DEF Capabilities
  <2>3. ASSUME NEW flow \in Tls!Flow, HostOf[flow[2]] = h
        PROVE  tls_sessions'[flow] = None
    BY <1>1, <2>1, <2>3 DEF TlsInv, Backed, Tls!Flow
  <2>. QED
    BY <2>2, <2>3
<1>5. ASSUME NEW h \in Host, h \in TlsHosts
      PROVE  /\ tls_hosts_pqc'[h] # None
             /\ tls_hosts_pqc'[h] = Supported => h \in pqc_hosts'
             /\ tls_hosts_pqc'[h] = NoSupport => h \in Hosts'
             /\ tls_hosts_pqc'[h] = Tls12 => h \notin Visited
  <2>1. /\ tls_hosts_pqc[h] # Tls12
        /\ tls_hosts_pqc[h] # None <=> h \in Visited
        /\ tls_hosts_pqc[h] = Supported => h \in pqc_hosts
    BY <1>1 DEF StatusInv
  <2>2. CASE tls_hosts_pqc[h] = None
    <3>1. tls_hosts_pqc'[h] = Tls12
      BY <1>1, <1>5, <2>2
    <3>. QED
      BY <2>1, <2>2, <3>1, ReportAssumption DEF Supported, NoSupport, Tls12
  <2>3. CASE tls_hosts_pqc[h] # None
    <3>1. tls_hosts_pqc'[h] = tls_hosts_pqc[h]
      BY <1>1, <2>3
    <3>2. h \in Hosts'
      BY <1>2, <1>3, <2>1, <2>3 DEF Hosts
    <3>. QED
      BY <1>1, <2>1, <2>3, <3>1, <3>2
  <2>. QED
    BY <2>2, <2>3
<1>6. tls_hosts_pqc' \in [Host -> {Supported, NoSupport, Tls12, None}]
  BY <1>1 DEF StatusInv
<1>7. TlsHosts \subseteq Host
  BY ReportAssumption DEF TlsHosts, HostsOf, Keys, TlsInv, Tls!TypeOK
<1>8. StatusBacked'
  BY <1>3, <1>4, <1>5, <1>7 DEF StatusBacked
<1>. QED
  BY <1>1, <1>6, <1>8 DEF StatusInv

\* Every TLS host has a status that its messages support; the host shown as
\* TLS 1.2 is the server of no session.
THEOREM StatusesBacked == Spec => []StatusBacked
<1> DEFINE Inv == StatusInv
<1>1. Init => Inv
  BY DEF Init, StatusInv, StatusBacked
<1>2. TlsInv /\ todo \subseteq Keys(keyshare_groups) /\ Inv /\ [Next]_vars => Inv'
  <2>. SUFFICES ASSUME TlsInv, todo \subseteq Keys(keyshare_groups), Inv, [Next]_vars
                PROVE  Inv'
    OBVIOUS
  <2>1. CASE EndCapture
    BY <2>1, StatusAtEnd
  <2>2. CASE \E s \in Socket : ReportGroups(s)
    BY <2>2, StatusInLoop
  <2>3. CASE Finish
    BY <2>3, StatusAtFinish
  <2>4. CASE \/ ProcessSsh \/ ProcessClientHello \/ ProcessServerHello \/ OtherPayload
             \/ ServerHelloPanics \/ \E s \in Socket : GroupsPanic(s)
    <3>1. /\ tls_hosts_pqc' = tls_hosts_pqc
          /\ phase' \in {"reading", "panicked"}
          /\ phase' = "reading" => phase = "reading"
      BY <2>4 DEF ProcessSsh, ProcessClientHello, ProcessServerHello, OtherPayload,
                  ServerHelloPanics, GroupsPanic, ExaminePayload, report
    <3>. QED
      BY <3>1 DEF StatusInv, StatusBacked
  <2>5. CASE UNCHANGED vars
    BY <2>5 DEF vars, ssh, tls, report, StatusInv, StatusBacked, Visited, HostsOf, Keys,
                TlsHosts, Hosts, SshHosts, Capabilities
  <2>. QED
    BY <2>1, <2>2, <2>3, <2>4, <2>5 DEF Next
<1>3. Inv => StatusBacked
  BY DEF StatusInv
<1>. QED
  BY <1>1, <1>2, <1>3, TlsInvariance, LoopInvariance, PTL DEF Spec

-----------------------------------------------------------------------------

\* The variables of the report itself.
ReportTypeOK ==
    /\ examined \in 0..MaxExamined
    /\ phase \in {"reading", "groups", "done", "panicked"}
    /\ todo \subseteq Socket
    /\ pqc_hosts \subseteq Host
    /\ tls_hosts_pqc \in [Host -> {Supported, NoSupport, Tls12, None}]

\* Every map and table keeps to its type, whatever the capture holds.
THEOREM TypeCorrect == Spec => []TypeOK
<1>1. Init => ReportTypeOK
  BY ReportAssumption DEF Init, ReportTypeOK
<1>2. /\ SshP!TypeOK /\ Tls!TypeOK /\ ReportTypeOK /\ [Next]_vars => ReportTypeOK'
  <2>. SUFFICES ASSUME SshP!TypeOK, Tls!TypeOK, ReportTypeOK, [Next]_vars
                PROVE  ReportTypeOK'
    OBVIOUS
  <2>1. ASSUME ExaminePayload PROVE examined' \in 0..MaxExamined
    BY <2>1, ReportAssumption DEF ExaminePayload, ReportTypeOK
  <2>2. CASE \/ ProcessSsh \/ ProcessClientHello \/ ProcessServerHello \/ OtherPayload
             \/ ServerHelloPanics
    BY <2>1, <2>2 DEF ProcessSsh, ProcessClientHello, ProcessServerHello, OtherPayload,
                      ServerHelloPanics, report, ReportTypeOK
  <2>3. CASE EndCapture
    <3>1. SshPqcHosts \subseteq Host /\ Keys(keyshare_groups) \subseteq Socket
      BY DEF SshPqcHosts, SshHosts, Keys, SshP!TypeOK, Tls!TypeOK
    <3>. QED
      BY <2>3, <3>1 DEF EndCapture, ReportTypeOK
  <2>4. CASE \E s \in Socket : ReportGroups(s)
    <3>1. PICK s \in Socket : ReportGroups(s)
      BY <2>4
    <3>2. HostOf[s] \in Host
      BY ReportAssumption
    <3>3. pqc_hosts' \subseteq Host /\ todo' \subseteq Socket
      BY <3>1, <3>2 DEF ReportGroups, ReportTypeOK
    <3>4. tls_hosts_pqc' \in [Host -> {Supported, NoSupport, Tls12, None}]
      BY <3>1, <3>2 DEF ReportGroups, ReportTypeOK
    <3>. QED
      BY <3>1, <3>3, <3>4 DEF ReportGroups, ReportTypeOK
  <2>5. CASE \E s \in Socket : GroupsPanic(s)
    BY <2>5 DEF GroupsPanic, report, ReportTypeOK
  <2>6. CASE Finish
    <3>1. tls_hosts_pqc' \in [Host -> {Supported, NoSupport, Tls12, None}]
      BY <2>6 DEF Finish, ReportTypeOK
    <3>. QED
      BY <2>6, <3>1 DEF Finish, ReportTypeOK
  <2>7. CASE UNCHANGED vars
    BY <2>7 DEF vars, report, ReportTypeOK
  <2>. QED
    BY <2>2, <2>3, <2>4, <2>5, <2>6, <2>7 DEF Next
<1>3. SshP!TypeOK => Ssh!TypeOK
  BY DEF SshP!TypeOK, Ssh!TypeOK, SshP!Flow, Ssh!Flow, SshP!Session, Ssh!Session
<1>4. TlsInv => Tls!TypeOK
  BY DEF TlsInv
<1>5. Ssh!TypeOK /\ Tls!TypeOK /\ ReportTypeOK => TypeOK
  BY DEF TypeOK, ReportTypeOK
<1>. QED
  BY <1>1, <1>2, <1>3, <1>4, <1>5, TlsInvariance, SshFacts, PTL DEF Spec
=============================================================================
