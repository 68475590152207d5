---------------------------- MODULE PcapPipeline ----------------------------
(***************************************************************************)
(* The packet loop of pqcdump whole: process_packet and                    *)
(* process_packet_helper (pqcdump/src/main.rs:487-567) between the         *)
(* reassembler and the maps of the report. Each payload is examined twice, *)
(* alone and in what the reassembler hands out, and the parsers see a      *)
(* message only where it starts with the first byte they are given.        *)
(*                                                                         *)
(* What the two ends of a connection say is fixed by Says; which segments  *)
(* of it the capture holds, how they are cut, and how often and in which   *)
(* order they come is not. A unit of a stream is a piece of a message, as  *)
(* large as the smallest segment; a message is as many units as it has     *)
(* pieces.                                                                 *)
(***************************************************************************)
EXTENDS TcpReassembler

CONSTANTS
    Socket, Host, HostOf, V6, Alg, KexLists, Clients,     \* as in
    KexAlgos, PqcKex,                                     \* CaptureReport
    Cipher, GroupId, Zero, ClientHellos, ServerHellos,
    Groups, PqcGroups, None,
    Message,  \* the KEXINITs and hellos of the connections
    Data,     \* whatever else is sent: not a piece of a message
    Says      \* what each flow sends: the unit at each sequence number

VARIABLES
    sessions, host_caps, tls_ciphers, keyshare_groups, tls_sessions,
    examined, phase, todo, pqc_hosts, tls_hosts_pqc,
    looked,   \* how many of "seen" process_packet_helper has examined
    heard     \* history: what each flow has pushed in order since its last gap

Report == INSTANCE CaptureReport WITH MaxExamined <- 2 * MaxPackets

tcp == <<flows, seen, pushed, gap, packets>>
ssh == <<sessions, host_caps>>
tls == <<tls_ciphers, keyshare_groups, tls_sessions>>
report == <<todo, pqc_hosts, tls_hosts_pqc>>
allVars == <<tcp, ssh, tls, report, examined, phase, looked, heard>>

Kinds == {"kexinit", "client", "server"}

\* A message has a length in units, and a shape for its parser once the last
\* of them are missing: a ServerHello cut in its extensions is still read.
IsMessage(m) ==
    /\ m.kind \in Kinds
    /\ m.size \in 1..(2 * MaxLen)
    /\ m.kind = "kexinit" => m.body \in KexLists
    /\ m.kind = "client" => m.body \in ClientHellos
    /\ m.kind = "server" => /\ m.body \in ServerHellos
                            /\ m.cut \in ServerHellos \union {None}
                            /\ m.cut # None => m.cut.block # "whole"

\* Unit v may come after unit u: a piece of a message, before its next piece.
Continues(u, v) ==
    u = Data \/ u[2] = u[1].size \/ v = <<u[1], u[2] + 1>>

ASSUME PipelineAssumption ==
    /\ Report!ReportAssumption
    /\ None \notin ServerHellos
    /\ TcpFlow \subseteq {flow \in Socket \X Socket : flow[1] # flow[2]}
    /\ \A m \in Message : IsMessage(m)
    /\ Says \in [TcpFlow -> [SeqNo -> {Data} \union Message \X Nat]]
    /\ \A flow \in TcpFlow, q \in SeqNo :
          Continues(Says[flow][q], Says[flow][Advance(q, 1)])

PipelineInit ==
    /\ Init
    /\ Report!Init
    /\ looked = 0
    /\ heard = [f \in TcpFlow |-> <<>>]

-----------------------------------------------------------------------------
(* What the parsers make of a payload d that is not empty. *)

Unit(b) == Says[b.flow][b.seq]

StartsWith(d, m) == Unit(d[1]) = <<m, 1>>

\* d starts with the pieces of message m, from the first to the last
Holds(d, m) ==
    /\ StartsWith(d, m) /\ m.size <= Len(d)
    /\ \A i \in 1..(m.size - 1) : Continues(Unit(d[i]), Unit(d[i + 1]))

\* The messages of one kind that a parser may read from d. It counts bytes: of
\* units that do not belong together it could make any message of that kind.
Parsed(kind, d) ==
    {n \in Message : /\ n.kind = kind
                     /\ \E m \in Message : /\ m.kind = kind
                                           /\ StartsWith(d, m)
                                           /\ m.size <= Len(d)
                                           /\ Holds(d, m) => n = m}

ServerHellosIn(d) ==
    {m.body : m \in Parsed("server", d)}
    \union {m.cut : m \in {n \in Message : /\ n.kind = "server" /\ n.cut # None
                                           /\ StartsWith(d, n) /\ Len(d) < n.size}}

-----------------------------------------------------------------------------
(* The packet loop. *)

\* next_packet, process_packet up to push, and push
ReadPacket ==
    /\ phase = "reading"
    /\ looked = Len(seen)
    /\ Next
    /\ looked' = 0
    /\ heard' = IF seen' = <<>> THEN heard
                ELSE LET f == seen'[1][1].flow IN
                     [heard EXCEPT ![f] = IF gap'[f] THEN pushed'[f] ELSE @ \o pushed'[f]]
    /\ UNCHANGED <<ssh, tls, report, examined, phase>>

\* process_packet_helper on the next thing to examine, of the packet just read
Examine ==
    /\ Report!ExaminePayload
    /\ looked < Len(seen)
    /\ looked' = looked + 1
    /\ UNCHANGED <<tcp, heard>>

Given == seen[looked + 1]

\* the direction of the packet just read: messages are attributed by it
Sent == seen[1][1].flow

Reverse(flow) == <<flow[2], flow[1]>>

\* A KEXINIT cut in its algorithms shows the first of them.
ExamineKexInit_cutToo ==
    /\ Examine
    /\ \E m \in Message :
          /\ m.kind = "kexinit" /\ StartsWith(Given, m)
          /\ Report!Ssh!ProcessSsh(Sent, IF m.size <= Len(Given) THEN m.body
                                        ELSE SubSeq(m.body, 1, 1))
    /\ UNCHANGED <<tls, phase, report>>

ExamineKexInit ==
    /\ Examine
    /\ \E m \in Parsed("kexinit", Given) : Report!Ssh!ProcessSsh(Sent, m.body)
    /\ UNCHANGED <<tls, phase, report>>

ExamineClientHello ==
    /\ Examine
    /\ \E m \in Parsed("client", Given) : Report!Tls!ProcessClientHello(Sent[1], m.body)
    /\ UNCHANGED <<ssh, phase, report>>

\* The session is that of the client the hello was sent to.
ExamineServerHello_keyOfPacket ==
    /\ Examine
    /\ \E hello \in ServerHellosIn(Given) : Report!Tls!ProcessServerHello(Sent, hello)
    /\ UNCHANGED <<ssh, phase, report>>

ExamineServerHello ==
    /\ Examine
    /\ \E hello \in ServerHellosIn(Given) :
          Report!Tls!ProcessServerHello(Reverse(Sent), hello)
    /\ UNCHANGED <<ssh, phase, report>>

ExaminePanics ==
    /\ Examine
    /\ \E hello \in ServerHellosIn(Given) : Report!Tls!Panics(hello)
    /\ phase' = "panicked"
    /\ UNCHANGED <<ssh, tls, report>>

\* no message at the start, or one of which too little is there
ExamineOther ==
    /\ Examine
    /\ Parsed("kexinit", Given) = {} /\ Parsed("client", Given) = {}
    /\ ServerHellosIn(Given) = {}
    /\ UNCHANGED <<ssh, tls, phase, report>>

\* main after the packet loop; a packet is always examined to the end first
WriteReport ==
    /\ phase = "reading" => looked = Len(seen)
    /\ \/ Report!EndCapture
       \/ \E s \in Socket : Report!ReportGroups(s) \/ Report!GroupsPanic(s)
       \/ Report!Finish
    /\ UNCHANGED <<tcp, looked, heard>>

PipelineNext ==
    \/ ReadPacket
    \/ ExamineKexInit
    \/ ExamineClientHello
    \/ ExamineServerHello
    \/ ExaminePanics
    \/ ExamineOther
    \/ WriteReport

PipelineSpec == PipelineInit /\ [][PipelineNext]_allVars

-----------------------------------------------------------------------------
(* Properties. *)

\* pqcdump with packets and reassembly implements CaptureReport, whose
\* properties and theorems are about the same report.
ImplementsReport == Report!Spec

\* the bodies of the messages of one kind that socket s sends on any flow
SentBy(s, kind) ==
    {m.body : m \in {n \in Message : n.kind = kind /\
        \E flow \in TcpFlow, q \in SeqNo : flow[1] = s /\ Says[flow][q] = <<n, 1>>}}

\* What the report says of a socket is in a message that socket sent, however
\* segments were lost, cut, repeated and put together: no bytes of two
\* messages are read as one, nothing is attributed to the other side
\* (main.rs:536-541, tcp.rs:33-47, tls.rs:51-67, ssh.rs:92-119). Group zero
\* stands for a ServerHello that showed none.
NothingInvented ==
    /\ \A flow \in Report!Ssh!Flow :
        /\ sessions[flow].client # <<>> => sessions[flow].client \in SentBy(flow[1], "kexinit")
        /\ sessions[flow].server # <<>> => sessions[flow].server \in SentBy(flow[2], "kexinit")
    /\ \A s \in Socket :
        LET own == {Report!Tls!KeyShare(h) : h \in SentBy(s, "server")} \union {Zero} IN
        /\ keyshare_groups[s] \subseteq
              (UNION {h.groups : h \in SentBy(s, "client")}) \union own
        /\ \A flow \in Report!Tls!Flow :
              flow[2] = s => tls_sessions[flow] \in own \union {None}

\* Each payload is examined on its own and again in what push hands out; when
\* that is the same payload, the second time changes nothing
\* (main.rs:536-541).
SecondLookHarmless ==
    [][looked = 1 /\ looked' = 2 /\ seen[2] = seen[1]
        => UNCHANGED <<ssh, tls>>]_allVars

\* "The report includes ... TLS negotiated sessions and the group actually
\* used" (pqcdump/README.md:48-53): a session whose hellos were captured whole,
\* each in order, is on the page. "Try a reassembled packet" (main.rs:538) is
\* there for the hello in two segments.
CapturedInOrder(flow, m) ==
    \E i \in DOMAIN heard[flow] :
        Holds(SubSeq(heard[flow], i, Len(heard[flow])), m)

SessionsShown ==
    phase = "done" =>
        \A flow \in TcpFlow :
            /\ tls_sessions[flow] \in Groups
            /\ \E m \in Message : m.kind = "client" /\ CapturedInOrder(flow, m)
            => flow \in Report!ShownSessions
=============================================================================
