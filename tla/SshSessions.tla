---------------------------- MODULE SshSessions ----------------------------
(***************************************************************************)
(* process_ssh of pqcdump/src/ssh.rs: the sessions and the capabilities    *)
(* of hosts that pqcdump learns from the KEXINIT messages of a capture.    *)
(*                                                                         *)
(* A KEXINIT is the list of key exchange algorithms it names; a payload    *)
(* that does not parse changes nothing and is not here. Messages come in   *)
(* any order, any number of times and from either side: that is what a     *)
(* capture with lost, repeated and reordered packets amounts to.           *)
(***************************************************************************)
EXTENDS Naturals, Sequences

CONSTANTS
    Socket,   \* addresses with port, formatted by format_socket_addr
    Host,     \* addresses without port
    HostOf,   \* the host of each socket
    Alg,      \* names of key exchange algorithms
    KexLists, \* the lists a KEXINIT may carry
    Clients,  \* the sockets that opened their connections
    None      \* no algorithm negotiated

ASSUME SessionsAssumption ==
    /\ HostOf \in [Socket -> Host]
    /\ KexLists \subseteq Seq(Alg) \ {<<>>}
    /\ Clients \subseteq Socket
    /\ None \notin Alg

\* FlowKey, of two different sockets
Flow == {flow \in Socket \X Socket : flow[1] # flow[2]}

Reverse(flow) == <<flow[2], flow[1]>>

\* SshSession; a KEXINIT not seen yet is the empty list
Session == [client : KexLists \union {<<>>}, server : KexLists \union {<<>>},
            negotiated : Alg \union {None}]

\* SshSession::default(), and no session at all: a session in the map has a
\* client KEXINIT from the start
NoSession == [client |-> <<>>, server |-> <<>>, negotiated |-> None]

VARIABLES
    sessions,  \* the session of each flow
    host_caps  \* the algorithms each host has named

vars == <<sessions, host_caps>>

TypeOK ==
    /\ sessions \in [Flow -> Session]
    /\ host_caps \in [Host -> SUBSET Alg]

Init ==
    /\ sessions = [flow \in Flow |-> NoSession]
    /\ host_caps = [h \in Host |-> {}]

Names(kex) == {kex[i] : i \in DOMAIN kex}

\* the first algorithm of the client that the server names too
Negotiate(client, server) ==
    LET shared == {i \in DOMAIN client : client[i] \in Names(server)} IN
    IF shared = {} THEN None
    ELSE client[CHOOSE i \in shared : \A j \in shared : i <= j]

\* A message belongs to the session of its flow, or else to the session of the
\* reverse flow, or else it opens a session of its own.
IsForward_always(map, flow) == TRUE

IsForward(map, flow) ==
    map[flow] # NoSession \/ map[Reverse(flow)] = NoSession

\* The first KEXINIT of a side is kept, a later one is ignored.
Record_nextFree(session, forward, kex) ==
    IF session.client = <<>> THEN [session EXCEPT !.client = kex]
    ELSE IF session.server = <<>> THEN [session EXCEPT !.server = kex]
    ELSE session

Record(session, forward, kex) ==
    IF forward
    THEN IF session.client = <<>> THEN [session EXCEPT !.client = kex] ELSE session
    ELSE IF session.server = <<>> THEN [session EXCEPT !.server = kex] ELSE session

\* Once both sides are known and nothing is negotiated yet, negotiate.
Settle_serverFirst(session) ==
    IF /\ session.negotiated = None
       /\ session.client # <<>>
       /\ session.server # <<>>
    THEN [session EXCEPT !.negotiated = Negotiate(session.server, session.client)]
    ELSE session

Settle(session) ==
    IF /\ session.negotiated = None
       /\ session.client # <<>>
       /\ session.server # <<>>
    THEN [session EXCEPT !.negotiated = Negotiate(session.client, session.server)]
    ELSE session

\* update_host_caps, called when Record keeps the message
AddCaps_always(caps, host, old, new, kex) ==
    [caps EXCEPT ![host] = @ \union Names(kex)]

AddCaps(caps, host, old, new, kex) ==
    IF old = new THEN caps ELSE [caps EXCEPT ![host] = @ \union Names(kex)]

\* process_ssh on a KEXINIT of flow: what it leaves in both maps
After(map, caps, flow, kex) ==
    LET forward == IsForward(map, flow)
        key == IF forward THEN flow ELSE Reverse(flow)
        recorded == Record(map[key], forward, kex)
    IN  [map |-> [map EXCEPT ![key] = Settle(recorded)],
         caps |-> AddCaps(caps, HostOf[flow[1]], map[key], recorded, kex)]

ProcessSsh(flow, kex) ==
    LET after == After(sessions, host_caps, flow, kex) IN
    /\ sessions' = after.map
    /\ host_caps' = after.caps

Next == \E flow \in Flow, kex \in KexLists : ProcessSsh(flow, kex)

Spec == Init /\ [][Next]_vars

-----------------------------------------------------------------------------
(* Properties. *)

\* Both directions of a connection share one session (ssh.rs:103-111): the
\* sessions that are reported and counted are connections.
OneSession ==
    \A flow \in Flow :
        sessions[flow] # NoSession => sessions[Reverse(flow)] = NoSession

\* A session names an algorithm exactly when both sides are known and agree on
\* one, and it is the first of the side seen first that the other side names,
\* whatever came in between (ssh.rs:121-127).
NegotiatedRight ==
    \A flow \in Flow :
        LET session == sessions[flow] IN
        session.negotiated =
            IF session.client # <<>> /\ session.server # <<>>
            THEN Negotiate(session.client, session.server)
            ELSE None

\* The capabilities of a host are what it named in the messages the sessions
\* keep, over all its connections: nothing is attributed to the other side and
\* nothing a session shows is missing (ssh.rs:113-119, 139-149).
CapsMatchSessions ==
    \A h \in Host :
        host_caps[h] =
            (UNION {Names(sessions[flow].client) :
                        flow \in {g \in Flow : HostOf[g[1]] = h}})
            \union
            (UNION {Names(sessions[flow].server) :
                        flow \in {g \in Flow : HostOf[g[2]] = h}})

Keeps ==
    /\ \A flow \in Flow :
        LET old == sessions[flow]
            new == sessions'[flow]
        IN  /\ old.client # <<>> => new.client = old.client
            /\ old.server # <<>> => new.server = old.server
            /\ old.negotiated # None => new.negotiated = old.negotiated
    /\ \A h \in Host : host_caps[h] \subseteq host_caps'[h]

\* What a session knows is never replaced, and a host loses no capability
\* (ssh.rs:113-127).
NothingForgotten == [][Keeps]_vars

\* "SSH negotiated sessions and the algorithm actually used" (pqcdump/README.md:
\* 51): the algorithm both sides of the connection settle on is the first of
\* the client that the server names, the client being who opened it.
AlgorithmActuallyUsed ==
    \A flow \in Flow :
        LET session == sessions[flow] IN
        session.negotiated # None /\ flow[2] \in Clients /\ flow[1] \notin Clients
            => session.negotiated = Negotiate(session.server, session.client)
=============================================================================
