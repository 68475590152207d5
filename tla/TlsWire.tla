------------------------------ MODULE TlsWire ------------------------------
(***************************************************************************)
(* The scan of TlsTarget with what goes over its connections: the          *)
(* ClientHello of tls_connect_with_group and the first bytes of the peer's *)
(* answer, read into a buffer of zeros and taken apart at fixed places.    *)
(***************************************************************************)
EXTENDS TlsTarget, ClientHello

CONSTANTS
    HostLengths,  \* target.host.len()
    Answers,      \* what peers write in answer
    Cuts          \* after how many bytes a read may end

\* The fields of an answer as they stand in it; all are numbers.
Fields == {"content_type", "version", "record_length", "handshake_type",
           "handshake_length", "hello_version"}

ASSUME WireAssumption ==
    /\ HostLengths \subseteq 0..MaxHost
    /\ Cuts \subseteq Nat
    /\ \A m \in Answers :
        /\ DOMAIN m = Fields \union {"size"}
        /\ \A f \in DOMAIN m : m[f] \in Nat
    /\ None \notin Answers

VARIABLES
    host_len,  \* the length of the host
    sent       \* the ClientHello sent on the connection and the group in it

wire == <<host_len, sent>>

WireInit ==
    /\ Init
    /\ host_len \in HostLengths
    /\ sent = None

-----------------------------------------------------------------------------
\* stream.write(&chb.into_buf()?) on the new connection
WireConnect(g, a) ==
    /\ Connect(g, a)
    /\ sent' = [hello |-> into_buf(host_len), groups |-> <<g>>]
    /\ UNCHANGED host_len

\* What stands at a place of the buffer: zeros after the bytes that were read.
Seen(m, n, field, end) == IF n >= end THEN m[field] ELSE 0

\* tls_connect_with_group returns Ok
Accepted_anyHandshake(m, n) ==
    /\ Seen(m, n, "content_type", 1) = 22
    /\ n >= 5
    /\ Seen(m, n, "version", 3) = 771
    /\ Seen(m, n, "handshake_length", 9) + 4 = Seen(m, n, "record_length", 5)
    /\ Seen(m, n, "hello_version", 11) = 771

Accepted(m, n) ==
    /\ Seen(m, n, "content_type", 1) = 22
    /\ n >= 5
    /\ Seen(m, n, "version", 3) = 771
    /\ Seen(m, n, "handshake_type", 6) = 2
    /\ Seen(m, n, "handshake_length", 9) + 4 = Seen(m, n, "record_length", 5)
    /\ Seen(m, n, "hello_version", 11) = 771

IsServerHello(m) == m.content_type = 22 /\ m.handshake_type = 2

\* An alert that says no more than that the group is refused: a fatal one,
\* level 2, with the code of handshake_failure
IsRefusal(m) ==
    m.content_type = 21 /\ m.handshake_type = 2 /\ m.handshake_length = 40

\* The peer answers with a ServerHello, alone in its record or not, only when
\* it supports a group it was offered, and refuses only when it does not.
\* Anything else it may write in any case, and the read may end anywhere.
WireAnswers ==
    /\ phase = "handshake"
    /\ reply = None
    /\ \E m \in Answers, n \in Cuts \union {x.size : x \in Answers} :
        LET common == {i \in DOMAIN sent.groups : sent.groups[i] \in supports[peer]}
        IN  /\ n <= m.size
            /\ IsServerHello(m) => common # {}
            /\ IsRefusal(m) => common = {}
            /\ reply' = IF Accepted(m, n) THEN "server_hello"
                        ELSE IF IsRefusal(m) /\ n = m.size THEN "alert"
                        ELSE "other"
            /\ smooth' = (smooth /\ reply' # "other")
    /\ UNCHANGED <<supports, options, phase, todo, group, peer, addr, found,
                   asked, result, host_len, sent>>

\* tls_connect_with_group returns, and the connection is dropped.
WireEnd ==
    /\ HandshakeOk \/ HandshakeErr \/ HandshakeTimeout
    /\ sent' = None
    /\ UNCHANGED host_len

WireScan ==
    \/ \E g \in todo, a \in Address : WireConnect(g, a)
    \/ WireEnd
    \/ (ConnectFails \/ ConnectPanics \/ Finish) /\ UNCHANGED wire

WireNext == WireAnswers \/ WireScan

WireSpec == WireInit /\ [][WireNext]_<<vars, wire>>

WireFairSpec == WireSpec /\ WF_<<vars, wire>>(WireScan)

-----------------------------------------------------------------------------
(* Properties. *)

\* Every ClientHello that is sent offers the group under test and no other, and
\* each of its lengths, summed up on u16 while it is built, is that of the
\* bytes after it: the verdict is about that group (tls.rs:300-378, 424-442).
HelloIsExact ==
    phase = "handshake" => Exact(sent.hello) /\ sent.groups = <<group>>

\* The bytes make no difference to the scan: an answer counts as a ServerHello
\* only if it is the start of one, however the reads are cut and whatever else
\* peers may write, and everything proved of TlsTarget holds (tls.rs:446-501).
ImplementsTlsTarget == Spec
=============================================================================
