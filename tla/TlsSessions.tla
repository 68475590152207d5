---------------------------- MODULE TlsSessions ----------------------------
(***************************************************************************)
(* process_ssl_hello of pqcdump/src/tls.rs: the ciphers, the groups and    *)
(* the sessions pqcdump learns from the TLS hellos of a capture.           *)
(*                                                                         *)
(* A hello is what its parser reads from it. A ClientHello that does not   *)
(* parse, such as one split over two segments, and a ServerHello that ends *)
(* before its cipher change nothing and are not here. Some ServerHellos    *)
(* make the parser read behind the payload, which ends the program.        *)
(***************************************************************************)
EXTENDS Sequences

CONSTANTS
    Socket,        \* addresses with port
    Cipher,        \* ids of cipher suites
    GroupId,       \* ids of groups, in the database of groups or not
    Zero,          \* the id 0, taken when a ServerHello shows no group
    NoSession,     \* no ServerHello seen
    ClientHellos,  \* the ClientHellos a capture may hold
    ServerHellos   \* the ServerHellos a capture may hold

\* TlsSessionKey: the client's socket and the server's
Flow == {flow \in Socket \X Socket : flow[1] # flow[2]}

\* CryptoConfig
ClientHello == [ciphers : SUBSET Cipher, groups : SUBSET GroupId]

\* A ServerHello has one cipher. Its block of extensions is whole, or longer
\* than the payload (cut), or missing from the payload altogether, or whole
\* with a key share or signature extension that leaves the block (overrun).
\* shares are the entries of each key share extension; the one of a
\* HelloRetryRequest names a group without a key and has none.
ServerHello == [cipher : Cipher,
                block : {"whole", "cut", "missing", "overrun"},
                shares : Seq(Seq(GroupId))]

VARIABLES
    tls_ciphers,      \* the ciphers each socket has named
    keyshare_groups,  \* the groups each socket has sent a share of
    tls_sessions      \* the group of each session

vars == <<tls_ciphers, keyshare_groups, tls_sessions>>

TypeOK ==
    /\ tls_ciphers \in [Socket -> SUBSET Cipher]
    /\ keyshare_groups \in [Socket -> SUBSET (GroupId \union {Zero})]
    /\ tls_sessions \in [Flow -> GroupId \union {Zero, NoSession}]

Init ==
    /\ tls_ciphers = [s \in Socket |-> {}]
    /\ keyshare_groups = [s \in Socket |-> {}]
    /\ tls_sessions = [flow \in Flow |-> NoSession]

\* An index behind the end of the payload or of the block.
Panics(hello) == hello.block \in {"missing", "overrun"}

\* The last key share extension counts, if it has exactly one entry.
KeyShare(hello) ==
    LET entries == IF hello.shares = <<>> THEN <<>> ELSE hello.shares[Len(hello.shares)]
    IN  IF hello.block = "whole" /\ Len(entries) = 1 THEN entries[1] ELSE Zero

\* map.entry(key).or_default().insert(value), for each of the values
AddTo(map, key, values) == [map EXCEPT ![key] = @ \union values]

ProcessClientHello(client, hello) ==
    /\ tls_ciphers' = AddTo(tls_ciphers, client, hello.ciphers)
    /\ keyshare_groups' = AddTo(keyshare_groups, client, hello.groups)
    /\ UNCHANGED tls_sessions

\* A ServerHello of session flow: a later one replaces the group, so that the
\* one after a HelloRetryRequest counts.
ProcessServerHello_clientKey(flow, hello) ==
    /\ ~Panics(hello)
    /\ tls_sessions' = [tls_sessions EXCEPT ![flow] = KeyShare(hello)]
    /\ keyshare_groups' = AddTo(keyshare_groups, flow[1], {KeyShare(hello)})
    /\ tls_ciphers' = AddTo(tls_ciphers, flow[2], {hello.cipher})

ProcessServerHello_firstOnly(flow, hello) ==
    /\ ~Panics(hello)
    /\ tls_sessions' = [tls_sessions EXCEPT ![flow] = KeyShare(hello)]
    /\ keyshare_groups' = IF tls_sessions[flow] # NoSession THEN keyshare_groups
                          ELSE AddTo(keyshare_groups, flow[2], {KeyShare(hello)})
    /\ tls_ciphers' = AddTo(tls_ciphers, flow[2], {hello.cipher})

ProcessServerHello_mixesCipher(flow, hello) ==
    /\ ~Panics(hello)
    /\ tls_sessions' = [tls_sessions EXCEPT ![flow] = KeyShare(hello)]
    /\ keyshare_groups' = AddTo(keyshare_groups, flow[2], {KeyShare(hello)})
    /\ tls_ciphers' = AddTo(tls_ciphers, flow[2], {KeyShare(hello)})

ProcessServerHello(flow, hello) ==
    /\ ~Panics(hello)
    /\ tls_sessions' = [tls_sessions EXCEPT ![flow] = KeyShare(hello)]
    /\ keyshare_groups' = AddTo(keyshare_groups, flow[2], {KeyShare(hello)})
    /\ tls_ciphers' = AddTo(tls_ciphers, flow[2], {hello.cipher})
=============================================================================
