-------------------------- MODULE MCCaptureReport --------------------------
(***************************************************************************)
(* CaptureReport for TLC: a client, a host with two ports and a host with  *)
(* an IPv6 address. Any of the sockets may speak SSH or TLS, as client or  *)
(* as server; one key exchange is unknown to the database. The hellos have *)
(* a PQC group, an old one or none, and each way of ending early.          *)
(***************************************************************************)
EXTENDS CaptureReport

CONSTANTS c, s1, s2, v, alice, bob, carol, kexPq, kexOld, kexNew,
          suite, mlkem, x25519, grease

Sockets == {c, s1, s2, v}
Addresses == {alice, bob, carol}
HostOfSocket == [s \in Sockets |-> CASE s = c -> alice [] s = v -> carol [] OTHER -> bob]
V6Hosts == {carol}
Algs == {kexPq, kexOld, kexNew}
KnownKex == {kexPq, kexOld}
Lists == {<<kexNew, kexPq, kexOld>>, <<kexOld>>, <<kexNew, kexOld>>}
Opened == {c}
KexPq == {kexPq}
Suites == {suite}
Ids == {mlkem, x25519, grease}
Known == {mlkem, x25519}
Pq == {mlkem}
Hello(block, shares) == [cipher |-> suite, block |-> block, shares |-> shares]
CHellos == {[ciphers |-> {suite}, groups |-> {grease, mlkem, x25519}],
            [ciphers |-> {suite}, groups |-> {}],
            [ciphers |-> {}, groups |-> {x25519}]}
SHellos == {Hello("whole", <<<<mlkem>>>>), Hello("whole", <<<<x25519>>>>),
            Hello("whole", <<<<>>>>), Hello("whole", <<<<mlkem>>, <<x25519, mlkem>>>>),
            Hello("cut", <<<<mlkem>>>>), Hello("missing", <<>>), Hello("overrun", <<>>)}
=============================================================================
