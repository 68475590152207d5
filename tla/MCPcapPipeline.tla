--------------------------- MODULE MCPcapPipeline ---------------------------
(***************************************************************************)
(* PcapPipeline for TLC: a client with a TLS connection to one server and  *)
(* an SSH connection to another. The ClientHello, one KEXINIT and the      *)
(* ServerHello are two units long; before the ServerHello goes a           *)
(* HelloRetryRequest, and the ServerHello cut in two is read without its   *)
(* group. Another ServerHello follows, cut where its parser panics.        *)
(* Sequence numbers wrap after five units.                                 *)
(***************************************************************************)
EXTENDS PcapPipeline

CONSTANTS c, w, s, alice, bob, kexPq, kexOld, suite, mlkem, x25519, data

Sockets == {c, w, s}
Addresses == {alice, bob}
HostOfSocket == [t \in Sockets |-> IF t = c THEN alice ELSE bob]
Directions == {<<c, w>>, <<w, c>>, <<c, s>>, <<s, c>>}
Algs == {kexPq, kexOld}
PqLists == {<<kexPq, kexOld>>, <<kexOld>>}
KexPq == {kexPq}
Suites == {suite}
Ids == {mlkem, x25519}
Pq == {mlkem}

Hello(block, shares) == [cipher |-> suite, block |-> block, shares |-> shares]
Retry == Hello("whole", <<<<>>>>)
Answer == Hello("whole", <<<<mlkem>>>>)
Cut == Hello("cut", <<<<mlkem>>>>)
Again == Hello("whole", <<<<x25519>>>>)
Fatal == Hello("missing", <<<<x25519>>>>)
CHellos == {[ciphers |-> {suite}, groups |-> {x25519}]}
SHellos == {Retry, Answer, Cut, Again, Fatal}

Msg(kind, size, body, cut) == [kind |-> kind, size |-> size, body |-> body, cut |-> cut]
ClientMsg == Msg("client", 2, [ciphers |-> {suite}, groups |-> {x25519}], None)
RetryMsg == Msg("server", 1, Retry, None)
AnswerMsg == Msg("server", 2, Answer, Cut)
AgainMsg == Msg("server", 2, Again, Fatal)
LongKex == Msg("kexinit", 2, <<kexPq, kexOld>>, None)
ShortKex == Msg("kexinit", 1, <<kexOld>>, None)
Messages == {ClientMsg, RetryMsg, AnswerMsg, AgainMsg, LongKex, ShortKex}

Stream(units) == [q \in SeqNo |-> units[q + 1]]
Speech == [flow \in Directions |->
    CASE flow = <<c, w>> ->
            Stream(<<<<ClientMsg, 1>>, <<ClientMsg, 2>>, data, data, data>>)
      [] flow = <<w, c>> ->
            Stream(<<<<RetryMsg, 1>>, <<AnswerMsg, 1>>, <<AnswerMsg, 2>>,
                     <<AgainMsg, 1>>, <<AgainMsg, 2>>>>)
      [] flow = <<c, s>> ->
            Stream(<<<<LongKex, 1>>, <<LongKex, 2>>, data, data, data>>)
      [] flow = <<s, c>> ->
            Stream(<<<<ShortKex, 1>>, data, data, data, data>>)]
=============================================================================
