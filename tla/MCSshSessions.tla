--------------------------- MODULE MCSshSessions ---------------------------
(***************************************************************************)
(* SshSessions for TLC: two clients on one host and a server, and lists    *)
(* that agree on one algorithm, on another one or on none, depending on    *)
(* whose list comes first.                                                 *)
(***************************************************************************)
EXTENDS SshSessions

CONSTANTS c1, c2, srv, alice, bob, x, y, z

Sockets == {c1, c2, srv}
Hosts == {alice, bob}
HostOfSocket == [s \in Sockets |-> IF s = srv THEN bob ELSE alice]
Algs == {x, y, z}
Lists == {<<x, y>>, <<y, x>>, <<z>>}
Opened == {c1, c2}
=============================================================================
