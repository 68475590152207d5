---------------------------- MODULE MCSshTarget ----------------------------
(***************************************************************************)
(* SshTarget for TLC: a database of one post-quantum and one classical     *)
(* algorithm, servers that offer either, both or an unknown one, and the   *)
(* ways their messages may be cut, joined, preceded and followed.          *)
(***************************************************************************)
EXTENDS SshTarget

CONSTANTS mlkem, curve, unknown

Database == {mlkem, curve}
PostQuantum == {mlkem}
KexOffers == {{mlkem, curve}, {curve, unknown}, {unknown}}

ServerScripts == {
    <<"id", "kex">>, <<"id", "kex", "extra">>, <<"id", "kex_head", "kex_tail">>,
    <<"id_head", "id_tail", "kex">>, <<"id_head", "id_tail", "kex_head", "kex_tail">>,
    <<"id", "cut_kex">>, <<"line", "id", "kex">>, <<"line">>, <<"id">>, <<>>}
=============================================================================
