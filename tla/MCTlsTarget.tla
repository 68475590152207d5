---------------------------- MODULE MCTlsTarget ----------------------------
(***************************************************************************)
(* TlsWire, and with it TlsTarget, for TLC: two hybrid groups, a pure      *)
(* post-quantum one and a classical one, and a name that resolves to two   *)
(* machines, one of which may support less than the other.                 *)
(***************************************************************************)
EXTENDS TlsWire

CONSTANTS hyb1, hyb2, pure, classic, addr1, addr2

Groups == {hyb1, hyb2, pure, classic}
HybridGroups == {hyb1, hyb2}
PqcGroups == {hyb1, hyb2, pure}
Addresses == {addr1, addr2}
Supports == {{classic}, {hyb1, classic}, Groups}

HostNames == {0, 253}

Written(content_type, record_length, first, handshake_length, hello_version) ==
    [content_type |-> content_type, version |-> 771,
     record_length |-> record_length, handshake_type |-> first,
     handshake_length |-> handshake_length, hello_version |-> hello_version,
     size |-> record_length + 5]

\* A ServerHello, one that shares its record with a further message, another
\* handshake message of the same shape, a refusal, an alert of another kind
\* and an answer in another protocol
Peers == {Written(22, 122, 2, 118, 771), Written(22, 822, 2, 118, 771),
          Written(22, 122, 4, 118, 771),
          Written(21, 2, 2, 40, 0), Written(21, 2, 2, 80, 0),
          Written(72, 20, 47, 0, 0)}

ReadSizes == {0, 1, 5, 10, 11}
=============================================================================
