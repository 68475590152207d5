----------------------------- MODULE SshTarget -----------------------------
(***************************************************************************)
(* ssh_scan_target of pqcscan/src/ssh.rs against one server: connect, read *)
(* the server's identification and echo it back, read its KEXINIT, report. *)
(*                                                                         *)
(* What the server writes is a sequence of pieces, the units that may      *)
(* arrive apart:                                                           *)
(*   "id"                    its identification line                       *)
(*   "id_head", "id_tail"    the same line cut in two, "SSH-" in the head  *)
(*   "line"                  anything that does not start with "SSH-"      *)
(*   "kex"                   its KEXINIT packet                            *)
(*   "kex_head", "kex_tail"  the same packet cut in two                    *)
(*   "cut_kex"               a KEXINIT packet whose name lists end early   *)
(*   "extra"                 the packet that follows                       *)
(* A read returns the pieces that have arrived, up to the size of the      *)
(* buffer. The server may be slow, close or reset the connection; an eager *)
(* one sends everything at once, any other waits for the client's line     *)
(* before it sends its KEXINIT.                                            *)
(***************************************************************************)
EXTENDS Naturals, Sequences

CONSTANTS
    Alg,       \* config.ssh_config.kex_algos
    Pqc,       \* those with pqc set
    Offers,    \* the algorithms a KEXINIT may list, unknown ones included
    Scripts,   \* what a server may write
    ReadSize,  \* how many pieces the 4096 bytes of a read hold
    None       \* no result yet

Piece == {"id", "id_head", "id_tail", "line", "kex", "kex_head", "kex_tail",
          "cut_kex", "extra"}

ASSUME SshAssumption ==
    /\ Pqc \subseteq Alg
    /\ Scripts \subseteq Seq(Piece)
    /\ ReadSize \in Nat \ {0}

VARIABLES
    offer,     \* the algorithms in the server's KEXINIT
    script,    \* what the server writes
    eager,     \* whether it waits for the client
    sent,      \* how many pieces it has sent
    socket,    \* the pieces that arrived and are not read
    closed,    \* the server has closed the connection
    phase,     \* where the scan is
    id_line,   \* the pieces read as identification
    heard,     \* the pieces written back to the server
    smooth,    \* nothing failed, timed out, was closed or cut short (history)
    result     \* the ScanResult

server == <<offer, script, eager>>
wire == <<sent, socket, closed>>
vars == <<server, wire, phase, id_line, heard, smooth, result>>

\* ScanResult::Ssh; lists that are None are empty here
Result == [addr : BOOLEAN, error : BOOLEAN, pqc_supported : BOOLEAN,
           pqc_algos : SUBSET Alg, nonpqc_algos : SUBSET Alg]

\* None is not a result.
ASSUME NoneAssumption == None \notin Result

TypeOK ==
    /\ offer \in Offers /\ script \in Scripts /\ eager \in BOOLEAN
    /\ sent \in 0..Len(script)
    /\ socket \in Seq(Piece)
    /\ closed \in BOOLEAN
    /\ phase \in {"connecting", "id", "echo", "kexinit", "done", "panicked"}
    /\ id_line \in Seq(Piece)
    /\ heard \in Seq(Piece)
    /\ smooth \in BOOLEAN
    /\ result \in Result \union {None}

Init ==
    /\ offer \in Offers /\ script \in Scripts /\ eager \in BOOLEAN
    /\ sent = 0 /\ socket = <<>> /\ closed = FALSE
    /\ phase = "connecting"
    /\ id_line = <<>> /\ heard = <<>>
    /\ smooth = TRUE
    /\ result = None

-----------------------------------------------------------------------------
(* The server. *)

IsId(pieces) == pieces \in {<<"id">>, <<"id_head", "id_tail">>}

\* The server has the whole identification line of the client.
ClientIdentified ==
    \E n \in 1..Len(heard) : IsId(SubSeq(heard, 1, n))

ServerSends ==
    /\ phase # "connecting"
    /\ ~closed
    /\ sent < Len(script)
    /\ \/ eager
       \/ ClientIdentified
       \/ script[sent + 1] \in {"id", "id_head", "id_tail", "line"}
    /\ sent' = sent + 1
    /\ socket' = Append(socket, script[sent + 1])
    /\ UNCHANGED <<server, closed, phase, id_line, heard, smooth, result>>

\* A reset also discards what the scan has not read.
ServerCloses ==
    /\ phase # "connecting"
    /\ ~closed
    /\ closed' = TRUE
    /\ socket' \in {socket, <<>>}
    /\ smooth' = FALSE
    /\ UNCHANGED <<server, sent, phase, id_line, heard, result>>

-----------------------------------------------------------------------------
(* The scan. *)

Failed(addr) == [addr |-> addr, error |-> TRUE, pqc_supported |-> FALSE,
                 pqc_algos |-> {}, nonpqc_algos |-> {}]

\* the loop over ki.kex_algos; names not in the database are only logged
Classified_supportedByAny(kex_algos) ==
    [addr |-> TRUE, error |-> FALSE,
     pqc_supported |-> kex_algos \intersect Alg # {},
     pqc_algos |-> kex_algos \intersect Pqc,
     nonpqc_algos |-> (kex_algos \intersect Alg) \ Pqc]

Classified(kex_algos) ==
    [addr |-> TRUE, error |-> FALSE,
     pqc_supported |-> kex_algos \intersect Pqc # {},
     pqc_algos |-> kex_algos \intersect Pqc,
     nonpqc_algos |-> (kex_algos \intersect Alg) \ Pqc]

\* socket_create_and_connect
Connect ==
    /\ phase = "connecting"
    /\ phase' = "id"
    /\ UNCHANGED <<server, wire, id_line, heard, smooth, result>>

\* It does not resolve, refuses, or does not answer in time.
ConnectFails ==
    /\ phase = "connecting"
    /\ phase' = "done"
    /\ result' = Failed(FALSE)
    /\ smooth' = FALSE
    /\ UNCHANGED <<server, wire, id_line, heard>>

\* The socket itself cannot be made, and that error is unwrapped.
ConnectPanics ==
    /\ phase = "connecting"
    /\ phase' = "panicked"
    /\ smooth' = FALSE
    /\ UNCHANGED <<server, wire, id_line, heard, result>>

\* What a read returns, and what it leaves: as much as the buffer holds.
ReadData == SubSeq(socket, 1, IF Len(socket) < ReadSize THEN Len(socket) ELSE ReadSize)

Unread == SubSeq(socket, Len(ReadData) + 1, Len(socket))

\* The first read must start with "SSH-" ...
ReadId ==
    /\ phase = "id"
    /\ socket # <<>>
    /\ Head(socket) \in {"id", "id_head"}
    /\ id_line' = ReadData
    /\ socket' = Unread
    /\ phase' = "echo"
    /\ UNCHANGED <<server, sent, closed, heard, smooth, result>>

\* ... or this is not an SSH server.
ReadNotSsh ==
    /\ phase = "id"
    /\ socket # <<>>
    /\ Head(socket) \notin {"id", "id_head"}
    /\ socket' = Unread
    /\ phase' = "done"
    /\ result' = Failed(TRUE)
    /\ UNCHANGED <<server, sent, closed, id_line, heard, smooth>>

\* No identification in 5 seconds, the connection ends, or the write fails.
IdFails ==
    /\ \/ phase = "id" /\ socket = <<>>
       \/ phase = "echo"
    /\ phase' = "done"
    /\ result' = Failed(TRUE)
    /\ smooth' = FALSE
    /\ UNCHANGED <<server, wire, id_line, heard>>

\* try_write may take less than it is given; how much it took is only logged.
EchoId ==
    /\ phase = "echo"
    /\ \E n \in 0..Len(id_line) :
        /\ heard' = SubSeq(id_line, 1, n)
        /\ smooth' = (smooth /\ n = Len(id_line))
    /\ phase' = "kexinit"
    /\ UNCHANGED <<server, wire, id_line, result>>

\* parse_ssh_msg_kexinit: exactly one whole packet parses.
IsKexInit_head(data) ==
    data \in {<<"kex">>, <<"kex_head", "kex_tail">>, <<"kex_head">>}

IsKexInit(data) == data \in {<<"kex">>, <<"kex_head", "kex_tail">>}

\* The second read must be the KEXINIT packet; when it is not, the scan goes
\* on as if the server had named no algorithm.
ReadKexInit ==
    /\ phase = "kexinit"
    /\ socket # <<>>
    /\ Head(socket) # "cut_kex"
    /\ socket' = Unread
    /\ phase' = "done"
    /\ result' = Classified(IF IsKexInit(ReadData) THEN offer ELSE {})
    /\ UNCHANGED <<server, sent, closed, id_line, heard, smooth>>

\* parse_ssh_name_list unwraps a length that is not there.
Panic ==
    /\ phase = "kexinit"
    /\ socket # <<>>
    /\ Head(socket) = "cut_kex"
    /\ socket' = Unread
    /\ phase' = "panicked"
    /\ UNCHANGED <<server, sent, closed, id_line, heard, smooth, result>>

KexInitFails_onlyOnClose ==
    /\ phase = "kexinit"
    /\ socket = <<>>
    /\ closed
    /\ phase' = "done"
    /\ result' = Classified({})
    /\ smooth' = FALSE
    /\ UNCHANGED <<server, wire, id_line, heard>>

KexInitFails_onWouldBlock ==
    /\ phase = "kexinit"
    /\ socket = <<>>
    /\ phase' = "done"
    /\ result' = Classified({})
    /\ UNCHANGED <<server, wire, id_line, heard, smooth>>

\* No KEXINIT in 10 seconds, or the connection ends: only logged as well.
KexInitFails ==
    /\ phase = "kexinit"
    /\ socket = <<>>
    /\ phase' = "done"
    /\ result' = Classified({})
    /\ smooth' = FALSE
    /\ UNCHANGED <<server, wire, id_line, heard>>

Scan == Connect \/ ConnectFails \/ ConnectPanics \/ ReadId \/ ReadNotSsh \/ IdFails
        \/ EchoId \/ ReadKexInit \/ Panic \/ KexInitFails

Next == ServerSends \/ ServerCloses \/ Scan

Spec == Init /\ [][Next]_vars

\* The runtime polls the task, and every wait of it has a time limit.
FairSpec == Spec /\ WF_vars(Scan)

-----------------------------------------------------------------------------
(* Properties. *)

Claimed(r) == r.pqc_algos \union r.nonpqc_algos

\* Algorithms are claimed only once the server has sent all of its KEXINIT:
\* a packet cut by the network is never taken for the whole (ssh.rs:85-119).
ClaimsNeedWholeKexInit ==
    result # None /\ Claimed(result) # {} =>
        \E n \in 1..sent : script[n] \in {"kex", "kex_tail"}

\* A result without an error is of a server that identified itself as SSH, and
\* some of its identification has been offered back to it (ssh.rs:199-223).
SuccessMeansSsh ==
    result # None /\ ~result.error =>
        /\ sent > 0 /\ script[1] \in {"id", "id_head"}
        /\ id_line # <<>> /\ id_line[1] = script[1]

\* Against a server that waits for the client and whose two messages arrive
\* whole and in time, the scan reports exactly what the server offers; nothing
\* else that happens meanwhile can spoil it.
PoliteServerReported ==
    /\ phase = "done" /\ smooth
    /\ script = <<"id", "kex">> /\ ~eager
    => result = Classified(offer)

\* The scan of a target ends, with a result or in a panic, whatever the server
\* does or fails to do.
Termination == <>(phase \in {"done", "panicked"})

\* The scan gives one result, with claims that hold.
Target == INSTANCE TargetScan WITH
    offered <- offer \intersect Alg,
    result <- IF result = None THEN None
              ELSE [error |-> result.error,
                    pqc_supported |-> result.pqc_supported,
                    algos |-> Claimed(result)]

\* ssh_scan_target implements the promise every scan makes (TargetScan).
ImplementsTargetScan == Target!Spec

\* The scan "queries their advertised PQC support" (README.md:13): a result
\* without an error and without PQC is of a server that advertises none, all
\* the more when the server sent its KEXINIT and nothing went wrong.
NegativeIsSure ==
    /\ result # None /\ ~result.error /\ ~result.pqc_supported
    /\ smooth
    /\ \E n \in 1..sent : script[n] \in {"kex", "kex_tail"}
    => offer \intersect Pqc = {}
=============================================================================
