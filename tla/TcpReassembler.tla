--------------------------- MODULE TcpReassembler ---------------------------
(***************************************************************************)
(* pqcdump's view of TCP: TcpReassembler and TcpJoiner of                  *)
(* pqcdump/src/tcp.rs and the part of process_packet (pqcdump/src/main.rs) *)
(* that feeds them. A packet of the capture is handled whole before the    *)
(* next one is read; the capture itself is any sequence of segments, so    *)
(* lost, repeated and reordered packets are all there.                     *)
(*                                                                         *)
(* A byte of payload is its flow and its sequence number: what matters     *)
(* here is which bytes are put next to each other, not what they say.      *)
(***************************************************************************)
EXTENDS Integers, Sequences

CONSTANTS
    TcpFlow,     \* the directed flows: source, destination and both ports
    SeqMod,      \* sequence numbers wrap here: 2^32
    MaxLen,      \* the longest TCP payload
    MinPayload,  \* process_packet drops a payload shorter than this: 6
    MaxPackets   \* bound of the model: the packets of the capture

ASSUME ReassemblerAssumption ==
    /\ SeqMod \in Nat /\ MaxLen \in Nat /\ MaxLen < SeqMod
    /\ MinPayload \in 1..MaxLen
    /\ MaxPackets \in Nat

SeqNo == 0..(SeqMod - 1)
Byte == [flow : TcpFlow, seq : SeqNo]

\* a TcpJoiner
Joiner == [next_seq : SeqNo, buffer : Seq(Byte)]

\* There is no entry in TcpReassembler::flows for the flow.
NoJoiner == [next_seq |-> -1, buffer |-> <<>>]

VARIABLES
    flows,   \* TcpReassembler::flows
    seen,    \* what process_packet_helper was given for the last packet
    pushed,  \* history: the last payload of each flow that was pushed
    gap,     \* history: it did not follow the payload of the flow before it
    packets  \* how many packets have been read

vars == <<flows, seen, pushed, gap, packets>>

TypeOK ==
    /\ flows \in [TcpFlow -> Joiner \union {NoJoiner}]
    /\ seen \in Seq(Seq(Byte))
    /\ pushed \in [TcpFlow -> Seq(Byte)]
    /\ gap \in [TcpFlow -> BOOLEAN]
    /\ packets \in 0..MaxPackets

Init ==
    /\ flows = [f \in TcpFlow |-> NoJoiner]
    /\ seen = <<>>
    /\ pushed = [f \in TcpFlow |-> <<>>]
    /\ gap = [f \in TcpFlow |-> FALSE]
    /\ packets = 0

\* seq + len on u32, which wraps in a release build
Advance(s, n) == (s + n) % SeqMod

\* the payload of n bytes that starts at sequence number s of flow f
Payload(f, s, n) == [i \in 1..n |-> [flow |-> f, seq |-> Advance(s, i - 1)]]

\* the sequence number after the last payload of flow f
NextOf(f) == Advance(pushed[f][Len(pushed[f])].seq, 1)

\* entry(key).or_insert_with(|| TcpJoiner::new(seq))
Entry(f, s) ==
    IF flows[f] = NoJoiner THEN [next_seq |-> s, buffer |-> <<>>] ELSE flows[f]

\* TcpJoiner::push when the segment is the one expected: the buffer and the
\* payload are handed out together and the buffer is left empty.
PushInOrder_keepsBuffer(f, s, p) ==
    LET joiner == Entry(f, s) IN
    /\ s = joiner.next_seq
    /\ flows' = [flows EXCEPT ![f] =
                    [next_seq |-> Advance(s, Len(p)), buffer |-> joiner.buffer \o p]]
    /\ seen' = <<p, joiner.buffer \o p>>

PushInOrder(f, s, p) ==
    LET joiner == Entry(f, s) IN
    /\ s = joiner.next_seq
    /\ flows' = [flows EXCEPT ![f] =
                    [next_seq |-> Advance(s, Len(p)), buffer |-> <<>>]]
    /\ seen' = <<p, joiner.buffer \o p>>

\* TcpJoiner::push on a sequence mismatch: the payload replaces the buffer.
PushReset_keepsNext(f, s, p) ==
    LET joiner == Entry(f, s) IN
    /\ s # joiner.next_seq
    /\ flows' = [flows EXCEPT ![f] =
                    [next_seq |-> joiner.next_seq, buffer |-> p]]
    /\ seen' = <<p>>

PushReset_dropsPayload(f, s, p) ==
    /\ s # Entry(f, s).next_seq
    /\ flows' = [flows EXCEPT ![f] =
                    [next_seq |-> Advance(s, Len(p)), buffer |-> <<>>]]
    /\ seen' = <<p>>

PushReset(f, s, p) ==
    /\ s # Entry(f, s).next_seq
    /\ flows' = [flows EXCEPT ![f] =
                    [next_seq |-> Advance(s, Len(p)), buffer |-> p]]
    /\ seen' = <<p>>

\* process_packet on a TCP segment: a short payload is left alone; any other
\* is examined on its own, then pushed, and what push hands out is examined.
ProcessPacket(f, s, n) ==
    /\ packets < MaxPackets
    /\ packets' = packets + 1
    /\ n >= MinPayload
    /\ pushed' = [pushed EXCEPT ![f] = Payload(f, s, n)]
    /\ gap' = [gap EXCEPT ![f] = pushed[f] # <<>> /\ s # NextOf(f)]
    /\ \/ PushInOrder(f, s, Payload(f, s, n))
       \/ PushReset(f, s, Payload(f, s, n))

IgnorePacket ==
    /\ packets < MaxPackets
    /\ packets' = packets + 1
    /\ seen' = <<>>
    /\ UNCHANGED <<flows, pushed, gap>>

Next ==
    \/ \E f \in TcpFlow, s \in SeqNo, n \in 1..MaxLen : ProcessPacket(f, s, n)
    \/ IgnorePacket

Spec == Init /\ [][Next]_vars

-----------------------------------------------------------------------------
(* Properties. *)

\* The bytes of d are consecutive bytes of one flow.
Run(d) ==
    \A i \in 1..(Len(d) - 1) :
        d[i + 1] = [flow |-> d[i].flow, seq |-> Advance(d[i].seq, 1)]

\* No bytes are ever put together that were not neighbours in the stream: not
\* of two flows, not across a gap, not across the wrap of the sequence number
\* (tcp.rs:33-47). The parsers read whatever they are given.
Contiguous == \A k \in DOMAIN seen : Run(seen[k])

\* What push hands out ends with the packet just read, and what comes before
\* is the packet of the flow pushed just before it: no stale bytes, and never
\* more than two packets however long the flow (tcp.rs:33-47).
Fresh ==
    [][\A f \in TcpFlow :
        pushed'[f] # pushed[f] /\ Len(seen') = 2 =>
            /\ seen'[1] = pushed'[f]
            /\ seen'[2] \in {pushed'[f], pushed[f] \o pushed'[f]}]_vars

\* What is kept for a flow is its last packet when that came after a gap, a
\* retransmission or a packet out of order, and nothing otherwise, and the flow
\* expects the byte after it (tcp.rs:35-47: the buffer never grows).
BoundedBuffer ==
    \A f \in TcpFlow :
        /\ flows[f].buffer = IF gap[f] THEN pushed[f] ELSE <<>>
        /\ pushed[f] # <<>> => flows[f].next_seq = NextOf(f)

\* the packet just read follows the last one of flow f
FollowedBy(f, s, n) ==
    pushed[f] # <<>> /\ s = NextOf(f) /\ ProcessPacket(f, s, n)

\* After a gap, the packet kept is examined together with the one that follows
\* it: a message split over both is found (tcp.rs:33-46).
JoinsAfterGap ==
    [][\A f \in TcpFlow, s \in SeqNo, n \in 1..MaxLen :
        gap[f] /\ FollowedBy(f, s, n)
            => seen' = <<Payload(f, s, n), pushed[f] \o Payload(f, s, n)>>]_vars
=============================================================================
