------------------------ MODULE PcapPipeline_proofs ------------------------
(***************************************************************************)
(* Proofs about PcapPipeline, for any streams, any way of cutting them and *)
(* any capture of them: first about its reassembler, the behaviours of     *)
(* TcpReassembler alone; then that the packet loop implements it and       *)
(* CaptureReport, that what is recorded of a socket was sent by it, and    *)
(* that the second look at a payload changes nothing.                      *)
(***************************************************************************)
EXTENDS PcapPipeline, SequenceTheorems, TLAPS

-----------------------------------------------------------------------------
(* The reassembler: what it keeps of a flow and what it hands out. *)

(***************************************************************************)
(* Arithmetic of sequence numbers.                                         *)
(***************************************************************************)
LEMMA RemainderUnique ==
    ASSUME NEW m \in Nat \ {0}, NEW q \in Int, NEW r \in 0..(m - 1),
           NEW a \in Int, a = m * q + r
    PROVE  a % m = r
  OBVIOUS

LEMMA SuccRemainder ==
    ASSUME NEW m \in Nat \ {0}, NEW a \in Nat
    PROVE  (a + 1) % m = ((a % m) + 1) % m
<1> DEFINE q == a \div m
           r == a % m
<1>1. a = m * q + r /\ q \in Int /\ r \in 0..(m - 1)
  OBVIOUS
<1> HIDE DEF q, r
<1>2. CASE r + 1 < m
  <2> DEFINE b == a + 1
             t == r + 1
  <2>1. b = m * q + t /\ t \in 0..(m - 1) /\ b \in Int
    BY <1>1, <1>2
  <2>2. t = m * 0 + t /\ t \in Int
    BY <1>1
  <2> HIDE DEF b, t
  <2>3. b % m = t /\ t % m = t
    BY <1>1, <2>1, <2>2, RemainderUnique
  <2> QED  BY <2>3 DEF b, t, r
<1>3. CASE r + 1 = m
  <2> DEFINE b == a + 1
             p == q + 1
  <2>1. b = m * p + 0 /\ p \in Int /\ b \in Int /\ 0 \in 0..(m - 1)
    BY <1>1, <1>3
  <2> HIDE DEF b, p
  <2>2. b % m = 0
    BY <2>1, RemainderUnique
  <2>3. m % m = 0
    BY m = m * 1 + 0, 0 \in 0..(m - 1), RemainderUnique
  <2> QED  BY <1>3, <2>2, <2>3 DEF b, r
<1> QED  BY <1>1, <1>2, <1>3

LEMMA AdvanceInSeqNo ==
    ASSUME NEW s \in SeqNo, NEW n \in Nat
    PROVE  Advance(s, n) \in SeqNo
  BY ReassemblerAssumption DEF SeqNo, Advance

LEMMA AdvanceOne ==
    ASSUME NEW s \in SeqNo, NEW n \in Nat
    PROVE  Advance(Advance(s, n), 1) = Advance(s, n + 1)
<1> DEFINE a == s + n
<1>1. a \in Nat /\ SeqMod \in Nat \ {0} /\ s + (n + 1) = a + 1
  BY ReassemblerAssumption DEF SeqNo
<1> HIDE DEF a
<1>2. (a + 1) % SeqMod = ((a % SeqMod) + 1) % SeqMod
  BY <1>1, SuccRemainder
<1> QED  BY <1>1, <1>2 DEF Advance, a

LEMMA AdvanceZero ==
    ASSUME NEW s \in SeqNo
    PROVE  Advance(s, 0) = s
  BY ReassemblerAssumption DEF SeqNo, Advance

-----------------------------------------------------------------------------
(***************************************************************************)
(* Payloads and what push puts together.                                   *)
(***************************************************************************)
LEMMA PayloadFacts ==
    ASSUME NEW f \in TcpFlow, NEW s \in SeqNo, NEW n \in 1..MaxLen
    PROVE  LET p == Payload(f, s, n) IN
           /\ p \in Seq(Byte) /\ Len(p) = n /\ p # <<>>
           /\ p[1] = [flow |-> f, seq |-> s]
           /\ p[n] = [flow |-> f, seq |-> Advance(s, n - 1)]
           /\ Advance(p[n].seq, 1) = Advance(s, n)
           /\ Run(p)
<1> DEFINE p == Payload(f, s, n)
<1>0. n \in Nat \ {0}
  BY ReassemblerAssumption
<1>1. \A i \in 1..n : p[i] = [flow |-> f, seq |-> Advance(s, i - 1)]
                      /\ p[i] \in Byte
  BY <1>0, AdvanceInSeqNo DEF Payload, Byte
<1>2. p \in Seq(Byte) /\ Len(p) = n
  <2>1. p \in [1..n -> Byte]
    BY <1>1 DEF Payload
  <2> QED  BY <1>0, <2>1, LenProperties, IsASeq
<1>3. p # <<>>
  BY <1>0, <1>2, EmptySeq
<1>4. p[1] = [flow |-> f, seq |-> s]
  BY <1>0, <1>1, AdvanceZero
<1>5. /\ p[n] = [flow |-> f, seq |-> Advance(s, n - 1)]
      /\ Advance(p[n].seq, 1) = Advance(s, n)
  BY <1>0, <1>1, AdvanceOne
<1>6. ASSUME NEW i \in 1..(n - 1)
      PROVE  p[i + 1] = [flow |-> p[i].flow, seq |-> Advance(p[i].seq, 1)]
  <2>1. i \in 1..n /\ i + 1 \in 1..n /\ i - 1 \in Nat /\ (i - 1) + 1 = (i + 1) - 1
    BY <1>0
  <2>2. Advance(Advance(s, i - 1), 1) = Advance(s, (i + 1) - 1)
    BY <2>1, AdvanceOne
  <2>3. p[i] = [flow |-> f, seq |-> Advance(s, i - 1)]
        /\ p[i + 1] = [flow |-> f, seq |-> Advance(s, (i + 1) - 1)]
    BY <1>1, <2>1
  <2> QED  BY <2>2, <2>3
<1>7. Run(p)
  BY <1>2, <1>6 DEF Run
<1> QED  BY <1>2, <1>3, <1>4, <1>5, <1>7

LEMMA RunConcat ==
    ASSUME NEW f \in TcpFlow, NEW s \in SeqNo,
           NEW b \in Seq(Byte), b # <<>>, Run(b),
           b[Len(b)].flow = f, Advance(b[Len(b)].seq, 1) = s,
           NEW p \in Seq(Byte), p # <<>>, Run(p),
           p[1] = [flow |-> f, seq |-> s]
    PROVE  Run(b \o p)
<1>1. /\ Len(b) \in Nat \ {0} /\ Len(p) \in Nat \ {0}
      /\ Len(b \o p) = Len(b) + Len(p)
      /\ \A i \in 1..(Len(b) + Len(p)) :
            (b \o p)[i] = IF i <= Len(b) THEN b[i] ELSE p[i - Len(b)]
  BY ConcatProperties, LenProperties, EmptySeq
<1>2. ASSUME NEW i \in 1..(Len(b) + Len(p) - 1)
      PROVE  (b \o p)[i + 1] =
                [flow |-> (b \o p)[i].flow, seq |-> Advance((b \o p)[i].seq, 1)]
  <2>1. CASE i < Len(b)
    BY <1>1, <2>1 DEF Run
  <2>2. CASE i = Len(b)
    BY <1>1, <2>2
  <2>3. CASE i > Len(b)
    <3>1. i - Len(b) \in 1..(Len(p) - 1) /\ i + 1 - Len(b) = i - Len(b) + 1
      BY <1>1, <2>3
    <3> QED  BY <1>1, <2>3, <3>1 DEF Run
  <2> QED  BY <1>1, <2>1, <2>2, <2>3
<1> QED  BY <1>1, <1>2 DEF Run

-----------------------------------------------------------------------------
(***************************************************************************)
(* The invariant: the flow expects the byte after the last payload pushed, *)
(* which is a run of the flow's own bytes and is what is kept if it came   *)
(* after a gap.                                                            *)
(***************************************************************************)
Kept(f) ==
    /\ flows[f].buffer = IF gap[f] THEN pushed[f] ELSE <<>>
    /\ pushed[f] = <<>> <=> flows[f] = NoJoiner
    /\ pushed[f] = <<>> => gap[f] = FALSE
    /\ pushed[f] # <<>> =>
        /\ flows[f] \in Joiner
        /\ flows[f].next_seq = NextOf(f)
        /\ Run(pushed[f])
        /\ pushed[f][Len(pushed[f])].flow = f

IInv == TypeOK /\ Contiguous /\ \A f \in TcpFlow : Kept(f)

LEMMA EntryFacts ==
    ASSUME IInv, NEW f \in TcpFlow, NEW s \in SeqNo
    PROVE  /\ Entry(f, s) \in Joiner
           /\ pushed[f] = <<>> => /\ Entry(f, s).buffer = <<>>
                                  /\ Entry(f, s).next_seq = s
           /\ pushed[f] # <<>> =>
                /\ Entry(f, s).buffer = IF gap[f] THEN pushed[f] ELSE <<>>
                /\ Entry(f, s).next_seq = NextOf(f)
<1>1. CASE flows[f] = NoJoiner
  <2>1. Entry(f, s) = [next_seq |-> s, buffer |-> <<>>]
    BY <1>1 DEF Entry
  <2>2. pushed[f] = <<>>
    BY <1>1 DEF IInv, Kept
  <2> QED  BY <2>1, <2>2, EmptySeq DEF Joiner
<1>2. CASE flows[f] # NoJoiner
  BY <1>2 DEF Entry, IInv, Kept
<1> QED  BY <1>1, <1>2

LEMMA InOrderStep ==
    ASSUME IInv, NEW f \in TcpFlow, NEW s \in SeqNo, NEW n \in 1..MaxLen,
           PushInOrder(f, s, Payload(f, s, n))
    PROVE  LET p == Payload(f, s, n) IN
           /\ flows' = [flows EXCEPT ![f] =
                            [next_seq |-> Advance(s, n), buffer |-> <<>>]]
           /\ seen' \in Seq(Seq(Byte))
           /\ Contiguous'
           /\ pushed[f] = <<>> \/ s = NextOf(f)
           /\ seen' = IF gap[f] THEN <<p, pushed[f] \o p>> ELSE <<p, p>>
<1> DEFINE p == Payload(f, s, n)
           b == Entry(f, s).buffer
           d == b \o p
<1>1. /\ s = Entry(f, s).next_seq
      /\ flows' = [flows EXCEPT ![f] =
                        [next_seq |-> Advance(s, Len(p)), buffer |-> <<>>]]
      /\ seen' = <<p, d>>
  BY DEF PushInOrder
<1>2. p \in Seq(Byte) /\ Len(p) = n /\ p # <<>> /\ Run(p)
      /\ p[1] = [flow |-> f, seq |-> s]
  BY PayloadFacts
<1>3. b = (IF gap[f] THEN pushed[f] ELSE <<>>) /\ b \in Seq(Byte)
  <2>1. b = IF gap[f] THEN pushed[f] ELSE <<>>
    <3>1. CASE pushed[f] = <<>>
      <4>1. b = <<>> /\ gap[f] = FALSE
        BY <3>1, EntryFacts DEF IInv, Kept
      <4> QED  BY <4>1
    <3>2. CASE pushed[f] # <<>>
      BY <3>2, EntryFacts
    <3> QED  BY <3>1, <3>2
  <2>2. b \in Seq(Byte)
    BY EntryFacts DEF Joiner
  <2> QED  BY <2>1, <2>2
<1>4. pushed[f] = <<>> \/ s = NextOf(f)
  BY <1>1, EntryFacts
<1>5. b = <<>> => d = p
  BY <1>2, ConcatEmptySeq
<1>6. ASSUME b # <<>>
      PROVE  Run(d)
  <2>1. /\ b = pushed[f] /\ pushed[f] # <<>> /\ Run(b) /\ b[Len(b)].flow = f
        /\ Advance(b[Len(b)].seq, 1) = s
    BY <1>3, <1>4, <1>6 DEF IInv, Kept, NextOf
  <2> HIDE DEF b, p
  <2> QED  BY <1>2, <1>3, <1>6, <2>1, RunConcat
<1>7. d \in Seq(Byte) /\ Run(d)
  BY <1>2, <1>3, <1>5, <1>6, ConcatProperties
<1>8. seen' = IF gap[f] THEN <<p, pushed[f] \o p>> ELSE <<p, p>>
  BY <1>1, <1>3, <1>5
<1> HIDE DEF p, b, d
<1>9. seen' \in Seq(Seq(Byte)) /\ Contiguous'
  BY <1>1, <1>2, <1>7 DEF Contiguous
<1> QED  BY <1>1, <1>2, <1>4, <1>8, <1>9 DEF p

LEMMA ResetStep ==
    ASSUME IInv, NEW f \in TcpFlow, NEW s \in SeqNo, NEW n \in 1..MaxLen,
           PushReset(f, s, Payload(f, s, n))
    PROVE  LET p == Payload(f, s, n) IN
           /\ flows' = [flows EXCEPT ![f] =
                            [next_seq |-> Advance(s, n), buffer |-> p]]
           /\ seen' = <<p>>
           /\ seen' \in Seq(Seq(Byte))
           /\ Contiguous'
           /\ pushed[f] # <<>> /\ s # NextOf(f)
<1> DEFINE p == Payload(f, s, n)
<1>1. p \in Seq(Byte) /\ Len(p) = n /\ Run(p)
  BY PayloadFacts
<1>2. /\ flows' = [flows EXCEPT ![f] =
                    [next_seq |-> Advance(s, Len(p)), buffer |-> p]]
      /\ seen' = <<p>>
      /\ s # Entry(f, s).next_seq
  BY DEF PushReset
<1>3. pushed[f] # <<>> /\ s # NextOf(f)
  BY <1>2, EntryFacts
<1> HIDE DEF p
<1>4. seen' \in Seq(Seq(Byte)) /\ Contiguous'
  BY <1>1, <1>2 DEF Contiguous
<1> QED  BY <1>1, <1>2, <1>3, <1>4 DEF p

LEMMA PacketStep ==
    ASSUME IInv, NEW f \in TcpFlow, NEW s \in SeqNo, NEW n \in 1..MaxLen,
           ProcessPacket(f, s, n)
    PROVE  IInv'
<1> DEFINE p == Payload(f, s, n)
           g1 == pushed[f] # <<>> /\ s # NextOf(f)
<1>1. /\ p \in Seq(Byte) /\ Len(p) = n /\ Run(p) /\ p # <<>>
      /\ p[n] = [flow |-> f, seq |-> Advance(s, n - 1)]
      /\ Advance(p[n].seq, 1) = Advance(s, n)
  BY PayloadFacts
<1>2. /\ pushed' = [pushed EXCEPT ![f] = p] /\ gap' = [gap EXCEPT ![f] = g1]
      /\ packets' = packets + 1 /\ packets < MaxPackets
  BY DEF ProcessPacket
<1>3. /\ flows' = [flows EXCEPT ![f] =
                        [next_seq |-> Advance(s, n),
                         buffer |-> IF g1 THEN p ELSE <<>>]]
      /\ seen' \in Seq(Seq(Byte)) /\ Contiguous'
  BY InOrderStep, ResetStep DEF ProcessPacket
<1>4. g1 \in BOOLEAN
  OBVIOUS
<1> HIDE DEF p, g1
<1>5. [next_seq |-> Advance(s, n), buffer |-> IF g1 THEN p ELSE <<>>] \in Joiner
  BY <1>1, AdvanceInSeqNo, EmptySeq, ReassemblerAssumption DEF Joiner
<1>6. TypeOK'
  BY <1>1, <1>2, <1>3, <1>4, <1>5, ReassemblerAssumption DEF IInv, TypeOK
<1>7. ASSUME NEW h \in TcpFlow  PROVE Kept(h)'
  <2>1. CASE h = f
    <3>1. /\ flows'[f] = [next_seq |-> Advance(s, n),
                          buffer |-> IF g1 THEN p ELSE <<>>]
          /\ pushed'[f] = p /\ gap'[f] = g1
      BY <1>2, <1>3 DEF IInv, TypeOK
    <3>2. flows'[f] \in Joiner /\ flows'[f] # NoJoiner
      BY <1>5, <3>1 DEF Joiner, NoJoiner, SeqNo
    <3>3. NextOf(f)' = Advance(s, n)
      BY <1>1, <3>1 DEF NextOf, Advance
    <3> QED  BY <1>1, <2>1, <3>1, <3>2, <3>3 DEF Kept
  <2>2. CASE h # f
    <3>1. flows'[h] = flows[h] /\ pushed'[h] = pushed[h] /\ gap'[h] = gap[h]
      BY <1>2, <1>3, <2>2 DEF IInv, TypeOK
    <3> QED  BY <3>1 DEF Kept, IInv, NextOf, Advance
  <2> QED  BY <2>1, <2>2
<1> QED  BY <1>3, <1>6, <1>7 DEF IInv

\* The invariant of the reassembler, for any capture (tcp.rs:22-71).
THEOREM Invariance == Spec => []IInv
<1>1. Init => IInv
  BY EmptySeq, ReassemblerAssumption
     DEF Init, IInv, TypeOK, Contiguous, Kept, NoJoiner
<1>2. IInv /\ [Next]_vars => IInv'
  <2> SUFFICES ASSUME IInv, [Next]_vars  PROVE IInv'
    OBVIOUS
  <2>1. ASSUME NEW f \in TcpFlow, NEW s \in SeqNo, NEW n \in 1..MaxLen,
               ProcessPacket(f, s, n)
        PROVE  IInv'
    BY <2>1, PacketStep
  <2>2. CASE IgnorePacket
    <3>1. UNCHANGED <<flows, pushed, gap>> /\ seen' = <<>>
          /\ packets' = packets + 1 /\ packets < MaxPackets
      BY <2>2 DEF IgnorePacket
    <3>2. TypeOK' /\ Contiguous'
      BY <3>1, EmptySeq, ReassemblerAssumption DEF IInv, TypeOK, Contiguous
    <3> QED  BY <3>1, <3>2 DEF IInv, Kept, NextOf, Advance
  <2>3. CASE UNCHANGED vars
    <3>1. UNCHANGED <<flows, pushed, gap>>
      BY <2>3 DEF vars
    <3>2. TypeOK' /\ Contiguous'
      BY <2>3 DEF vars, IInv, TypeOK, Contiguous, Run, Advance
    <3> QED  BY <3>1, <3>2 DEF IInv, Kept, NextOf, Advance
  <2> QED  BY <2>1, <2>2, <2>3 DEF Next
<1> QED  BY <1>1, <1>2, PTL DEF Spec

(***************************************************************************)
(* Sequence numbers stay in range and buffers hold bytes.                  *)
(***************************************************************************)
THEOREM TypeCorrect == Spec => []TypeOK
  BY Invariance, PTL DEF IInv

(***************************************************************************)
(* Bytes that were not neighbours in the stream are never put together.    *)
(***************************************************************************)
THEOREM JoinsNeighboursOnly == Spec => []Contiguous
  BY Invariance, PTL DEF IInv

(***************************************************************************)
(* A flow keeps its last packet if that came after a gap and nothing       *)
(* otherwise, and expects the byte after it.                               *)
(***************************************************************************)
THEOREM KeepsOnePacket == Spec => []BoundedBuffer
<1>1. IInv => BoundedBuffer
  BY DEF IInv, Kept, BoundedBuffer
<1> QED  BY <1>1, Invariance, PTL

(***************************************************************************)
(* What push hands out is the packet just read, or that packet after the   *)
(* one of its flow pushed before it.                                       *)
(***************************************************************************)
THEOREM HandsOutFreshBytes == Spec => Fresh
<1> DEFINE Step(f) ==
        pushed'[f] # pushed[f] /\ Len(seen') = 2 =>
            /\ seen'[1] = pushed'[f]
            /\ seen'[2] \in {pushed'[f], pushed[f] \o pushed'[f]}
<1>1. IInv /\ [Next]_vars => [\A f \in TcpFlow : Step(f)]_vars
  <2> SUFFICES ASSUME IInv, Next, NEW g \in TcpFlow, pushed'[g] # pushed[g],
                      Len(seen') = 2
               PROVE  /\ seen'[1] = pushed'[g]
                      /\ seen'[2] \in {pushed'[g], pushed[g] \o pushed'[g]}
    OBVIOUS
  <2>1. PICK f \in TcpFlow, s \in SeqNo, n \in 1..MaxLen : ProcessPacket(f, s, n)
    BY DEF Next, IgnorePacket
  <2> DEFINE p == Payload(f, s, n)
  <2>2. pushed' = [pushed EXCEPT ![f] = p]
    BY <2>1 DEF ProcessPacket
  <2>3. g = f /\ pushed'[f] = p
    BY <2>2 DEF IInv, TypeOK
  <2>4. CASE PushInOrder(f, s, p)
    <3>1. seen' = <<p, pushed[f] \o p>> \/ seen' = <<p, p>>
      BY <2>4, InOrderStep
    <3> QED  BY <2>3, <3>1
  <2>5. CASE PushReset(f, s, p)
    <3>1. seen' = <<p>>
      BY <2>5 DEF PushReset
    <3> QED  BY <3>1
  <2> QED  BY <2>1, <2>4, <2>5 DEF ProcessPacket
<1> QED  BY <1>1, Invariance, PTL DEF Spec, Fresh

(***************************************************************************)
(* A packet that came after a gap is examined again together with the one  *)
(* that follows it.                                                        *)
(***************************************************************************)
THEOREM JoinsWithFollower == Spec => JoinsAfterGap
<1> DEFINE Step(f, s, n) ==
        gap[f] /\ FollowedBy(f, s, n)
            => seen' = <<Payload(f, s, n), pushed[f] \o Payload(f, s, n)>>
<1>1. IInv => \A f \in TcpFlow, s \in SeqNo, n \in 1..MaxLen : Step(f, s, n)
  <2> SUFFICES ASSUME IInv, NEW f \in TcpFlow, NEW s \in SeqNo, NEW n \in 1..MaxLen,
                      gap[f], FollowedBy(f, s, n)
               PROVE  seen' = <<Payload(f, s, n), pushed[f] \o Payload(f, s, n)>>
    OBVIOUS
  <2>1. ~PushReset(f, s, Payload(f, s, n))
    BY ResetStep DEF FollowedBy
  <2>2. PushInOrder(f, s, Payload(f, s, n))
    BY <2>1 DEF FollowedBy, ProcessPacket
  <2> QED  BY <2>2, InOrderStep
<1>2. IInv /\ [Next]_vars
        => [\A f \in TcpFlow, s \in SeqNo, n \in 1..MaxLen : Step(f, s, n)]_vars
  BY <1>1
<1> QED  BY <1>2, Invariance, PTL DEF Spec, JoinsAfterGap

-----------------------------------------------------------------------------
(* The packet loop around it. *)

\* Only ReadPacket touches the reassembler.
LEMMA TcpStep ==
    ASSUME [PipelineNext]_allVars
    PROVE  [Next]_vars
BY DEF PipelineNext, allVars, tcp, vars, ReadPacket, Examine, ExamineKexInit,
       ExamineClientHello, ExamineServerHello, ExaminePanics, ExamineOther, WriteReport

\* The packet loop with its parsers is a behaviour of TcpReassembler, so that
\* the theorems about that one hold of what the parsers are given.
THEOREM ImplementsTcp == PipelineSpec => Spec
<1>1. PipelineInit => Init
  BY DEF PipelineInit
<1>. QED
  BY <1>1, TcpStep, PTL DEF PipelineSpec, Spec

-----------------------------------------------------------------------------
(* What is examined is not empty and begins with a byte of the flow of the *)
(* packet just read.                                                       *)

Fed ==
    /\ \A f \in TcpFlow : pushed[f] # <<>> => pushed[f][1].flow = f
    /\ \A k \in DOMAIN seen :
          /\ seen[k] \in Seq(Byte) \ {<<>>}
          /\ seen[k][1].flow = seen[1][1].flow

LEMMA FedStep ==
    ASSUME IInv, Fed, NEW f \in TcpFlow, NEW s \in SeqNo, NEW n \in 1..MaxLen,
           ProcessPacket(f, s, n)
    PROVE  Fed'
<1> DEFINE p == Payload(f, s, n)
<1>1. p \in Seq(Byte) /\ p # <<>> /\ p[1] = [flow |-> f, seq |-> s]
  BY PayloadFacts
<1>2. pushed' = [pushed EXCEPT ![f] = p] /\ pushed \in [TcpFlow -> Seq(Byte)]
  BY DEF ProcessPacket, IInv, TypeOK
<1>3. \/ seen' = <<p>>
      \/ seen' = <<p, p>>
      \/ gap[f] /\ pushed[f] # <<>> /\ seen' = <<p, pushed[f] \o p>>
  <2>1. CASE PushInOrder(f, s, p)
    <3>1. seen' = IF gap[f] THEN <<p, pushed[f] \o p>> ELSE <<p, p>>
      BY <2>1, InOrderStep
    <3>2. gap[f] => pushed[f] # <<>>
      BY DEF IInv, Kept
    <3>. QED  BY <3>1, <3>2
  <2>2. CASE PushReset(f, s, p)
    BY <2>2, ResetStep
  <2>. QED  BY <2>1, <2>2 DEF ProcessPacket
<1>. HIDE DEF p
<1>4. ASSUME pushed[f] # <<>>
      PROVE  /\ pushed[f] \o p \in Seq(Byte) \ {<<>>}
             /\ (pushed[f] \o p)[1].flow = f
  <2>1. pushed[f] \in Seq(Byte) /\ pushed[f][1].flow = f /\ Len(pushed[f]) > 0
    BY <1>2, <1>4, EmptySeq DEF Fed
  <2>. QED  BY <1>1, <2>1, ConcatProperties, EmptySeq
<1>5. \A g \in TcpFlow : pushed'[g] # <<>> => pushed'[g][1].flow = g
  BY <1>1, <1>2 DEF Fed
<1>6. \A k \in DOMAIN seen' :
          seen'[k] \in Seq(Byte) \ {<<>>} /\ seen'[k][1].flow = seen'[1][1].flow
  <2>1. CASE seen' = <<p>>
    BY <1>1, <2>1
  <2>2. CASE seen' = <<p, p>>
    BY <1>1, <2>2
  <2>3. CASE gap[f] /\ pushed[f] # <<>> /\ seen' = <<p, pushed[f] \o p>>
    <3>. DEFINE joined == pushed[f] \o p
    <3>1. joined \in Seq(Byte) \ {<<>>} /\ joined[1].flow = f
      BY <1>4, <2>3
    <3>. HIDE DEF joined
    <3>2. DOMAIN seen' = 1..2 /\ seen'[1] = p /\ seen'[2] = joined
      BY <2>3 DEF joined
    <3>. QED  BY <1>1, <3>1, <3>2
  <2>. QED  BY <1>3, <2>1, <2>2, <2>3
<1>. QED  BY <1>5, <1>6 DEF Fed

LEMMA FedInvariance == Spec => [](IInv /\ Fed)
<1>1. Init => Fed
  BY DEF Init, Fed
<1>2. IInv /\ Fed /\ [Next]_vars => Fed'
  <2>. SUFFICES ASSUME IInv, Fed, [Next]_vars PROVE Fed'
    OBVIOUS
  <2>1. CASE IgnorePacket
    BY <2>1 DEF IgnorePacket, Fed
  <2>2. CASE UNCHANGED vars
    BY <2>2 DEF vars, Fed
  <2>. QED  BY <2>1, <2>2, FedStep DEF Next
<1>. QED  BY <1>1, <1>2, Invariance, PTL DEF Spec

-----------------------------------------------------------------------------
(* What the parsers read from it are messages of the flow of the packet. *)

\* A parser reads a message that starts where the data starts, and is whole.
LEMMA ParsedIsSent ==
    ASSUME NEW kind, NEW d \in Seq(Byte) \ {<<>>}, Run(d), NEW m \in Parsed(kind, d)
    PROVE  m \in Message /\ m.kind = kind /\ StartsWith(d, m)
<1>1. PICK n \in Message : /\ n.kind = kind /\ StartsWith(d, n) /\ n.size <= Len(d)
                           /\ Holds(d, n) => m = n
  BY DEF Parsed
<1>2. ASSUME NEW i \in 1..(n.size - 1)
      PROVE  Continues(Unit(d[i]), Unit(d[i + 1]))
  <2>1. i \in 1..(Len(d) - 1) /\ i \in 1..Len(d)
    BY <1>1, PipelineAssumption, ReassemblerAssumption DEF IsMessage
  <2>2. d[i] \in Byte /\ d[i + 1] = [flow |-> d[i].flow, seq |-> Advance(d[i].seq, 1)]
    BY <2>1 DEF Run
  <2>. QED
    BY <2>2, PipelineAssumption DEF Unit, Byte
<1>3. Holds(d, n)
  BY <1>1, <1>2 DEF Holds
<1>. QED
  BY <1>1, <1>3

\* What is given to process_packet_helper, when there is something to examine.
LEMMA GivenFacts ==
    ASSUME IInv, Fed, looked \in Nat, looked < Len(seen)
    PROVE  /\ Given \in Seq(Byte) \ {<<>>}
           /\ Run(Given)
           /\ Given[1].flow = Sent
           /\ Sent \in TcpFlow
           /\ Sent \in Socket \X Socket /\ Sent[1] # Sent[2]
<1>1. seen \in Seq(Seq(Byte))
  BY DEF IInv, TypeOK
<1>2. looked + 1 \in DOMAIN seen /\ 1 \in DOMAIN seen
  BY <1>1
<1>3. Given \in Seq(Byte) \ {<<>>} /\ Given[1].flow = Sent /\ Run(Given)
  BY <1>2 DEF Given, Sent, Fed, IInv, Contiguous
<1>4. seen[1] \in Seq(Byte) \ {<<>>}
  BY <1>2 DEF Fed
<1>5. seen[1][1] \in Byte
  BY <1>4, EmptySeq
<1>6. Sent \in TcpFlow
  BY <1>5 DEF Sent, Byte
<1>. QED
  BY <1>3, <1>6, PipelineAssumption

LEMMA ServerHelloFacts ==
    ASSUME NEW d \in Seq(Byte) \ {<<>>}, Run(d), NEW hello \in ServerHellosIn(d)
    PROVE  hello \in ServerHellos
<1>1. CASE \E m \in Parsed("server", d) : hello = m.body
  BY <1>1, ParsedIsSent, PipelineAssumption DEF IsMessage
<1>2. CASE \E m \in Message : m.kind = "server" /\ m.cut # None /\ hello = m.cut
  BY <1>2, PipelineAssumption DEF IsMessage
<1>. QED
  BY <1>1, <1>2 DEF ServerHellosIn

\* The counter of what has been examined of the packet just read.
LookedOk == looked \in Nat /\ looked <= Len(seen)

LEMMA LookedInvariance == PipelineSpec => [](IInv /\ Fed /\ LookedOk)
<1>1. PipelineInit => LookedOk
  BY DEF PipelineInit, Init, LookedOk
<1>2. IInv /\ IInv' /\ LookedOk /\ [PipelineNext]_allVars => LookedOk'
  <2>. SUFFICES ASSUME IInv, IInv', LookedOk, [PipelineNext]_allVars PROVE LookedOk'
    OBVIOUS
  <2>1. Len(seen') \in Nat /\ Len(seen) \in Nat
    BY DEF IInv, TypeOK
  <2>2. CASE ReadPacket
    BY <2>1, <2>2 DEF ReadPacket, LookedOk
  <2>3. CASE Examine
    BY <2>1, <2>3 DEF Examine, tcp, LookedOk
  <2>4. CASE UNCHANGED <<tcp, looked>>
    BY <2>4 DEF tcp, LookedOk
  <2>. QED
    BY <2>2, <2>3, <2>4 DEF PipelineNext, ExamineKexInit, ExamineClientHello,
       ExamineServerHello, ExaminePanics, ExamineOther, WriteReport, allVars
<1>. QED
  BY <1>1, <1>2, ImplementsTcp, FedInvariance, PTL DEF PipelineSpec

\* Each examination is a step of CaptureReport with a message of its sets.
LEMMA ReportStep ==
    ASSUME IInv, Fed, LookedOk, [PipelineNext]_allVars
    PROVE  [Report!Next]_(Report!vars)
<1>. DEFINE client == Parsed("client", Given)
            kexinit == Parsed("kexinit", Given)
<1>1. CASE ExamineKexInit
  <2>1. Sent \in Report!Ssh!Flow /\ \A m \in kexinit : m.body \in KexLists
    BY <1>1, GivenFacts, ParsedIsSent, PipelineAssumption
       DEF ExamineKexInit, Examine, LookedOk, Report!Ssh!Flow, IsMessage
  <2>2. Report!ProcessSsh
    BY <1>1, <2>1 DEF ExamineKexInit, Examine, Report!ProcessSsh, tls, report,
       Report!tls, Report!report
  <2>. QED  BY <2>2 DEF Report!Next
<1>2. CASE ExamineClientHello
  <2>1. Sent[1] \in Socket /\ \A m \in client : m.body \in ClientHellos
    BY <1>2, GivenFacts, ParsedIsSent, PipelineAssumption
       DEF ExamineClientHello, Examine, LookedOk, IsMessage
  <2>2. Report!ProcessClientHello
    BY <1>2, <2>1 DEF ExamineClientHello, Examine, Report!ProcessClientHello,
       ssh, report, Report!ssh, Report!report
  <2>. QED  BY <2>2 DEF Report!Next
<1>3. CASE ExamineServerHello
  <2>1. /\ Reverse(Sent) \in Report!Tls!Flow
        /\ \A hello \in ServerHellosIn(Given) : hello \in ServerHellos
    BY <1>3, GivenFacts, ServerHelloFacts
       DEF ExamineServerHello, Examine, LookedOk, Reverse, Report!Tls!Flow
  <2>2. Report!ProcessServerHello
    BY <1>3, <2>1 DEF ExamineServerHello, Examine, Report!ProcessServerHello,
       ssh, report, Report!ssh, Report!report
  <2>. QED  BY <2>2 DEF Report!Next
<1>4. CASE ExaminePanics
  <2>1. \A hello \in ServerHellosIn(Given) : hello \in ServerHellos
    BY <1>4, GivenFacts, ServerHelloFacts DEF ExaminePanics, Examine, LookedOk
  <2>2. Report!ServerHelloPanics
    BY <1>4, <2>1 DEF ExaminePanics, Examine, Report!ServerHelloPanics,
       ssh, tls, report, Report!ssh, Report!tls, Report!report
  <2>. QED  BY <2>2 DEF Report!Next
<1>5. CASE ExamineOther
  <2>1. Report!OtherPayload
    BY <1>5 DEF ExamineOther, Examine, Report!OtherPayload,
       ssh, tls, report, Report!ssh, Report!tls, Report!report
  <2>. QED  BY <2>1 DEF Report!Next
<1>6. CASE WriteReport
  BY <1>6 DEF WriteReport, Report!Next
<1>7. CASE ReadPacket
  BY <1>7 DEF ReadPacket, ssh, tls, report, Report!vars, Report!ssh, Report!tls, Report!report
<1>8. CASE UNCHANGED allVars
  BY <1>8 DEF allVars, ssh, tls, report, Report!vars, Report!ssh, Report!tls, Report!report
<1>. QED
  BY <1>1, <1>2, <1>3, <1>4, <1>5, <1>6, <1>7, <1>8 DEF PipelineNext

\* With packets, lost, cut, repeated and reordered as they may be, and with the
\* reassembler, pqcdump implements CaptureReport (main.rs:487-567): whatever
\* holds of every sequence of payloads holds of every capture.
THEOREM Implements == PipelineSpec => ImplementsReport
<1>1. PipelineInit => Report!Init
  BY DEF PipelineInit
<1>. QED
  BY <1>1, ReportStep, LookedInvariance, PTL
     DEF PipelineSpec, ImplementsReport, Report!Spec

-----------------------------------------------------------------------------
(* What is proved of CaptureReport holds here. *)

ReportP == INSTANCE CaptureReport_proofs WITH MaxExamined <- 2 * MaxPackets

LEMMA ReportAssumed == ReportP!ReportAssumption
BY PipelineAssumption
   DEF Report!ReportAssumption, ReportP!ReportAssumption, Report!Tls!ClientHello,
       ReportP!Tls!ClientHello, Report!Tls!ServerHello, ReportP!Tls!ServerHello,
       Report!Supported, ReportP!Supported, Report!NoSupport, ReportP!NoSupport,
       Report!Tls12, ReportP!Tls12

LEMMA SameAfter ==
    ASSUME NEW flow, NEW kex
    PROVE  Report!Ssh!After(sessions, host_caps, flow, kex)
           = ReportP!Ssh!After(sessions, host_caps, flow, kex)
<1>1. ASSUME NEW client, NEW other
      PROVE  Report!Ssh!Negotiate(client, other) = ReportP!Ssh!Negotiate(client, other)
  BY DEF Report!Ssh!Negotiate, ReportP!Ssh!Negotiate, Report!Ssh!Names, ReportP!Ssh!Names
<1>2. ASSUME NEW session PROVE Report!Ssh!Settle(session) = ReportP!Ssh!Settle(session)
  BY <1>1 DEF Report!Ssh!Settle, ReportP!Ssh!Settle
<1>3. ASSUME NEW session, NEW forward
      PROVE  Report!Ssh!Record(session, forward, kex) = ReportP!Ssh!Record(session, forward, kex)
  BY DEF Report!Ssh!Record, ReportP!Ssh!Record
<1>4. ASSUME NEW caps, NEW host, NEW prev, NEW next
      PROVE  Report!Ssh!AddCaps(caps, host, prev, next, kex)
             = ReportP!Ssh!AddCaps(caps, host, prev, next, kex)
  BY DEF Report!Ssh!AddCaps, ReportP!Ssh!AddCaps, Report!Ssh!Names, ReportP!Ssh!Names
<1>5. ASSUME NEW map PROVE Report!Ssh!IsForward(map, flow) = ReportP!Ssh!IsForward(map, flow)
  BY DEF Report!Ssh!IsForward, ReportP!Ssh!IsForward, Report!Ssh!NoSession,
         ReportP!Ssh!NoSession, Report!Ssh!Reverse, ReportP!Ssh!Reverse
<1>6. Report!Ssh!Reverse(flow) = ReportP!Ssh!Reverse(flow)
  BY DEF Report!Ssh!Reverse, ReportP!Ssh!Reverse
<1>. QED
  BY <1>2, <1>3, <1>4, <1>5, <1>6 DEF Report!Ssh!After, ReportP!Ssh!After

LEMMA SameInit == Report!Init => ReportP!Init
BY DEF Report!Init, ReportP!Init, Report!Ssh!Init, ReportP!Ssh!Init,
       Report!Ssh!NoSession, ReportP!Ssh!NoSession, Report!Ssh!Flow, ReportP!Ssh!Flow,
       Report!Tls!Init, ReportP!Tls!Init, Report!Tls!Flow, ReportP!Tls!Flow

LEMMA SameNext == [Report!Next]_(Report!vars) => [ReportP!Next]_(ReportP!vars)
<1>. SUFFICES ASSUME [Report!Next]_(Report!vars) PROVE [ReportP!Next]_(ReportP!vars)
  OBVIOUS
<1>. USE DEF Report!ExaminePayload, ReportP!ExaminePayload, Report!ssh, ReportP!ssh,
             Report!tls, ReportP!tls, Report!report, ReportP!report
<1>1. CASE Report!ProcessSsh
  <2>1. ReportP!ProcessSsh
    BY <1>1, SameAfter DEF Report!ProcessSsh, ReportP!ProcessSsh, Report!Ssh!ProcessSsh,
       ReportP!Ssh!ProcessSsh, Report!Ssh!Flow, ReportP!Ssh!Flow
  <2>. QED  BY <2>1 DEF ReportP!Next
<1>2. CASE Report!ProcessClientHello
  <2>1. ReportP!ProcessClientHello
    BY <1>2 DEF Report!ProcessClientHello, ReportP!ProcessClientHello,
       Report!Tls!ProcessClientHello, ReportP!Tls!ProcessClientHello,
       Report!Tls!AddTo, ReportP!Tls!AddTo
  <2>. QED  BY <2>1 DEF ReportP!Next
<1>3. CASE Report!ProcessServerHello \/ Report!ServerHelloPanics
  <2>. USE DEF Report!Tls!Panics, ReportP!Tls!Panics
  <2>1. ASSUME NEW flow, NEW hello, Report!Tls!ProcessServerHello(flow, hello)
        PROVE  ReportP!Tls!ProcessServerHello(flow, hello)
    BY <2>1 DEF Report!Tls!ProcessServerHello, ReportP!Tls!ProcessServerHello,
       Report!Tls!AddTo, ReportP!Tls!AddTo, Report!Tls!KeyShare, ReportP!Tls!KeyShare
  <2>2. ReportP!ProcessServerHello \/ ReportP!ServerHelloPanics
    BY <1>3, <2>1 DEF Report!ProcessServerHello, ReportP!ProcessServerHello,
       Report!ServerHelloPanics, ReportP!ServerHelloPanics,
       Report!Tls!Flow, ReportP!Tls!Flow
  <2>. QED  BY <2>2 DEF ReportP!Next
<1>4. CASE Report!OtherPayload
  <2>1. ReportP!OtherPayload
    BY <1>4 DEF Report!OtherPayload, ReportP!OtherPayload
  <2>. QED  BY <2>1 DEF ReportP!Next
<1>5. CASE Report!EndCapture
  <2>1. Report!SshPqcHosts = ReportP!SshPqcHosts /\ Report!TlsHosts = ReportP!TlsHosts
        /\ Report!Keys(keyshare_groups) = ReportP!Keys(keyshare_groups)
    BY DEF Report!SshPqcHosts, ReportP!SshPqcHosts, Report!SshHosts, ReportP!SshHosts,
       Report!TlsHosts, ReportP!TlsHosts, Report!Keys, ReportP!Keys,
       Report!HostsOf, ReportP!HostsOf
  <2>2. ReportP!EndCapture
    BY <1>5, <2>1 DEF Report!EndCapture, ReportP!EndCapture
  <2>. QED  BY <2>2 DEF ReportP!Next
<1>6. ASSUME NEW s \in Socket, Report!ReportGroups(s) \/ Report!GroupsPanic(s)
      PROVE  ReportP!Next
  <2>1. ReportP!ReportGroups(s) \/ ReportP!GroupsPanic(s)
    BY <1>6 DEF Report!ReportGroups, ReportP!ReportGroups, Report!GroupsPanic,
       ReportP!GroupsPanic, Report!Supported, ReportP!Supported,
       Report!NoSupport, ReportP!NoSupport
  <2>. QED  BY <2>1 DEF ReportP!Next
<1>7. CASE Report!Finish
  <2>1. ReportP!Finish
    BY <1>7 DEF Report!Finish, ReportP!Finish, Report!Tls12, ReportP!Tls12,
       Report!TlsHosts, ReportP!TlsHosts, Report!Keys, ReportP!Keys,
       Report!HostsOf, ReportP!HostsOf
  <2>. QED  BY <2>1 DEF ReportP!Next
<1>8. CASE UNCHANGED Report!vars
  BY <1>8 DEF Report!vars, ReportP!vars
<1>. QED
  BY <1>1, <1>2, <1>3, <1>4, <1>5, <1>6, <1>7, <1>8 DEF Report!Next

LEMMA ReportFacts == PipelineSpec => ReportP!Spec
<1>1. PipelineInit => ReportP!Init
  BY SameInit DEF PipelineInit
<1>. QED
  BY <1>1, ReportStep, SameNext, LookedInvariance, PTL DEF PipelineSpec, ReportP!Spec

\* The tables, counts and statuses of the report agree, for every capture of
\* every connection (main.rs:188-434).
THEOREM ReportAgrees ==
    PipelineSpec => [](/\ ReportP!SessionsMatchCapabilities
                       /\ ReportP!PqcHostsRight
                       /\ ReportP!PqcSessionsBacked
                       /\ ReportP!StatusBacked)
BY ReportFacts, ReportAssumed, ReportP!TablesAgree, ReportP!CountsRightHosts,
   ReportP!SessionsBacked, ReportP!StatusesBacked, PTL

-----------------------------------------------------------------------------
(* What is recorded of a socket, it sent.                                  *)

\* The message read from what is given was sent by the source of the packet.
LEMMA SentIsSent ==
    ASSUME NEW kind, NEW d \in Seq(Byte) \ {<<>>}, NEW m \in Message,
           m.kind = kind, StartsWith(d, m)
    PROVE  m.body \in SentBy(d[1].flow[1], kind)
<1>1. d[1] \in Byte
  BY EmptySeq
<1>2. d[1].flow \in TcpFlow /\ d[1].seq \in SeqNo
  BY <1>1 DEF Byte
<1>. QED
  BY <1>2 DEF SentBy, StartsWith, Unit

LEMMA ReadIsSent ==
    ASSUME NEW kind, NEW d \in Seq(Byte) \ {<<>>}, Run(d), NEW m \in Parsed(kind, d)
    PROVE  m.body \in SentBy(d[1].flow[1], kind)
BY ParsedIsSent, SentIsSent

Shows(s) == {Report!Tls!KeyShare(h) : h \in SentBy(s, "server")} \union {Zero}

SshOwn ==
    \A flow \in Report!Ssh!Flow :
        /\ sessions[flow].client # <<>> => sessions[flow].client \in SentBy(flow[1], "kexinit")
        /\ sessions[flow].server # <<>> => sessions[flow].server \in SentBy(flow[2], "kexinit")

TlsOwn ==
    \A s \in Socket :
        /\ keyshare_groups[s] \subseteq
              (UNION {h.groups : h \in SentBy(s, "client")}) \union Shows(s)
        /\ \A flow \in Report!Tls!Flow :
              flow[2] = s => tls_sessions[flow] \in Shows(s) \union {None}

\* A KEXINIT is kept for the side of the session that sent it.
LEMMA SshOwnStep ==
    ASSUME SshOwn, NEW flow \in Report!Ssh!Flow, NEW kex \in SentBy(flow[1], "kexinit"),
           sessions \in [Report!Ssh!Flow -> ReportP!Ssh!Session],
           Report!Ssh!ProcessSsh(flow, kex)
    PROVE  SshOwn'
<1>. DEFINE forward == Report!Ssh!IsForward(sessions, flow)
            key == IF forward THEN flow ELSE Report!Ssh!Reverse(flow)
            recorded == Report!Ssh!Record(sessions[key], forward, kex)
            settled == Report!Ssh!Settle(recorded)
<1>1. sessions' = [sessions EXCEPT ![key] = settled]
  BY DEF Report!Ssh!ProcessSsh, Report!Ssh!After
<1>2. key \in Report!Ssh!Flow
  BY DEF Report!Ssh!Flow, Report!Ssh!Reverse
<1>3. settled.client = recorded.client /\ settled.server = recorded.server
  BY <1>2 DEF Report!Ssh!Settle, Report!Ssh!Record, ReportP!Ssh!Session
<1>4. /\ recorded.client = sessions[key].client \/ (recorded.client = kex /\ key[1] = flow[1])
      /\ recorded.server = sessions[key].server \/ (recorded.server = kex /\ key[2] = flow[1])
  <2>1. CASE forward
    BY <1>2, <2>1 DEF Report!Ssh!Record, ReportP!Ssh!Session
  <2>2. CASE ~forward
    BY <1>2, <2>2 DEF Report!Ssh!Record, ReportP!Ssh!Session, Report!Ssh!Reverse
  <2>. QED  BY <2>1, <2>2
<1>. HIDE DEF recorded, settled, key, forward
<1>5. ASSUME NEW g \in Report!Ssh!Flow
      PROVE  /\ sessions'[g].client # <<>> => sessions'[g].client \in SentBy(g[1], "kexinit")
             /\ sessions'[g].server # <<>> => sessions'[g].server \in SentBy(g[2], "kexinit")
  <2>1. CASE g = key
    <3>1. sessions'[g] = settled
      BY <1>1, <2>1
    <3>. QED  BY <1>2, <1>3, <1>4, <2>1, <3>1 DEF SshOwn
  <2>2. CASE g # key
    BY <1>1, <2>2 DEF SshOwn
  <2>. QED  BY <2>1, <2>2
<1>. QED
  BY <1>5 DEF SshOwn, SentBy

\* The maps of TlsSessions by what their types say of their domains.
TlsMaps ==
    /\ keyshare_groups \in [Socket -> SUBSET (GroupId \union {Zero})]
    /\ tls_sessions \in [Report!Tls!Flow -> GroupId \union {Zero, None}]

LEMMA ClientOwnStep ==
    ASSUME TlsOwn, TlsMaps, NEW s \in Socket, NEW hello \in SentBy(s, "client"),
           Report!Tls!ProcessClientHello(s, hello)
    PROVE  TlsOwn'
<1>1. /\ keyshare_groups' = [keyshare_groups EXCEPT ![s] = @ \union hello.groups]
      /\ tls_sessions' = tls_sessions
  BY DEF Report!Tls!ProcessClientHello, Report!Tls!AddTo
<1>2. ASSUME NEW t \in Socket
      PROVE  keyshare_groups'[t] \subseteq
                (UNION {h.groups : h \in SentBy(t, "client")}) \union Shows(t)
  <2>1. CASE t = s
    BY <1>1, <2>1 DEF TlsOwn, TlsMaps
  <2>2. CASE t # s
    BY <1>1, <2>2 DEF TlsOwn, TlsMaps
  <2>. QED  BY <2>1, <2>2
<1>. QED
  BY <1>1, <1>2 DEF TlsOwn, Shows, SentBy, Report!Tls!KeyShare, Report!Tls!Flow

\* The group of a ServerHello goes to its sender, the server of the session.
LEMMA ServerOwnStep ==
    ASSUME TlsOwn, TlsMaps, NEW flow \in Report!Tls!Flow, NEW hello,
           Report!Tls!KeyShare(hello) \in Shows(flow[2]),
           Report!Tls!ProcessServerHello(flow, hello)
    PROVE  TlsOwn'
<1>. DEFINE g == Report!Tls!KeyShare(hello)
<1>1. /\ keyshare_groups' = [keyshare_groups EXCEPT ![flow[2]] = @ \union {g}]
      /\ tls_sessions' = [tls_sessions EXCEPT ![flow] = g]
  BY DEF Report!Tls!ProcessServerHello, Report!Tls!AddTo
<1>2. flow[2] \in Socket
  BY DEF Report!Tls!Flow
<1>. HIDE DEF g
<1>3. g \in Shows(flow[2])
  BY DEF g
<1>4. ASSUME NEW t \in Socket
      PROVE  /\ keyshare_groups'[t] \subseteq
                    (UNION {h.groups : h \in SentBy(t, "client")}) \union Shows(t)
             /\ \A f \in Report!Tls!Flow :
                    f[2] = t => tls_sessions'[f] \in Shows(t) \union {None}
  <2>1. ASSUME NEW f \in Report!Tls!Flow, f[2] = t
        PROVE  tls_sessions'[f] \in Shows(t) \union {None}
    <3>1. CASE f = flow
      BY <1>1, <1>3, <2>1, <3>1 DEF TlsMaps
    <3>2. CASE f # flow
      BY <1>1, <2>1, <3>2 DEF TlsMaps, TlsOwn
    <3>. QED  BY <3>1, <3>2
  <2>2. CASE t = flow[2]
    BY <1>1, <1>2, <1>3, <2>1, <2>2 DEF TlsMaps, TlsOwn
  <2>3. CASE t # flow[2]
    BY <1>1, <1>2, <2>1, <2>3 DEF TlsMaps, TlsOwn
  <2>. QED  BY <2>1, <2>2, <2>3
<1>. QED
  BY <1>4 DEF TlsOwn, Shows, SentBy, Report!Tls!KeyShare, Report!Tls!Flow

\* A ServerHello whole or cut shows a group its sender chose, or none.
LEMMA ShowsOwn ==
    ASSUME NEW d \in Seq(Byte) \ {<<>>}, Run(d), NEW hello \in ServerHellosIn(d)
    PROVE  Report!Tls!KeyShare(hello) \in Shows(d[1].flow[1])
<1>1. ASSUME NEW m \in Parsed("server", d), hello = m.body
      PROVE  hello \in SentBy(d[1].flow[1], "server")
  BY <1>1, ReadIsSent
<1>2. ASSUME NEW m \in Message, m.kind = "server", m.cut # None, hello = m.cut
      PROVE  Report!Tls!KeyShare(hello) = Zero
  BY <1>2, PipelineAssumption DEF IsMessage, Report!Tls!KeyShare
<1>. QED
  BY <1>1, <1>2 DEF ServerHellosIn, Shows

LEMMA OwnStep ==
    ASSUME IInv, Fed, LookedOk, SshOwn, TlsOwn, TlsMaps,
           sessions \in [Report!Ssh!Flow -> ReportP!Ssh!Session],
           [PipelineNext]_allVars
    PROVE  SshOwn' /\ TlsOwn'
<1>1. UNCHANGED sessions => SshOwn'
  BY DEF SshOwn, Report!Ssh!Flow
<1>2. UNCHANGED tls => TlsOwn'
  BY DEF TlsOwn, tls, Report!Tls!Flow
<1>3. CASE ExamineKexInit
  <2>1. /\ Sent \in Report!Ssh!Flow
        /\ \A m \in Parsed("kexinit", Given) : m.body \in SentBy(Sent[1], "kexinit")
    BY <1>3, GivenFacts, ReadIsSent DEF ExamineKexInit, Examine, LookedOk, Report!Ssh!Flow
  <2>2. SshOwn'
    BY <1>3, <2>1, SshOwnStep DEF ExamineKexInit
  <2>. QED  BY <1>2, <1>3, <2>2 DEF ExamineKexInit
<1>4. CASE ExamineClientHello
  <2>1. /\ Sent[1] \in Socket
        /\ \A m \in Parsed("client", Given) : m.body \in SentBy(Sent[1], "client")
    BY <1>4, GivenFacts, ReadIsSent DEF ExamineClientHello, Examine, LookedOk
  <2>2. TlsOwn'
    BY <1>4, <2>1, ClientOwnStep DEF ExamineClientHello
  <2>. QED  BY <1>1, <1>4, <2>2 DEF ExamineClientHello, ssh
<1>5. CASE ExamineServerHello
  <2>1. /\ Reverse(Sent) \in Report!Tls!Flow /\ Reverse(Sent)[2] = Sent[1]
        /\ \A hello \in ServerHellosIn(Given) : Report!Tls!KeyShare(hello) \in Shows(Sent[1])
    BY <1>5, GivenFacts, ShowsOwn
       DEF ExamineServerHello, Examine, LookedOk, Reverse, Report!Tls!Flow
  <2>2. TlsOwn'
    BY <1>5, <2>1, ServerOwnStep DEF ExamineServerHello
  <2>. QED  BY <1>1, <1>5, <2>2 DEF ExamineServerHello, ssh
<1>6. CASE UNCHANGED <<ssh, tls>>
  BY <1>1, <1>2, <1>6 DEF ssh
<1>7. CASE WriteReport
  BY <1>6, <1>7 DEF WriteReport, Report!EndCapture, Report!ReportGroups,
     Report!GroupsPanic, Report!Finish, Report!ssh, Report!tls, ssh, tls
<1>. QED
  BY <1>3, <1>4, <1>5, <1>6, <1>7
     DEF PipelineNext, allVars, ReadPacket, ExaminePanics, ExamineOther

\* However the capture was lost, cut, repeated or reordered, no bytes of two
\* messages are read as one and nothing is recorded of the other side
\* (main.rs:536-541, tcp.rs:33-47).
THEOREM InventsNothing == PipelineSpec => []NothingInvented
<1>1. PipelineInit => SshOwn /\ TlsOwn
  BY DEF PipelineInit, Report!Init, Report!Ssh!Init, Report!Tls!Init, SshOwn, TlsOwn,
     Report!Ssh!NoSession, Shows
<1>2. PipelineSpec => []ReportP!TypeOK
  BY ReportFacts, ReportAssumed, ReportP!TypeCorrect, PTL
<1>3. ReportP!TypeOK => /\ TlsMaps
                        /\ sessions \in [Report!Ssh!Flow -> ReportP!Ssh!Session]
  BY DEF ReportP!TypeOK, ReportP!Ssh!TypeOK, ReportP!Tls!TypeOK, TlsMaps,
     ReportP!Ssh!Flow, Report!Ssh!Flow, ReportP!Tls!Flow, Report!Tls!Flow
<1>4. SshOwn /\ TlsOwn => NothingInvented
  BY DEF SshOwn, TlsOwn, NothingInvented, Shows
<1>. QED
  BY <1>1, <1>2, <1>3, <1>4, OwnStep, LookedInvariance, PTL DEF PipelineSpec

-----------------------------------------------------------------------------
(* The second look at a payload finds what the first one recorded.         *)

RecordedSsh(flow, kex) ==
    Report!Ssh!After(sessions, host_caps, flow, kex) = [map |-> sessions, caps |-> host_caps]

RecordedClient(s, hello) ==
    hello.ciphers \subseteq tls_ciphers[s] /\ hello.groups \subseteq keyshare_groups[s]

RecordedServer(flow, hello) ==
    /\ tls_sessions[flow] = Report!Tls!KeyShare(hello)
    /\ Report!Tls!KeyShare(hello) \in keyshare_groups[flow[2]]
    /\ hello.cipher \in tls_ciphers[flow[2]]

\* Whatever a parser reads from d, pqcdump knows already.
Recorded(d) ==
    /\ \A m \in Parsed("kexinit", d) : RecordedSsh(Sent, m.body)
    /\ \A m \in Parsed("client", d) : RecordedClient(Sent[1], m.body)
    /\ \A hello \in ServerHellosIn(d) :
          Report!Tls!Panics(hello) \/ RecordedServer(Reverse(Sent), hello)

FirstRecorded == looked = 1 => Recorded(seen[1])

\* The maps by what their types say of their domains.
Maps ==
    /\ sessions \in [Report!Ssh!Flow -> Report!Ssh!Session]
    /\ tls_ciphers \in [Socket -> SUBSET Cipher]
    /\ TlsMaps

LEMMA MapsTyped == ReportP!TypeOK => Maps
BY DEF ReportP!TypeOK, ReportP!Ssh!TypeOK, ReportP!Tls!TypeOK, TlsMaps, Maps,
   ReportP!Ssh!Flow, Report!Ssh!Flow, ReportP!Tls!Flow, Report!Tls!Flow,
   ReportP!Ssh!Session, Report!Ssh!Session

\* A KEXINIT processed twice in a row leaves what it left the first time: its
\* session is found again in the same direction, its side is taken, and what
\* could be negotiated has been.
LEMMA TwiceIsOnce ==
    ASSUME NEW map \in [Report!Ssh!Flow -> Report!Ssh!Session], NEW caps,
           NEW flow \in Report!Ssh!Flow, NEW kex \in KexLists
    PROVE  LET once == Report!Ssh!After(map, caps, flow, kex) IN
           Report!Ssh!After(once.map, once.caps, flow, kex)
               = [map |-> once.map, caps |-> once.caps]
<1>. DEFINE forward == Report!Ssh!IsForward(map, flow)
            key == IF forward THEN flow ELSE Report!Ssh!Reverse(flow)
            recorded == Report!Ssh!Record(map[key], forward, kex)
            settled == Report!Ssh!Settle(recorded)
            once == Report!Ssh!After(map, caps, flow, kex)
<1>1. /\ once.map = [map EXCEPT ![key] = settled]
      /\ once.caps = Report!Ssh!AddCaps(caps, HostOf[flow[1]], map[key], recorded, kex)
  BY DEF Report!Ssh!After
<1>2. /\ key \in Report!Ssh!Flow
      /\ Report!Ssh!Reverse(flow) \in Report!Ssh!Flow
      /\ Report!Ssh!Reverse(flow) # flow
  BY DEF Report!Ssh!Flow, Report!Ssh!Reverse
<1>3. map[key] \in Report!Ssh!Session /\ kex # <<>>
  BY <1>2, PipelineAssumption DEF Report!ReportAssumption
<1>4. /\ recorded \in Report!Ssh!Session
      /\ IF forward THEN recorded.client # <<>> ELSE recorded.server # <<>>
  BY <1>3 DEF Report!Ssh!Record, Report!Ssh!Session
<1>. HIDE DEF recorded
<1>5. /\ settled.client = recorded.client
      /\ settled.server = recorded.server
      /\ Report!Ssh!Settle(settled) = settled
  BY <1>4 DEF Report!Ssh!Settle, Report!Ssh!Session
<1>6. Report!Ssh!Record(settled, forward, kex) = settled
  BY <1>4, <1>5 DEF Report!Ssh!Record
<1>7. settled # Report!Ssh!NoSession
  BY <1>4, <1>5 DEF Report!Ssh!NoSession
<1>. HIDE DEF settled, once
<1>8. /\ once.map[key] = settled
      /\ \A g \in Report!Ssh!Flow : g # key => once.map[g] = map[g]
  BY <1>1, <1>2
<1>. HIDE DEF key
<1>9. Report!Ssh!IsForward(once.map, flow) = forward
  <2>1. CASE forward
    <3>1. key = flow
      BY <2>1 DEF key
    <3>. QED  BY <1>7, <1>8, <2>1, <3>1 DEF Report!Ssh!IsForward
  <2>2. CASE ~forward
    <3>1. key = Report!Ssh!Reverse(flow)
      BY <2>2 DEF key
    <3>. QED  BY <1>2, <1>7, <1>8, <2>2, <3>1 DEF Report!Ssh!IsForward
  <2>. QED  BY <2>1, <2>2
<1>. HIDE DEF forward
<1>10. [once.map EXCEPT ![key] = settled] = once.map
  BY <1>1, <1>2
<1>11. key = IF Report!Ssh!IsForward(once.map, flow) THEN flow ELSE Report!Ssh!Reverse(flow)
  BY <1>9 DEF key
<1>12. Report!Ssh!After(once.map, once.caps, flow, kex)
       = [map |-> [once.map EXCEPT ![key] = settled],
          caps |-> Report!Ssh!AddCaps(once.caps, HostOf[flow[1]], settled, settled, kex)]
  BY <1>5, <1>6, <1>8, <1>9, <1>11 DEF Report!Ssh!After
<1>13. Report!Ssh!AddCaps(once.caps, HostOf[flow[1]], settled, settled, kex) = once.caps
  BY DEF Report!Ssh!AddCaps
<1>. QED
  BY <1>10, <1>12, <1>13 DEF once

\* At most one message is read from what is given, whole or cut.
LEMMA ReadsOne ==
    ASSUME NEW d \in Seq(Byte) \ {<<>>}, Run(d)
    PROVE  /\ \A k, l \in Kinds : \A m \in Parsed(k, d), n \in Parsed(l, d) : m = n /\ k = l
           /\ \A hello, other \in ServerHellosIn(d) : hello = other
           /\ \A m \in Parsed("kexinit", d) \union Parsed("client", d) :
                 ServerHellosIn(d) = {}
<1>1. ASSUME NEW m \in Message, NEW n \in Message, StartsWith(d, m), StartsWith(d, n)
      PROVE  m = n
  BY <1>1 DEF StartsWith
<1>2. ASSUME NEW k, NEW m \in Parsed(k, d)
      PROVE  m \in Message /\ m.kind = k /\ StartsWith(d, m) /\ m.size <= Len(d)
  <2>1. m \in Message /\ m.kind = k /\ StartsWith(d, m)
    BY ParsedIsSent
  <2>2. PICK n \in Message : StartsWith(d, n) /\ n.size <= Len(d)
    BY DEF Parsed
  <2>. QED  BY <1>1, <2>1, <2>2
<1>3. ASSUME NEW k, NEW l, NEW m \in Parsed(k, d), NEW n \in Parsed(l, d)
      PROVE  m = n /\ k = l
  BY <1>1, <1>2
<1>4. ASSUME NEW hello \in ServerHellosIn(d)
      PROVE  \E n \in Message : /\ n.kind = "server" /\ StartsWith(d, n)
                                /\ hello = IF n.size <= Len(d) THEN n.body ELSE n.cut
  <2>1. ASSUME NEW n \in Parsed("server", d), hello = n.body
        PROVE  \E msg \in Message : /\ msg.kind = "server" /\ StartsWith(d, msg)
                                    /\ hello = IF msg.size <= Len(d) THEN msg.body ELSE msg.cut
    BY <1>2, <2>1
  <2>2. ASSUME NEW n \in Message, n.kind = "server", StartsWith(d, n), Len(d) < n.size,
               hello = n.cut
        PROVE  ~ n.size <= Len(d)
    BY <2>2, PipelineAssumption, ReassemblerAssumption DEF IsMessage
  <2>. QED  BY <2>1, <2>2 DEF ServerHellosIn
<1>5. \A hello, other \in ServerHellosIn(d) : hello = other
  BY <1>1, <1>4
<1>6. ASSUME NEW m \in Parsed("kexinit", d) \union Parsed("client", d)
      PROVE  ServerHellosIn(d) = {}
  <2>1. m \in Message /\ m.kind # "server" /\ StartsWith(d, m)
    BY <1>2
  <2>. QED  BY <1>1, <1>4, <2>1
<1>. QED
  BY <1>3, <1>5, <1>6

\* The first examination of a packet records what it reads.
LEMMA FirstLook ==
    ASSUME IInv, Fed, LookedOk, Maps, looked = 0, Examine,
           \/ ExamineKexInit
           \/ ExamineClientHello
           \/ ExamineServerHello
           \/ ExaminePanics
           \/ ExamineOther
    PROVE  Recorded(seen[1])'
<1>. DEFINE d == seen[1]
<1>1. d = Given /\ d' = d /\ Sent' = Sent
  BY DEF Examine, tcp, Given, Sent
<1>2. /\ d \in Seq(Byte) \ {<<>>} /\ Run(d)
      /\ Sent \in Socket \X Socket /\ Sent[1] # Sent[2]
  BY <1>1, GivenFacts DEF Examine, LookedOk
<1>3. /\ \A k \in Kinds : Parsed(k, d)' = Parsed(k, d)
      /\ ServerHellosIn(d)' = ServerHellosIn(d)
  BY <1>1 DEF Parsed, ServerHellosIn, Holds, StartsWith, Unit
<1>4. /\ Sent \in Report!Ssh!Flow /\ Sent[1] \in Socket
      /\ Reverse(Sent) \in Report!Tls!Flow /\ Reverse(Sent)[2] = Sent[1]
  BY <1>2 DEF Reverse, Report!Ssh!Flow, Report!Tls!Flow
<1>5. CASE ExamineKexInit
  <2>1. PICK m \in Parsed("kexinit", d) : Report!Ssh!ProcessSsh(Sent, m.body)
    BY <1>1, <1>5 DEF ExamineKexInit
  <2>2. m.body \in KexLists
    BY <1>2, ParsedIsSent, PipelineAssumption DEF IsMessage
  <2>3. RecordedSsh(Sent, m.body)'
    BY <1>1, <1>4, <2>1, <2>2, TwiceIsOnce DEF RecordedSsh, Report!Ssh!ProcessSsh, Maps
  <2>. QED
    BY <1>1, <1>2, <1>3, <2>1, <2>3, ReadsOne DEF Recorded, Kinds
<1>6. CASE ExamineClientHello
  <2>1. PICK m \in Parsed("client", d) : Report!Tls!ProcessClientHello(Sent[1], m.body)
    BY <1>1, <1>6 DEF ExamineClientHello
  <2>2. RecordedClient(Sent[1], m.body)'
    BY <1>1, <1>4, <2>1
       DEF RecordedClient, Report!Tls!ProcessClientHello, Report!Tls!AddTo, Maps, TlsMaps
  <2>. QED
    BY <1>1, <1>2, <1>3, <2>1, <2>2, ReadsOne DEF Recorded, Kinds
<1>7. CASE ExamineServerHello
  <2>1. PICK hello \in ServerHellosIn(d) : Report!Tls!ProcessServerHello(Reverse(Sent), hello)
    BY <1>1, <1>7 DEF ExamineServerHello
  <2>2. RecordedServer(Reverse(Sent), hello)'
    BY <1>1, <1>4, <2>1
       DEF RecordedServer, Report!Tls!ProcessServerHello, Report!Tls!AddTo, Maps, TlsMaps
  <2>. QED
    BY <1>1, <1>2, <1>3, <2>1, <2>2, ReadsOne DEF Recorded, Reverse
<1>8. CASE ExaminePanics
  <2>1. PICK hello \in ServerHellosIn(d) : Report!Tls!Panics(hello)
    BY <1>1, <1>8 DEF ExaminePanics
  <2>. QED
    BY <1>1, <1>2, <1>3, <2>1, ReadsOne DEF Recorded, Report!Tls!Panics
<1>9. CASE ExamineOther
  BY <1>1, <1>3, <1>9 DEF ExamineOther, Recorded, Kinds
<1>. QED
  BY <1>5, <1>6, <1>7, <1>8, <1>9

\* Nothing else that pqcdump does comes between the two examinations.
LEMMA KeepsRecorded ==
    ASSUME IInv, Fed, LookedOk, Maps, FirstRecorded, [PipelineNext]_allVars
    PROVE  FirstRecorded'
<1>1. CASE ReadPacket
  BY <1>1 DEF ReadPacket, FirstRecorded
<1>2. CASE Examine /\ looked = 0
  <2>1. \/ ExamineKexInit \/ ExamineClientHello \/ ExamineServerHello
        \/ ExaminePanics \/ ExamineOther
    BY <1>2 DEF PipelineNext, allVars, Examine, ReadPacket, WriteReport
  <2>. QED  BY <1>2, <2>1, FirstLook DEF FirstRecorded
<1>3. CASE Examine /\ looked # 0
  BY <1>3 DEF Examine, LookedOk, FirstRecorded
<1>4. CASE WriteReport \/ UNCHANGED allVars
  <2>1. UNCHANGED <<tcp, ssh, tls, looked>>
    BY <1>4 DEF WriteReport, allVars, ssh, tls, Report!EndCapture, Report!ReportGroups,
       Report!GroupsPanic, Report!Finish, Report!ssh, Report!tls
  <2>. QED
    BY <2>1 DEF FirstRecorded, Recorded, RecordedSsh, RecordedClient, RecordedServer,
       tcp, ssh, tls, Sent, Parsed, ServerHellosIn, Holds, StartsWith, Unit
<1>. QED
  BY <1>1, <1>2, <1>3, <1>4 DEF PipelineNext, ExamineKexInit, ExamineClientHello,
     ExamineServerHello, ExaminePanics, ExamineOther

LEMMA SecondLook ==
    ASSUME IInv, Fed, LookedOk, Maps, FirstRecorded, [PipelineNext]_allVars,
           looked = 1, looked' = 2, seen[2] = seen[1]
    PROVE  UNCHANGED <<ssh, tls>>
<1>1. Given = seen[1] /\ Recorded(Given)
  BY DEF Given, FirstRecorded
<1>2. CASE ExamineKexInit
  <2>1. PICK m \in Parsed("kexinit", Given) : Report!Ssh!ProcessSsh(Sent, m.body)
    BY <1>2 DEF ExamineKexInit
  <2>2. RecordedSsh(Sent, m.body)
    BY <1>1, <2>1 DEF Recorded
  <2>. QED
    BY <1>2, <2>1, <2>2 DEF ExamineKexInit, RecordedSsh, Report!Ssh!ProcessSsh, ssh
<1>3. CASE ExamineClientHello
  <2>1. PICK m \in Parsed("client", Given) : Report!Tls!ProcessClientHello(Sent[1], m.body)
    BY <1>3 DEF ExamineClientHello
  <2>2. RecordedClient(Sent[1], m.body)
    BY <1>1, <2>1 DEF Recorded
  <2>3. UNCHANGED <<tls_ciphers, keyshare_groups, tls_sessions>>
    <3>1. tls_ciphers[Sent[1]] \union m.body.ciphers = tls_ciphers[Sent[1]]
          /\ keyshare_groups[Sent[1]] \union m.body.groups = keyshare_groups[Sent[1]]
      BY <2>2 DEF RecordedClient
    <3>. QED
      BY <2>1, <3>1 DEF Report!Tls!ProcessClientHello, Report!Tls!AddTo, Maps, TlsMaps
  <2>. QED  BY <1>3, <2>3 DEF ExamineClientHello, tls
<1>4. CASE ExamineServerHello
  <2>1. PICK hello \in ServerHellosIn(Given) :
            Report!Tls!ProcessServerHello(Reverse(Sent), hello)
    BY <1>4 DEF ExamineServerHello
  <2>2. RecordedServer(Reverse(Sent), hello)
    BY <1>1, <2>1 DEF Recorded, Report!Tls!ProcessServerHello
  <2>3. UNCHANGED <<tls_ciphers, keyshare_groups, tls_sessions>>
    <3>. DEFINE flow == Reverse(Sent)
    <3>1. /\ tls_ciphers[flow[2]] \union {hello.cipher} = tls_ciphers[flow[2]]
          /\ keyshare_groups[flow[2]] \union {Report!Tls!KeyShare(hello)}
                = keyshare_groups[flow[2]]
          /\ tls_sessions[flow] = Report!Tls!KeyShare(hello)
      BY <2>2 DEF RecordedServer
    <3>. HIDE DEF flow
    <3>2. /\ tls_ciphers' = [tls_ciphers EXCEPT ![flow[2]] = @ \union {hello.cipher}]
          /\ keyshare_groups' =
                [keyshare_groups EXCEPT ![flow[2]] = @ \union {Report!Tls!KeyShare(hello)}]
          /\ tls_sessions' = [tls_sessions EXCEPT ![flow] = Report!Tls!KeyShare(hello)]
      BY <2>1 DEF Report!Tls!ProcessServerHello, Report!Tls!AddTo, flow
    <3>. QED  BY <3>1, <3>2 DEF Maps, TlsMaps
  <2>. QED  BY <1>4, <2>3 DEF ExamineServerHello, tls
<1>5. CASE ReadPacket \/ WriteReport \/ UNCHANGED allVars
  BY <1>5 DEF ReadPacket, WriteReport, allVars
<1>. QED
  BY <1>2, <1>3, <1>4, <1>5 DEF PipelineNext, ExaminePanics, ExamineOther

\* Each payload goes to the parsers on its own and then as what push returned;
\* when the two are the same bytes the second time changes no map, for any
\* message, in any state of the sessions (main.rs:536-541).
THEOREM SecondLookSafe == PipelineSpec => SecondLookHarmless
<1>1. PipelineInit => FirstRecorded
  BY DEF PipelineInit, FirstRecorded
<1>2. PipelineSpec => []Maps
  BY ReportFacts, ReportAssumed, ReportP!TypeCorrect, MapsTyped, PTL
<1>3. PipelineSpec => [](IInv /\ Fed /\ LookedOk /\ Maps /\ FirstRecorded)
  BY <1>1, <1>2, KeepsRecorded, LookedInvariance, PTL DEF PipelineSpec
<1>4. IInv /\ Fed /\ LookedOk /\ Maps /\ FirstRecorded /\ [PipelineNext]_allVars
        => [looked = 1 /\ looked' = 2 /\ seen[2] = seen[1] => UNCHANGED <<ssh, tls>>]_allVars
  BY SecondLook
<1>. QED
  BY <1>3, <1>4, PTL DEF PipelineSpec, SecondLookHarmless
=============================================================================
