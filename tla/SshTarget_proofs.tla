------------------------- MODULE SshTarget_proofs -------------------------
(***************************************************************************)
(* Proofs about SshTarget, for any algorithms, any server scripts and any  *)
(* size of the read buffer: what a scan claims comes from a whole KEXINIT, *)
(* a success is of an SSH server, a server that sends one message at a     *)
(* time is reported as it is, and the scan implements TargetScan.          *)
(***************************************************************************)
EXTENDS SshTarget, SequenceTheorems, TLAPS

\* The server identified itself, and the scan read it.
Identified ==
    /\ sent > 0 /\ script[1] \in {"id", "id_head"}
    /\ id_line # <<>> /\ id_line[1] = script[1]

\* Whole KEXINIT sent.
KexInitSent == \E n \in 1..sent : script[n] \in {"kex", "kex_tail"}

\* Everything unread was sent; before the first read the socket holds all that
\* was sent, unless the connection is gone.
Delivery ==
    /\ \A i \in DOMAIN socket : \E n \in 1..sent : socket[i] = script[n]
    /\ phase = "connecting" => sent = 0 /\ socket = <<>> /\ ~closed
    /\ phase = "id" /\ socket # <<>> => socket[1] = script[1]
    /\ phase = "id" /\ ~closed /\ socket = <<>> => sent = 0

Progress ==
    /\ result # None <=> phase = "done"
    /\ phase \in {"echo", "kexinit"} => Identified
    /\ result # None /\ ~result.error => Identified
    /\ result # None /\ Claimed(result) # {} => KexInitSent

IInv == TypeOK /\ Delivery /\ Progress

-----------------------------------------------------------------------------
\* What a read returns and leaves is made of what was there.
LEMMA Read ==
    ASSUME TypeOK, socket # <<>>
    PROVE  /\ ReadData \in Seq(Piece) /\ Unread \in Seq(Piece)
           /\ ReadData # <<>> /\ ReadData[1] = socket[1]
           /\ \A i \in DOMAIN ReadData : \E j \in DOMAIN socket : ReadData[i] = socket[j]
           /\ \A i \in DOMAIN Unread : \E j \in DOMAIN socket : Unread[i] = socket[j]
<1>. DEFINE k == IF Len(socket) < ReadSize THEN Len(socket) ELSE ReadSize
<1>1. socket \in Seq(Piece) /\ Len(socket) \in Nat /\ DOMAIN socket = 1..Len(socket)
  BY DEF TypeOK
<1>2. Len(socket) > 0
  BY <1>1
<1>3. k \in 1..Len(socket)
  BY <1>1, <1>2, SshAssumption
<1>4. ReadData = SubSeq(socket, 1, k)
  BY DEF ReadData
<1>. HIDE DEF k
<1>5. /\ ReadData \in Seq(Piece) /\ Len(ReadData) = k
      /\ \A i \in 1..k : ReadData[i] = socket[i]
  BY <1>1, <1>3, <1>4, SubSeqProperties
<1>6. Unread = SubSeq(socket, k + 1, Len(socket))
  BY <1>5 DEF Unread
<1>7. /\ Unread \in Seq(Piece) /\ Len(Unread) = Len(socket) - k
      /\ \A i \in 1..(Len(socket) - k) : Unread[i] = socket[k + i]
  <2> DEFINE n == Len(socket)
  <2>1. k + 1 \in 1..(n + 1) /\ n \in ((k + 1) - 1)..n
    BY <1>1, <1>3
  <2>2. k \in Int /\ n \in Int
    BY <1>1, <1>3
  <2>3. /\ SubSeq(socket, k + 1, n) \in Seq(Piece)
        /\ Len(SubSeq(socket, k + 1, n)) = IF k + 1 <= n THEN n - (k + 1) + 1 ELSE 0
        /\ \A i \in 1..(n - (k + 1) + 1) : SubSeq(socket, k + 1, n)[i] = socket[(k + 1) + i - 1]
    BY <1>1, <2>1, SubSeqProperties
  <2>4. n - (k + 1) + 1 = n - k /\ (k + 1 <= n \/ n - k = 0)
    BY <2>2, <1>3
  <2>5. \A i \in 1..(n - k) : (k + 1) + i - 1 = k + i
    BY <2>2
  <2>. QED  BY <1>6, <2>3, <2>4, <2>5
<1>8. DOMAIN ReadData = 1..k /\ DOMAIN Unread = 1..(Len(socket) - k)
  BY <1>5, <1>7
<1>9. \A i \in DOMAIN ReadData : \E j \in DOMAIN socket : ReadData[i] = socket[j]
  BY <1>1, <1>3, <1>5, <1>8
<1>10. \A i \in DOMAIN Unread : \E j \in DOMAIN socket : Unread[i] = socket[j]
  <2>1. \A i \in DOMAIN Unread : k + i \in DOMAIN socket /\ Unread[i] = socket[k + i]
    BY <1>1, <1>3, <1>7, <1>8
  <2>. QED  BY <2>1
<1>11. ReadData # <<>> /\ ReadData[1] = socket[1]
  BY <1>3, <1>5
<1>. QED  BY <1>5, <1>7, <1>9, <1>10, <1>11

\* The results the scan may give are results.
LEMMA ResultTypes ==
    /\ \A b \in BOOLEAN :
        Failed(b) \in Result /\ Failed(b).error = TRUE /\ Claimed(Failed(b)) = {}
    /\ \A kex :
        /\ Classified(kex) \in Result /\ Classified(kex).error = FALSE
        /\ Claimed(Classified(kex)) = kex \intersect Alg
        /\ Classified(kex).pqc_supported <=> kex \intersect Pqc # {}
<1>1. ASSUME NEW b \in BOOLEAN
      PROVE  Failed(b) \in Result /\ Failed(b).error = TRUE /\ Claimed(Failed(b)) = {}
  BY DEF Failed, Result, Claimed
<1>2. ASSUME NEW kex
      PROVE  /\ Classified(kex) \in Result /\ Classified(kex).error = FALSE
             /\ Claimed(Classified(kex)) = kex \intersect Alg
             /\ Classified(kex).pqc_supported <=> kex \intersect Pqc # {}
  <2>1. (kex \intersect Pqc # {}) \in BOOLEAN
    OBVIOUS
  <2>2. Classified(kex) \in Result
    BY <2>1, SshAssumption DEF Classified, Result
  <2>3. Claimed(Classified(kex)) = kex \intersect Alg
    BY SshAssumption DEF Classified, Claimed
  <2>. QED  BY <2>2, <2>3 DEF Classified
<1>. QED  BY <1>1, <1>2

LEMMA Initially == Init => IInv
<1>. SUFFICES ASSUME Init PROVE IInv
  OBVIOUS
<1>1. TypeOK
  <2>1. <<>> \in Seq(Piece)
    BY EmptySeq
  <2>2. script \in Seq(Piece) /\ 0 \in 0..Len(script)
    BY SshAssumption DEF Init
  <2>. QED  BY <2>1, <2>2 DEF Init, TypeOK
<1>2. Delivery
  BY DEF Init, Delivery
<1>3. Progress
  BY DEF Init, Progress
<1>. QED  BY <1>1, <1>2, <1>3 DEF IInv

-----------------------------------------------------------------------------
LEMMA SendStep ==
    ASSUME IInv, ServerSends
    PROVE  IInv'
<1>1. TypeOK /\ Delivery /\ Progress
  BY DEF IInv
<1>2. /\ offer' = offer /\ script' = script /\ eager' = eager
      /\ closed' = closed /\ phase' = phase /\ id_line' = id_line
      /\ heard' = heard /\ smooth' = smooth /\ result' = result
      /\ ~closed /\ phase # "connecting"
      /\ sent' = sent + 1 /\ socket' = Append(socket, script[sent + 1])
      /\ sent < Len(script)
  BY DEF ServerSends, server
<1>3. /\ script \in Seq(Piece) /\ Len(script) \in Nat /\ sent \in Nat
      /\ sent + 1 \in 1..Len(script)
  BY <1>1, <1>2, SshAssumption DEF TypeOK
<1>4. script[sent + 1] \in Piece /\ socket \in Seq(Piece)
  BY <1>1, <1>3 DEF TypeOK
<1>5. /\ socket' \in Seq(Piece) /\ socket' # <<>>
      /\ DOMAIN socket = 1..Len(socket) /\ DOMAIN socket' = 1..(Len(socket) + 1)
      /\ \A i \in 1..Len(socket) : socket'[i] = socket[i]
      /\ socket'[Len(socket) + 1] = script[sent + 1]
      /\ Len(socket) \in Nat
  BY <1>2, <1>4, AppendProperties
<1>6. TypeOK'
  BY <1>1, <1>2, <1>3, <1>5 DEF TypeOK
<1>7. Delivery'
  <2>1. ASSUME NEW i \in DOMAIN socket'
        PROVE  \E n \in 1..sent' : socket'[i] = script'[n]
    <3>1. CASE i \in DOMAIN socket
      <4>1. PICK n \in 1..sent : socket[i] = script[n]
        BY <1>1, <3>1 DEF Delivery
      <4>. QED  BY <1>2, <1>3, <1>5, <3>1, <4>1
    <3>2. CASE i = Len(socket) + 1
      BY <1>2, <1>3, <1>5, <3>2
    <3>. QED  BY <1>5, <2>1, <3>1, <3>2
  <2>2. phase' = "id" => socket'[1] = script'[1]
    <3>1. CASE socket = <<>>
      BY <1>1, <1>2, <1>5, <3>1 DEF Delivery
    <3>2. CASE socket # <<>>
      <4>1. 1 \in 1..Len(socket)
        BY <1>4, <3>2
      <4>. QED  BY <1>1, <1>2, <1>5, <3>2, <4>1 DEF Delivery
    <3>. QED  BY <3>1, <3>2
  <2>. QED  BY <1>2, <1>5, <2>1, <2>2 DEF Delivery
<1>8. Progress'
  <2>1. Identified => Identified'
    BY <1>2, <1>3 DEF Identified
  <2>2. KexInitSent => KexInitSent'
    BY <1>2, <1>3 DEF KexInitSent
  <2>. QED  BY <1>1, <1>2, <2>1, <2>2 DEF Progress
<1>. QED  BY <1>6, <1>7, <1>8 DEF IInv

LEMMA CloseStep ==
    ASSUME IInv, ServerCloses
    PROVE  IInv'
<1>1. TypeOK /\ Delivery /\ Progress
  BY DEF IInv
<1>2. /\ offer' = offer /\ script' = script /\ eager' = eager
      /\ closed' = TRUE /\ phase' = phase /\ id_line' = id_line
      /\ heard' = heard /\ smooth' = FALSE /\ result' = result
      /\ phase # "connecting" /\ sent' = sent
      /\ socket' = socket \/ socket' = <<>>
  BY DEF ServerCloses, server
<1>3. TypeOK'
  <2>1. socket' \in Seq(Piece)
    BY <1>1, <1>2, EmptySeq DEF TypeOK
  <2>. QED  BY <1>1, <1>2, <2>1 DEF TypeOK
<1>4. Delivery'
  BY <1>1, <1>2 DEF Delivery
<1>5. Progress'
  BY <1>1, <1>2 DEF Progress, Identified, KexInitSent
<1>. QED  BY <1>3, <1>4, <1>5 DEF IInv

\* The actions that read nothing.
LEMMA QuietStep ==
    ASSUME IInv, Connect \/ ConnectFails \/ ConnectPanics \/ IdFails \/ EchoId \/ KexInitFails
    PROVE  IInv'
<1>1. TypeOK /\ Delivery /\ Progress
  BY DEF IInv
<1>2. /\ offer' = offer /\ script' = script /\ eager' = eager
      /\ closed' = closed /\ id_line' = id_line
      /\ sent' = sent /\ socket' = socket
  BY DEF Connect, ConnectFails, ConnectPanics, IdFails, EchoId, KexInitFails, server, wire
<1>3. /\ Identified' <=> Identified
      /\ KexInitSent' <=> KexInitSent
  BY <1>2 DEF Identified, KexInitSent
<1>4. CASE Connect \/ ConnectPanics
  <2>1. /\ phase = "connecting" /\ phase' \in {"id", "panicked"}
        /\ heard' = heard /\ smooth' \in {smooth, FALSE} /\ result' = result
    BY <1>4 DEF Connect, ConnectPanics
  <2>2. TypeOK'
    BY <1>1, <1>2, <2>1 DEF TypeOK
  <2>3. Delivery'
    BY <1>1, <1>2, <2>1 DEF Delivery
  <2>4. Progress'
    BY <1>1, <1>3, <2>1 DEF Progress
  <2>. QED  BY <2>2, <2>3, <2>4 DEF IInv
<1>5. CASE ConnectFails \/ IdFails \/ KexInitFails
  <2>1. /\ phase' = "done" /\ heard' = heard /\ smooth' = FALSE
        /\ \/ \E b \in BOOLEAN : result' = Failed(b)
           \/ phase = "kexinit" /\ result' = Classified({})
    BY <1>5 DEF ConnectFails, IdFails, KexInitFails
  <2>2. /\ result' \in Result /\ Claimed(result') = {}
        /\ result'.error \/ phase = "kexinit"
    BY <2>1, ResultTypes
  <2>3. TypeOK'
    BY <1>1, <1>2, <2>1, <2>2 DEF TypeOK
  <2>4. Delivery'
    BY <1>1, <1>2, <2>1 DEF Delivery
  <2>5. Progress'
    BY <1>1, <1>3, <2>1, <2>2, NoneAssumption DEF Progress
  <2>. QED  BY <2>3, <2>4, <2>5 DEF IInv
<1>6. CASE EchoId
  <2>1. /\ phase = "echo" /\ phase' = "kexinit" /\ result' = result
        /\ smooth' \in BOOLEAN
    BY <1>6 DEF EchoId
  <2>2. heard' \in Seq(Piece)
    <3>1. PICK n \in 0..Len(id_line) : heard' = SubSeq(id_line, 1, n)
      BY <1>6 DEF EchoId
    <3>2. id_line \in Seq(Piece) /\ n \in Int
      BY <1>1, <3>1 DEF TypeOK
    <3>3. \A i \in 1..n : id_line[i] \in Piece
      BY <3>1, <3>2
    <3>. QED  BY <3>1, <3>2, <3>3, SubSeqProperties
  <2>3. TypeOK'
    BY <1>1, <1>2, <2>1, <2>2 DEF TypeOK
  <2>4. Delivery'
    BY <1>1, <1>2, <2>1 DEF Delivery
  <2>5. Progress'
    BY <1>1, <1>3, <2>1 DEF Progress
  <2>. QED  BY <2>3, <2>4, <2>5 DEF IInv
<1>. QED  BY <1>4, <1>5, <1>6

\* The actions that read the socket.
LEMMA ReadStep ==
    ASSUME IInv, ReadId \/ ReadNotSsh \/ ReadKexInit \/ Panic
    PROVE  IInv'
<1>1. TypeOK /\ Delivery /\ Progress
  BY DEF IInv
<1>2. /\ offer' = offer /\ script' = script /\ eager' = eager
      /\ closed' = closed /\ sent' = sent /\ heard' = heard
      /\ smooth' = smooth /\ socket # <<>> /\ socket' = Unread
      /\ phase \in {"id", "kexinit"}
      /\ phase' \in {"echo", "done", "panicked"}
  BY DEF ReadId, ReadNotSsh, ReadKexInit, Panic, server
<1>3. /\ ReadData \in Seq(Piece) /\ Unread \in Seq(Piece)
      /\ ReadData # <<>> /\ ReadData[1] = socket[1]
      /\ \A i \in DOMAIN ReadData : \E j \in DOMAIN socket : ReadData[i] = socket[j]
      /\ \A i \in DOMAIN Unread : \E j \in DOMAIN socket : Unread[i] = socket[j]
  BY <1>1, <1>2, Read
<1>4. Delivery'
  <2>1. ASSUME NEW i \in DOMAIN Unread
        PROVE  \E n \in 1..sent : Unread[i] = script[n]
    BY <1>1, <1>3, <2>1 DEF Delivery
  <2>. QED  BY <1>2, <2>1 DEF Delivery
<1>5. KexInitSent' <=> KexInitSent
  BY <1>2 DEF KexInitSent
<1>6. id_line' \in Seq(Piece)
  BY <1>1, <1>3 DEF TypeOK, ReadId, ReadNotSsh, ReadKexInit, Panic
<1>7. result' \in Result \union {None}
  <2>1. \A kex : Classified(kex) \in Result
    BY ResultTypes
  <2>2. Failed(TRUE) \in Result
    BY ResultTypes
  <2>. QED  BY <1>1, <2>1, <2>2 DEF TypeOK, ReadId, ReadNotSsh, ReadKexInit, Panic
<1>8. TypeOK'
  BY <1>1, <1>2, <1>3, <1>6, <1>7 DEF TypeOK
<1>9. Progress'
  <2>1. CASE ReadId
    <3>1. /\ phase = "id" /\ phase' = "echo" /\ result' = result
          /\ id_line' = ReadData /\ Head(socket) \in {"id", "id_head"}
      BY <2>1 DEF ReadId
    <3>2. socket \in Seq(Piece) /\ Head(socket) = socket[1] /\ 1 \in DOMAIN socket
      BY <1>1, <1>2 DEF TypeOK
    <3>3. socket[1] = script[1]
      BY <1>1, <1>2, <3>1 DEF Delivery
    <3>4. sent > 0
      <4>1. PICK n \in 1..sent : socket[1] = script[n]
        BY <1>1, <3>2 DEF Delivery
      <4>. QED  BY <1>1, <4>1 DEF TypeOK
    <3>5. Identified'
      BY <1>2, <1>3, <3>1, <3>2, <3>3, <3>4 DEF Identified
    <3>. QED  BY <1>1, <1>5, <3>1, <3>5 DEF Progress
  <2>2. CASE ReadNotSsh
    <3>1. phase' = "done" /\ result' = Failed(TRUE)
      BY <2>2 DEF ReadNotSsh
    <3>2. result'.error /\ Claimed(result') = {} /\ result' # None
      BY <3>1, ResultTypes, NoneAssumption
    <3>. QED  BY <3>1, <3>2 DEF Progress
  <2>3. CASE ReadKexInit
    <3>1. /\ phase = "kexinit" /\ phase' = "done" /\ id_line' = id_line
          /\ result' = Classified(IF IsKexInit(ReadData) THEN offer ELSE {})
      BY <2>3 DEF ReadKexInit
    <3>2. Identified'
      <4>1. Identified
        BY <1>1, <3>1 DEF Progress
      <4>. QED  BY <1>2, <3>1, <4>1 DEF Identified
    <3>3. result' # None
      BY <3>1, ResultTypes, NoneAssumption
    <3>4. ASSUME Claimed(result') # {}
          PROVE  KexInitSent
      <4>1. IsKexInit(ReadData)
        BY <3>1, <3>4, ResultTypes
      <4>2. PICK i \in DOMAIN ReadData : ReadData[i] \in {"kex", "kex_tail"}
        <5>1. CASE ReadData = <<"kex">>
          BY <5>1
        <5>2. CASE ReadData = <<"kex_head", "kex_tail">>
          BY <5>2
        <5>. QED  BY <4>1, <5>1, <5>2 DEF IsKexInit
      <4>3. PICK j \in DOMAIN socket : ReadData[i] = socket[j]
        BY <1>3
      <4>4. PICK n \in 1..sent : socket[j] = script[n]
        BY <1>1 DEF Delivery
      <4>. QED  BY <4>2, <4>3, <4>4 DEF KexInitSent
    <3>. QED  BY <1>5, <3>1, <3>2, <3>3, <3>4 DEF Progress
  <2>4. CASE Panic
    <3>1. /\ phase = "kexinit" /\ phase' = "panicked" /\ id_line' = id_line
          /\ result' = result
      BY <2>4 DEF Panic
    <3>2. Identified'
      <4>1. Identified
        BY <1>1, <3>1 DEF Progress
      <4>. QED  BY <1>2, <3>1, <4>1 DEF Identified
    <3>. QED  BY <1>1, <1>5, <3>1, <3>2 DEF Progress
  <2>. QED  BY <2>1, <2>2, <2>3, <2>4
<1>. QED  BY <1>4, <1>8, <1>9 DEF IInv

LEMMA Stutter ==
    ASSUME IInv, UNCHANGED vars
    PROVE  IInv'
<1>1. /\ offer' = offer /\ script' = script /\ eager' = eager
      /\ closed' = closed /\ sent' = sent /\ socket' = socket
      /\ phase' = phase /\ id_line' = id_line
      /\ heard' = heard /\ smooth' = smooth /\ result' = result
  BY DEF vars, server, wire
<1>2. TypeOK'
  BY <1>1 DEF IInv, TypeOK
<1>3. Delivery'
  BY <1>1 DEF IInv, Delivery
<1>4. Progress'
  BY <1>1 DEF IInv, Progress, Identified, KexInitSent
<1>. QED  BY <1>2, <1>3, <1>4 DEF IInv

LEMMA Inductive == IInv /\ [Next]_vars => IInv'
<1>. SUFFICES ASSUME IInv, [Next]_vars PROVE IInv'
  OBVIOUS
<1>1. CASE ServerSends
  BY <1>1, SendStep
<1>2. CASE ServerCloses
  BY <1>2, CloseStep
<1>3. CASE Connect \/ ConnectFails \/ ConnectPanics \/ IdFails \/ EchoId \/ KexInitFails
  BY <1>3, QuietStep
<1>4. CASE ReadId \/ ReadNotSsh \/ ReadKexInit \/ Panic
  BY <1>4, ReadStep
<1>5. CASE UNCHANGED vars
  BY <1>5, Stutter
<1>. QED  BY <1>1, <1>2, <1>3, <1>4, <1>5 DEF Next, Scan

\* The invariant of a scan, whatever the server does (ssh.rs:247-338).
THEOREM Invariance == Spec => []IInv
BY Initially, Inductive, PTL DEF Spec

\* Pieces, phases and results are of their kinds; what is read and what is
\* left of the socket are pieces, whatever the size of a read (ssh.rs:134-200).
THEOREM TypeCorrect == Spec => []TypeOK
BY Invariance, PTL DEF IInv

\* No algorithm is claimed before the server has sent all of its KEXINIT
\* (ssh.rs:85-119).
THEOREM ClaimsAreWhole == Spec => []ClaimsNeedWholeKexInit
<1>1. IInv => ClaimsNeedWholeKexInit
  BY DEF IInv, Progress, KexInitSent, ClaimsNeedWholeKexInit
<1>. QED  BY <1>1, Invariance, PTL

\* A result without an error is of a server that identified itself as SSH
\* (ssh.rs:199-223).
THEOREM SuccessIsSsh == Spec => []SuccessMeansSsh
<1>1. IInv => SuccessMeansSsh
  BY DEF IInv, Progress, Identified, SuccessMeansSsh
<1>. QED  BY <1>1, Invariance, PTL

-----------------------------------------------------------------------------
(* A server that waits for the client, with both messages whole and in time. *)

\* Its KEXINIT is sent after the echo, so each read finds one message and
\* nothing else; whatever could spoil that ends what is smooth.
InStep ==
    /\ ~closed
    /\ \/ phase = "connecting" /\ sent = 0 /\ socket = <<>> /\ heard = <<>>
       \/ /\ phase = "id" /\ heard = <<>>
          /\ \/ sent = 0 /\ socket = <<>>
             \/ sent = 1 /\ socket = <<"id">>
       \/ /\ phase = "echo" /\ heard = <<>> /\ id_line = <<"id">>
          /\ sent = 1 /\ socket = <<>>
       \/ /\ phase = "kexinit"
          /\ \/ sent = 1 /\ socket = <<>>
             \/ sent = 2 /\ socket = <<"kex">>
       \/ phase = "done" /\ result = Classified(offer)

Politely == script = <<"id", "kex">> /\ ~eager /\ smooth => InStep

\* A read of a single piece returns it and leaves nothing.
LEMMA ReadOne ==
    ASSUME NEW x \in Piece, socket = <<x>>
    PROVE  ReadData = <<x>> /\ Unread = <<>>
<1>1. Len(socket) = 1 /\ socket[1] = x
  OBVIOUS
<1>2. ReadData = SubSeq(socket, 1, 1)
  BY <1>1, SshAssumption DEF ReadData
<1>3. ReadData \in Seq(Piece) /\ Len(ReadData) = 1 /\ ReadData[1] = x
  BY <1>1, <1>2, SubSeqProperties
<1>4. ReadData = <<x>>
  BY <1>3
<1>5. Unread = SubSeq(socket, 2, 1)
  BY <1>1, <1>3 DEF Unread
<1>6. Unread = <<>>
  BY <1>5, SubSeqEmpty
<1>. QED  BY <1>4, <1>6

LEMMA PoliteStep ==
    ASSUME IInv, Politely, [Next]_vars
    PROVE  Politely'
<1>. SUFFICES ASSUME script' = <<"id", "kex">>, ~eager', smooth'
              PROVE  InStep'
  BY DEF Politely
<1>. USE DEF Politely, InStep
<1>1. UNCHANGED server
  BY DEF Next, Scan, ServerSends, ServerCloses, Connect, ConnectFails, ConnectPanics, ReadId,
         ReadNotSsh, IdFails, EchoId, ReadKexInit, Panic, KexInitFails, vars
<1>2. script = <<"id", "kex">> /\ ~eager /\ offer' = offer
  BY <1>1 DEF server
<1>3. CASE ServerSends
  <2>1. /\ ~closed /\ closed' = closed /\ smooth /\ phase' = phase
        /\ heard' = heard /\ id_line' = id_line /\ result' = result
        /\ phase # "connecting" /\ sent < 2
        /\ sent' = sent + 1 /\ socket' = Append(socket, script[sent + 1])
    BY <1>2, <1>3 DEF ServerSends
  <2>2. heard = <<>> => ~ClientIdentified
    BY DEF ClientIdentified
  <2>3. script[2] = "kex" /\ script[1] = "id"
    BY <1>2
  <2>4. sent = 0 /\ socket = <<>> => socket' = <<"id">>
    BY <2>1, <2>3
  <2>5. sent = 1 /\ socket = <<>> => socket' = <<"kex">>
    BY <2>1, <2>3
  <2>6. sent = 1 => heard # <<>>
    BY <1>2, <1>3, <2>2, <2>3 DEF ServerSends
  <2>7. CASE phase = "id"
    BY <1>2, <2>1, <2>4, <2>6, <2>7
  <2>8. CASE phase = "echo"
    BY <1>2, <2>1, <2>6, <2>8
  <2>9. CASE phase = "kexinit"
    BY <1>2, <2>1, <2>5, <2>9
  <2>10. CASE phase = "done"
    BY <1>2, <2>1, <2>10
  <2>. QED  BY <1>2, <2>1, <2>7, <2>8, <2>9, <2>10
<1>4. CASE ServerCloses \/ ConnectFails \/ ConnectPanics \/ IdFails \/ KexInitFails
  BY <1>4 DEF ServerCloses, ConnectFails, ConnectPanics, IdFails, KexInitFails
<1>5. CASE Connect
  BY <1>2, <1>5 DEF Connect, wire
<1>6. CASE ReadId \/ ReadNotSsh
  <2>1. phase = "id" /\ smooth /\ socket # <<>>
    BY <1>6 DEF ReadId, ReadNotSsh
  <2>2. heard = <<>> /\ sent = 1 /\ socket = <<"id">> /\ ~closed
    BY <1>2, <2>1
  <2>3. ReadData = <<"id">> /\ Unread = <<>> /\ Head(socket) = "id"
    BY <2>2, ReadOne DEF Piece
  <2>. QED  BY <1>6, <2>2, <2>3 DEF ReadId, ReadNotSsh
<1>7. CASE EchoId
  <2>1. PICK n \in 0..Len(id_line) :
            heard' = SubSeq(id_line, 1, n) /\ smooth' = (smooth /\ n = Len(id_line))
    BY <1>7 DEF EchoId
  <2>2. phase = "echo" /\ smooth /\ phase' = "kexinit" /\ UNCHANGED wire
    BY <1>7, <2>1 DEF EchoId
  <2>. QED  BY <1>2, <2>2 DEF wire
<1>8. CASE ReadKexInit \/ Panic
  <2>1. phase = "kexinit" /\ smooth /\ socket # <<>>
    BY <1>8 DEF ReadKexInit, Panic
  <2>2. socket = <<"kex">> /\ ~closed
    BY <1>2, <2>1
  <2>3. IsKexInit(ReadData) /\ Head(socket) = "kex"
    BY <2>2, ReadOne DEF Piece, IsKexInit
  <2>. QED  BY <1>2, <1>8, <2>2, <2>3 DEF ReadKexInit, Panic
<1>9. CASE UNCHANGED vars
  BY <1>2, <1>9 DEF vars, wire
<1>. QED  BY <1>3, <1>4, <1>5, <1>6, <1>7, <1>8, <1>9 DEF Next, Scan

\* Against such a server the scan reports exactly what the server offers
\* (ssh.rs:199-319), for any set of algorithms and any size of a read.
THEOREM PoliteIsReported == Spec => []PoliteServerReported
<1>1. Init => Politely
  BY DEF Init, Politely, InStep
<1>2. Politely => PoliteServerReported
  BY DEF Politely, InStep, PoliteServerReported
<1>3. IInv /\ Politely /\ [Next]_vars => Politely'
  BY PoliteStep
<1>. QED  BY <1>1, <1>2, <1>3, Invariance, PTL DEF Spec

-----------------------------------------------------------------------------
\* A step that gives a result answers, any other leaves the view as it is.
LEMMA Simulates ==
    ASSUME IInv, IInv', [Next]_vars
    PROVE  [Target!Answer]_(Target!vars)
<1>1. TypeOK /\ Progress /\ TypeOK' /\ Progress'
  BY DEF IInv
<1>2. offer' = offer
  BY DEF Next, Scan, ServerSends, ServerCloses, Connect, ConnectFails, ConnectPanics,
         ReadId, ReadNotSsh, IdFails, EchoId, ReadKexInit, Panic, KexInitFails, vars, server
<1>3. CASE result' = result
  BY <1>2, <1>3 DEF Target!vars, Claimed
<1>4. CASE result' # result
  <2>1. /\ phase # "done"
        /\ \/ \E b \in BOOLEAN : result' = Failed(b)
           \/ \E kex \in {offer, {}} : result' = Classified(kex)
    BY <1>4 DEF Next, Scan, ServerSends, ServerCloses, Connect, ConnectFails, ConnectPanics, ReadId,
                ReadNotSsh, IdFails, EchoId, ReadKexInit, Panic, KexInitFails, vars
  <2>2. result = None
    BY <1>1, <2>1 DEF Progress
  <2>3. result' \in Result
    BY <2>1, ResultTypes
  <2>4. result' # None
    BY <2>3, NoneAssumption
  <2>5. /\ Claimed(result') \subseteq offer \intersect Alg
        /\ result'.pqc_supported <=> Claimed(result') \intersect Pqc # {}
        /\ result'.error => Claimed(result') = {}
    <3>1. ASSUME NEW b \in BOOLEAN, result' = Failed(b)
          PROVE  /\ Claimed(result') \subseteq offer \intersect Alg
                 /\ result'.pqc_supported <=> Claimed(result') \intersect Pqc # {}
                 /\ result'.error => Claimed(result') = {}
      BY <3>1, ResultTypes DEF Failed
    <3>2. ASSUME NEW kex \in {offer, {}}, result' = Classified(kex)
          PROVE  /\ Claimed(result') \subseteq offer \intersect Alg
                 /\ result'.pqc_supported <=> Claimed(result') \intersect Pqc # {}
                 /\ result'.error => Claimed(result') = {}
      <4>1. (kex \intersect Alg) \intersect Pqc = kex \intersect Pqc
        BY SshAssumption
      <4>. QED  BY <3>2, <4>1, ResultTypes
    <3>. QED  BY <2>1, <3>1, <3>2
  <2>. DEFINE view == [error |-> result'.error, pqc_supported |-> result'.pqc_supported,
                       algos |-> Claimed(result')]
  <2>6. view \in Target!Result
    <3>1. result'.error \in BOOLEAN /\ result'.pqc_supported \in BOOLEAN
      BY <2>3 DEF Result
    <3>2. Claimed(result') \subseteq Alg
      BY <2>5
    <3>. QED  BY <3>1, <3>2 DEF Target!Result
  <2>7. Target!Honest(view)
    BY <2>5 DEF Target!Honest
  <2>8. Target!Answer
    BY <1>2, <2>2, <2>4, <2>6, <2>7 DEF Target!Answer, Claimed
  <2>. QED  BY <2>8
<1>. QED  BY <1>3, <1>4

\* ssh_scan_target keeps the promise of TargetScan: one result, with claims
\* that hold (ssh.rs:247-338).
THEOREM Implements == Spec => ImplementsTargetScan
<1>1. Init => Target!Init
  BY DEF Init, Target!Init
<1>2. IInv /\ IInv' /\ [Next]_vars => [Target!Answer]_(Target!vars)
  BY Simulates
<1>. QED  BY <1>1, <1>2, Invariance, PTL DEF Spec, Target!Spec, ImplementsTargetScan
=============================================================================
