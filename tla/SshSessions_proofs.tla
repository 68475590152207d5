------------------------ MODULE SshSessions_proofs ------------------------
(***************************************************************************)
(* Proofs about SshSessions, for any sockets, hosts and KEXINIT lists. The *)
(* four invariants are proved together: which session a message goes to    *)
(* rests on OneSession, and the capabilities on the two sides of it.       *)
(***************************************************************************)
EXTENDS SshSessions, WellFoundedInduction, TLAPS

\* The reverse of a flow is another flow, whose reverse is the first.
LEMMA ReverseFlow ==
    ASSUME NEW flow \in Flow
    PROVE  /\ Reverse(flow) \in Flow
           /\ Reverse(flow) # flow
           /\ Reverse(Reverse(flow)) = flow
BY DEF Flow, Reverse

\* negotiate returns an algorithm that both lists name, or None.
LEMMA NegotiateType ==
    ASSUME NEW client \in KexLists, NEW other \in KexLists
    PROVE  /\ Negotiate(client, other) \in Alg \union {None}
           /\ Negotiate(client, other) # None
                  => Negotiate(client, other) \in Names(client) \intersect Names(other)
<1> DEFINE shared == {i \in DOMAIN client : client[i] \in Names(other)}
<1>1. client \in Seq(Alg)
  BY SessionsAssumption
<1>2. CASE shared = {}
  BY <1>2 DEF Negotiate
<1>3. CASE shared # {}
  <2> DEFINE first == CHOOSE i \in shared : \A j \in shared : i <= j
  <2>1. \E i \in shared : \A j \in shared : i <= j
    <3>1. shared \subseteq Nat
      BY <1>1
    <3>2. PICK n \in shared : \A m \in shared : <<m, n>> \notin OpToRel(<, Nat)
      BY <1>3, <3>1, NatLessThanWellFounded, WFMin
    <3>3. \A m \in shared : ~(m < n)
      BY <3>1, <3>2 DEF OpToRel
    <3>. QED  BY <3>1, <3>3
  <2>2. first \in shared
    BY <2>1
  <2>3. client[first] \in Alg
    BY <1>1, <2>2
  <2>4. first \in DOMAIN client /\ client[first] \in Names(other)
    BY <2>2
  <2>5. client[first] \in Names(client)
    BY <2>4 DEF Names
  <2>6. Negotiate(client, other) = client[first]
    BY <1>3 DEF Negotiate
  <2>. QED  BY <2>3, <2>4, <2>5, <2>6
<1>. QED  BY <1>2, <1>3

\* What Record and Settle leave of a session.
LEMMA RecordType ==
    ASSUME NEW session \in Session, NEW forward \in BOOLEAN, NEW kex \in KexLists
    PROVE  /\ Record(session, forward, kex) \in Session
           /\ Record(session, forward, kex).negotiated = session.negotiated
BY DEF Record, Session

LEMMA SettleType ==
    ASSUME NEW session \in Session
    PROVE  /\ Settle(session) \in Session
           /\ Settle(session).client = session.client
           /\ Settle(session).server = session.server
<1>1. CASE session.negotiated = None /\ session.client # <<>> /\ session.server # <<>>
  <2>1. session.client \in KexLists /\ session.server \in KexLists
    BY <1>1 DEF Session
  <2>2. Negotiate(session.client, session.server) \in Alg \union {None}
    BY <2>1, NegotiateType
  <2>. QED  BY <1>1, <2>2 DEF Settle, Session
<1>2. CASE ~(session.negotiated = None /\ session.client # <<>> /\ session.server # <<>>)
  BY <1>2 DEF Settle
<1>. QED  BY <1>1, <1>2

LEMMA NamesType ==
    ASSUME NEW kex \in KexLists
    PROVE  Names(kex) \subseteq Alg
<1>1. kex \in Seq(Alg)
  BY SessionsAssumption
<1>. QED  BY <1>1 DEF Names

LEMMA NoNames == Names(<<>>) = {}
BY DEF Names

-----------------------------------------------------------------------------
\* The session a message goes to, and what it leaves there.
Key(flow) == IF IsForward(sessions, flow) THEN flow ELSE Reverse(flow)

Recorded(flow, kex) ==
    Record(sessions[Key(flow)], IsForward(sessions, flow), kex)

\* The two maps change in one place each.
LEMMA StepEffect ==
    ASSUME NEW flow \in Flow, NEW kex \in KexLists, TypeOK, ProcessSsh(flow, kex)
    PROVE  /\ Key(flow) \in Flow
           /\ Recorded(flow, kex) \in Session
           /\ sessions' = [sessions EXCEPT ![Key(flow)] = Settle(Recorded(flow, kex))]
           /\ host_caps' = AddCaps(host_caps, HostOf[flow[1]], sessions[Key(flow)],
                                   Recorded(flow, kex), kex)
<1>1. Key(flow) \in Flow
  BY ReverseFlow DEF Key
<1>2. IsForward(sessions, flow) \in BOOLEAN
  BY DEF IsForward
<1>3. sessions[Key(flow)] \in Session
  BY <1>1 DEF TypeOK
<1>4. Recorded(flow, kex) \in Session
  BY <1>2, <1>3, RecordType DEF Recorded
<1>5. /\ sessions' = [sessions EXCEPT ![Key(flow)] = Settle(Recorded(flow, kex))]
      /\ host_caps' = AddCaps(host_caps, HostOf[flow[1]], sessions[Key(flow)],
                              Recorded(flow, kex), kex)
  BY DEF ProcessSsh, After, Key, Recorded
<1>. QED  BY <1>1, <1>4, <1>5

LEMMA TypeStep ==
    ASSUME NEW flow \in Flow, NEW kex \in KexLists, TypeOK, ProcessSsh(flow, kex)
    PROVE  TypeOK'
<1>1. sessions' \in [Flow -> Session]
  BY StepEffect, SettleType DEF TypeOK
<1>2. host_caps' \in [Host -> SUBSET Alg]
  <2>1. Names(kex) \subseteq Alg
    BY NamesType
  <2>. QED  BY <2>1, StepEffect DEF TypeOK, AddCaps
<1>. QED  BY <1>1, <1>2 DEF TypeOK

LEMMA OneSessionStep ==
    ASSUME NEW flow \in Flow, NEW kex \in KexLists, TypeOK, OneSession,
           ProcessSsh(flow, kex)
    PROVE  OneSession'
<1>1. sessions[Reverse(Key(flow))] = NoSession
  <2>1. CASE sessions[flow] # NoSession
    BY <2>1 DEF OneSession, Key, IsForward
  <2>2. CASE sessions[flow] = NoSession /\ sessions[Reverse(flow)] = NoSession
    BY <2>2 DEF Key, IsForward
  <2>3. CASE sessions[flow] = NoSession /\ sessions[Reverse(flow)] # NoSession
    BY <2>3, ReverseFlow DEF Key, IsForward
  <2>. QED  BY <2>1, <2>2, <2>3
<1>2. SUFFICES ASSUME NEW g \in Flow, sessions'[g] # NoSession
               PROVE  sessions'[Reverse(g)] = NoSession
  BY DEF OneSession
<1>. DEFINE key == Key(flow)
<1>3. /\ key \in Flow
      /\ sessions' = [sessions EXCEPT ![key] = Settle(Recorded(flow, kex))]
  BY StepEffect
<1>4. sessions \in [Flow -> Session]
  BY DEF TypeOK
<1>5. Reverse(g) \in Flow /\ Reverse(Reverse(g)) = g /\ Reverse(g) # g
  BY ReverseFlow
<1>6. CASE g = key
  BY <1>1, <1>3, <1>4, <1>5, <1>6
<1>7. CASE Reverse(g) = key
  <2>1. sessions[g] = NoSession
    BY <1>1, <1>5, <1>7
  <2>. QED  BY <1>2, <1>3, <1>4, <1>5, <1>7, <2>1
<1>8. CASE g # key /\ Reverse(g) # key
  BY <1>2, <1>3, <1>4, <1>5, <1>8 DEF OneSession
<1>. QED  BY <1>6, <1>7, <1>8

\* The algorithm a session must name, given its two sides.
Due(session) ==
    IF session.client # <<>> /\ session.server # <<>>
    THEN Negotiate(session.client, session.server)
    ELSE None

\* Recording a message and settling leaves a session right, if it was right: a
\* side once known is kept, so an algorithm once negotiated stays due.
LEMMA SettledIsDue ==
    ASSUME NEW session \in Session, session.negotiated = Due(session),
           NEW forward \in BOOLEAN, NEW kex \in KexLists
    PROVE  LET settled == Settle(Record(session, forward, kex))
           IN  settled.negotiated = Due(settled)
<1> DEFINE recorded == Record(session, forward, kex)
           settled == Settle(recorded)
<1>1. /\ recorded \in Session
      /\ recorded.negotiated = session.negotiated
  BY RecordType
<1>2. settled.client = recorded.client /\ settled.server = recorded.server
  BY <1>1, SettleType
<1>3. CASE recorded = session
  <2>1. Due(recorded) = Due(session)
    BY <1>3
  <2>2. settled.negotiated = Due(session)
    BY <1>1, <1>3 DEF Settle, Due, Session
  <2>. QED  BY <1>2, <2>1, <2>2 DEF Due
<1>4. CASE recorded # session
  <2>1. session.negotiated = None
    BY <1>4 DEF Record, Due
  <2>2. settled.negotiated = Due(recorded)
    BY <1>1, <2>1 DEF Settle, Due, Session
  <2>. QED  BY <1>2, <2>2 DEF Due
<1>. QED  BY <1>3, <1>4

LEMMA NegotiatedStep ==
    ASSUME NEW flow \in Flow, NEW kex \in KexLists, TypeOK, NegotiatedRight,
           ProcessSsh(flow, kex)
    PROVE  NegotiatedRight'
<1>. DEFINE key == Key(flow)
            forward == IsForward(sessions, flow)
<1>1. /\ key \in Flow
      /\ sessions' = [sessions EXCEPT ![key] = Settle(Record(sessions[key], forward, kex))]
  BY StepEffect DEF Recorded
<1>2. sessions \in [Flow -> Session] /\ forward \in BOOLEAN
  BY DEF TypeOK, IsForward
<1>3. SUFFICES ASSUME NEW g \in Flow
               PROVE  sessions'[g].negotiated = Due(sessions'[g])
  BY DEF NegotiatedRight, Due
<1>4. CASE g = key
  <2>1. sessions[key].negotiated = Due(sessions[key])
    BY <1>1 DEF NegotiatedRight, Due
  <2>. HIDE DEF key, forward
  <2>2. sessions[key] \in Session
    BY <1>1, <1>2
  <2>3. LET settled == Settle(Record(sessions[key], forward, kex))
        IN  settled.negotiated = Due(settled)
    BY <1>2, <2>1, <2>2, SettledIsDue
  <2>4. sessions'[g] = Settle(Record(sessions[key], forward, kex))
    BY <1>1, <1>2, <1>4
  <2>. QED  BY <2>3, <2>4
<1>5. CASE g # key
  <2>1. sessions'[g] = sessions[g]
    BY <1>1, <1>2, <1>5
  <2>. QED  BY <2>1 DEF NegotiatedRight, Due
<1>. QED  BY <1>4, <1>5

-----------------------------------------------------------------------------
\* Algorithm a is among what the sessions keep of host h.
Shown(map, h, a) ==
    \E g \in Flow :
        \/ HostOf[g[1]] = h /\ a \in Names(map[g].client)
        \/ HostOf[g[2]] = h /\ a \in Names(map[g].server)

LEMMA CapsAreShown ==
    ASSUME TypeOK
    PROVE  CapsMatchSessions <=>
               \A h \in Host : \A a : a \in host_caps[h] <=> Shown(sessions, h, a)
BY DEF CapsMatchSessions, Shown

LEMMA CapsStep ==
    ASSUME NEW flow \in Flow, NEW kex \in KexLists, TypeOK, TypeOK',
           CapsMatchSessions, ProcessSsh(flow, kex)
    PROVE  CapsMatchSessions'
<1>. DEFINE key == Key(flow)
            old == sessions[key]
            recorded == Recorded(flow, kex)
            from == HostOf[flow[1]]
<1>1. /\ key \in Flow
      /\ recorded \in Session
      /\ sessions' = [sessions EXCEPT ![key] = Settle(recorded)]
      /\ host_caps' = AddCaps(host_caps, from, old, recorded, kex)
  BY StepEffect
<1>2. /\ sessions \in [Flow -> Session]
      /\ host_caps \in [Host -> SUBSET Alg]
      /\ from \in Host
  BY SessionsAssumption DEF TypeOK, Flow
<1>3. /\ sessions'[key].client = recorded.client
      /\ sessions'[key].server = recorded.server
      /\ \A g \in Flow : g # key => sessions'[g] = sessions[g]
  BY <1>1, <1>2, SettleType
<1>4. SUFFICES ASSUME NEW h \in Host, NEW a
               PROVE  a \in host_caps'[h] <=> Shown(sessions', h, a)
  BY CapsAreShown DEF CapsMatchSessions, Shown
<1>5. a \in host_caps[h] <=> Shown(sessions, h, a)
  BY CapsAreShown
<1>6. CASE recorded = old
  <2>1. host_caps' = host_caps
    BY <1>1, <1>6 DEF AddCaps
  <2>2. \A g \in Flow : /\ sessions'[g].client = sessions[g].client
                        /\ sessions'[g].server = sessions[g].server
    BY <1>3, <1>6
  <2>. QED  BY <1>5, <2>1, <2>2 DEF Shown
<1>7. CASE recorded # old
  <2>1. host_caps' = [host_caps EXCEPT ![from] = @ \union Names(kex)]
    BY <1>1, <1>7 DEF AddCaps
  <2>2. a \in host_caps'[h] <=> a \in host_caps[h] \/ (h = from /\ a \in Names(kex))
    BY <1>2, <2>1
  <2>3. CASE IsForward(sessions, flow)
    <3>1. key = flow /\ old.client = <<>>
          /\ recorded.client = kex /\ recorded.server = old.server
      BY <1>1, <1>2, <1>7, <2>3 DEF Key, Recorded, Record, Session
    <3>2. Shown(sessions', h, a) <=>
              Shown(sessions, h, a) \/ (h = from /\ a \in Names(kex))
      BY <1>1, <1>3, <3>1, NoNames DEF Shown
    <3>. QED  BY <1>5, <2>2, <3>2
  <2>4. CASE ~IsForward(sessions, flow)
    <3>1. key = Reverse(flow) /\ old.server = <<>>
          /\ recorded.server = kex /\ recorded.client = old.client
      BY <1>1, <1>2, <1>7, <2>4 DEF Key, Recorded, Record, Session
    <3>2. HostOf[key[2]] = from
      BY <3>1 DEF Reverse
    <3>3. Shown(sessions', h, a) <=>
              Shown(sessions, h, a) \/ (h = from /\ a \in Names(kex))
      BY <1>1, <1>3, <3>1, <3>2, NoNames DEF Shown
    <3>. QED  BY <1>5, <2>2, <3>3
  <2>. QED  BY <2>3, <2>4
<1>. QED  BY <1>6, <1>7

-----------------------------------------------------------------------------
IInv == TypeOK /\ OneSession /\ NegotiatedRight /\ CapsMatchSessions

LEMMA Initially == Init => IInv
<1>. SUFFICES ASSUME Init PROVE IInv
  OBVIOUS
<1>1. NoSession \in Session
  BY DEF NoSession, Session
<1>2. TypeOK
  BY <1>1 DEF Init, TypeOK
<1>3. OneSession
  BY ReverseFlow DEF Init, OneSession
<1>4. NegotiatedRight
  BY DEF Init, NegotiatedRight, NoSession
<1>5. CapsMatchSessions
  BY NoNames DEF Init, CapsMatchSessions, NoSession
<1>. QED  BY <1>2, <1>3, <1>4, <1>5 DEF IInv

LEMMA Inductive == IInv /\ [Next]_vars => IInv'
<1>. SUFFICES ASSUME IInv, [Next]_vars PROVE IInv'
  OBVIOUS
<1>1. ASSUME NEW flow \in Flow, NEW kex \in KexLists, ProcessSsh(flow, kex)
      PROVE  IInv'
  <2>1. TypeOK'
    BY <1>1, TypeStep DEF IInv
  <2>2. OneSession'
    BY <1>1, OneSessionStep DEF IInv
  <2>3. NegotiatedRight'
    BY <1>1, NegotiatedStep DEF IInv
  <2>4. CapsMatchSessions'
    BY <1>1, <2>1, CapsStep DEF IInv
  <2>. QED  BY <2>1, <2>2, <2>3, <2>4 DEF IInv
<1>2. CASE UNCHANGED vars
  BY <1>2 DEF vars, IInv, TypeOK, OneSession, NegotiatedRight, CapsMatchSessions
<1>. QED  BY <1>1, <1>2 DEF Next

\* The invariant of every capture (ssh.rs:69-128).
THEOREM Invariance == Spec => []IInv
BY Initially, Inductive, PTL DEF Spec

\* Sessions name two KEXINITs and an algorithm that one of them names, and
\* capabilities are algorithms (ssh.rs:21-53).
THEOREM TypeCorrect == Spec => []TypeOK
BY Invariance, PTL DEF IInv

\* Both directions of a connection share one session (ssh.rs:103-111).
THEOREM SharesSession == Spec => []OneSession
BY Invariance, PTL DEF IInv

\* The algorithm of a session is the one its two sides negotiate, whatever the
\* order and number of messages (ssh.rs:121-137).
THEOREM NegotiatesRight == Spec => []NegotiatedRight
BY Invariance, PTL DEF IInv

\* The capabilities of the hosts are what the sessions keep of them
\* (ssh.rs:113-119, 139-149).
THEOREM CapsAgree == Spec => []CapsMatchSessions
BY Invariance, PTL DEF IInv

-----------------------------------------------------------------------------
\* What a session knows is never replaced, and a host loses no capability
\* (ssh.rs:113-127).
THEOREM ForgetsNothing == Spec => NothingForgotten
<1>1. ASSUME TypeOK, NegotiatedRight, NegotiatedRight',
             NEW flow \in Flow, NEW kex \in KexLists, ProcessSsh(flow, kex)
      PROVE  Keeps
  <2>. DEFINE key == Key(flow)
              recorded == Recorded(flow, kex)
  <2>1. /\ key \in Flow
        /\ recorded \in Session
        /\ sessions' = [sessions EXCEPT ![key] = Settle(recorded)]
        /\ host_caps' = AddCaps(host_caps, HostOf[flow[1]], sessions[key], recorded, kex)
    BY <1>1, StepEffect
  <2>2. sessions \in [Flow -> Session] /\ host_caps \in [Host -> SUBSET Alg]
    BY <1>1 DEF TypeOK
  <2>3. ASSUME NEW g \in Flow
        PROVE  /\ sessions[g].client # <<>> => sessions'[g].client = sessions[g].client
               /\ sessions[g].server # <<>> => sessions'[g].server = sessions[g].server
    <3>1. CASE g = key
      <4>1. /\ sessions'[g].client = recorded.client
            /\ sessions'[g].server = recorded.server
        BY <2>1, <2>2, <3>1, SettleType
      <4>2. /\ sessions[g].client # <<>> => recorded.client = sessions[g].client
            /\ sessions[g].server # <<>> => recorded.server = sessions[g].server
        BY <2>1, <2>2, <3>1 DEF Recorded, Record, Session
      <4>. QED  BY <4>1, <4>2
    <3>2. CASE g # key
      BY <2>1, <2>2, <3>2
    <3>. QED  BY <3>1, <3>2
  <2>4. ASSUME NEW g \in Flow, sessions[g].negotiated # None
        PROVE  sessions'[g].negotiated = sessions[g].negotiated
    <3>1. sessions[g].client # <<>> /\ sessions[g].server # <<>>
      BY <1>1, <2>4 DEF NegotiatedRight
    <3>2. /\ sessions'[g].client = sessions[g].client
          /\ sessions'[g].server = sessions[g].server
      BY <2>3, <3>1
    <3>. QED  BY <1>1, <3>1, <3>2 DEF NegotiatedRight
  <2>5. \A h \in Host : host_caps[h] \subseteq host_caps'[h]
    BY <2>1, <2>2 DEF AddCaps
  <2>. QED  BY <2>3, <2>4, <2>5 DEF Keeps
<1>2. IInv /\ IInv' /\ [Next]_vars => [Keeps]_vars
  BY <1>1 DEF IInv, Next
<1>. QED  BY <1>2, Invariance, PTL DEF Spec, NothingForgotten
=============================================================================
