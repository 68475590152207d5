------------------------- MODULE TlsTarget_proofs -------------------------
(***************************************************************************)
(* Proofs about TlsTarget, for any groups, flags, machines and whatever    *)
(* they support: a scan tests each selected group once, claims only what   *)
(* is supported, and implements TargetScan. And about TlsWire: the lengths *)
(* of its ClientHello are right for every size of the databases and of the *)
(* host that fits, and it implements TlsTarget.                            *)
(***************************************************************************)
EXTENDS TlsWire, SequenceTheorems, TLAPS

\* Where the scan is, what is known of its current connection, and that a
\* result without an error comes when no group is left.
Control ==
    /\ result # None <=> phase = "done"
    /\ phase = "handshake" =>
        /\ group \in Group /\ peer \in Address
        /\ reply = "server_hello" => group \in supports[peer]
        /\ reply = "alert" => group \notin supports[peer]
        /\ reply = "other" => ~smooth
    /\ phase = "connecting" => reply = None
    /\ result # None => result.error \/ todo = {}

\* The groups left and the groups tested are the selected ones, apart.
Asked(g) == \E i \in DOMAIN asked : asked[i][1] = g

Division ==
    /\ \A g \in todo : ~Asked(g)
    /\ \A g \in Group :
        g \in todo \/ Asked(g) <=> g \in Selected(hybrid_only, with_nonpqc)
    /\ \A i, j \in DOMAIN asked : asked[i][1] = asked[j][1] => i = j

\* What the connection in hand will add to what is found, if all goes well.
InHand == IF phase = "handshake" /\ group \in supports[peer] THEN {group} ELSE {}

Findings ==
    /\ found \union InHand \subseteq Supported
    /\ smooth => Supported = found \union InHand
    /\ result # None => Claims(result) \subseteq found
    /\ result # None /\ smooth => Claims(result) = found

IInv == TypeOK /\ Control /\ Division /\ Findings

-----------------------------------------------------------------------------
LEMMA ListedType ==
    ASSUME TypeOK
    PROVE  /\ Listed(found) \in Result
           /\ Claims(Listed(found)) = found
           /\ Listed(found).error = FALSE
           /\ Listed(found).pqc_supported <=> found \intersect Pqc # {}
<1>1. found \subseteq Group /\ addr \in Address \union {None}
  BY DEF TypeOK
<1>2. (found \intersect Pqc # {}) \in BOOLEAN
  OBVIOUS
<1>3. Listed(found) \in Result
  BY <1>1, <1>2, TlsAssumption DEF Listed, Result
<1>4. Claims(Listed(found)) = found
  BY <1>1, TlsAssumption DEF Listed, Claims
<1>. QED  BY <1>3, <1>4 DEF Listed

\* What the loop adds to asked.
LEMMA AskedAppend ==
    ASSUME TypeOK, NEW g \in Group, NEW a \in Address, asked' = Append(asked, <<g, a>>),
           supports' = supports
    PROVE  /\ asked' \in Seq(Group \X Address)
           /\ \A h : Asked(h)' <=> Asked(h) \/ h = g
           /\ Supported' = Supported \union {h \in {g} : h \in supports[a]}
           /\ (\A h \in DOMAIN asked : asked[h][1] # g) =>
                ((\A i, j \in DOMAIN asked : asked[i][1] = asked[j][1] => i = j)
                    => \A i, j \in DOMAIN asked' : asked'[i][1] = asked'[j][1] => i = j)
<1>1. asked \in Seq(Group \X Address) /\ <<g, a>> \in Group \X Address
  BY DEF TypeOK
<1>2. /\ asked' \in Seq(Group \X Address)
      /\ Len(asked') = Len(asked) + 1
      /\ \A i \in 1..Len(asked) : asked'[i] = asked[i]
      /\ asked'[Len(asked) + 1] = <<g, a>>
  BY <1>1, AppendProperties
<1>3. /\ DOMAIN asked = 1..Len(asked) /\ Len(asked) \in Nat
      /\ DOMAIN asked' = 1..(Len(asked) + 1)
  BY <1>1, <1>2
<1>4. \A h : Asked(h)' <=> Asked(h) \/ h = g
  BY <1>2, <1>3 DEF Asked
<1>5. Supported' = Supported \union {h \in {g} : h \in supports[a]}
  BY <1>2, <1>3 DEF Supported
<1>6. ASSUME \A h \in DOMAIN asked : asked[h][1] # g,
             \A i, j \in DOMAIN asked : asked[i][1] = asked[j][1] => i = j,
             NEW i \in DOMAIN asked', NEW j \in DOMAIN asked',
             asked'[i][1] = asked'[j][1]
      PROVE  i = j
  BY <1>2, <1>3, <1>6
<1>. QED  BY <1>2, <1>4, <1>5, <1>6

LEMMA Initially == Init => IInv
<1>. SUFFICES ASSUME Init PROVE IInv
  OBVIOUS
<1>1. TypeOK
  BY DEF Init, TypeOK, Selected
<1>2. Control
  BY DEF Init, Control
<1>3. Division
  BY DEF Init, Division, Asked, Selected
<1>4. Findings
  BY DEF Init, Findings, Supported, InHand
<1>. QED  BY <1>1, <1>2, <1>3, <1>4 DEF IInv

-----------------------------------------------------------------------------
LEMMA ConnectStep ==
    ASSUME IInv, NEW g \in todo, NEW a \in Address, Connect(g, a)
    PROVE  IInv'
<1>1. g \in Group /\ supports' = supports /\ asked' = Append(asked, <<g, a>>)
  BY DEF IInv, TypeOK, Connect
<1>2. TypeOK /\ Control /\ Division /\ Findings
  BY DEF IInv
<1>3. /\ asked' \in Seq(Group \X Address)
      /\ \A h : Asked(h)' <=> Asked(h) \/ h = g
      /\ Supported' = Supported \union {h \in {g} : h \in supports[a]}
  BY <1>1, <1>2, AskedAppend
<1>4. ~Asked(g)
  BY <1>2 DEF Division
<1>5. TypeOK'
  BY <1>1, <1>2, <1>3 DEF TypeOK, Connect, options
<1>6. Control'
  <2>1. phase = "connecting" /\ result = None /\ reply = None
    BY <1>2 DEF Connect, Control
  <2>. QED  BY <1>1, <2>1, NoneAssumption DEF Connect, Control
<1>7. Division'
  <2>1. todo' = todo \ {g} /\ hybrid_only' = hybrid_only /\ with_nonpqc' = with_nonpqc
    BY DEF Connect, options
  <2>2. \A h \in todo' : ~Asked(h)'
    BY <1>2, <1>3, <2>1 DEF Division
  <2>3. \A h \in Group :
          h \in todo' \/ Asked(h)' <=> h \in Selected(hybrid_only', with_nonpqc')
    BY <1>2, <1>3, <2>1 DEF Division
  <2>4. \A i, j \in DOMAIN asked' : asked'[i][1] = asked'[j][1] => i = j
    BY <1>1, <1>2, <1>4, AskedAppend DEF Division, Asked
  <2>. QED  BY <2>2, <2>3, <2>4 DEF Division
<1>8. Findings'
  <2>1. /\ InHand = {}
        /\ InHand' = {h \in {g} : h \in supports[a]}
    BY <1>1 DEF InHand, Connect
  <2>2. found' = found /\ smooth' = smooth /\ result' = result
    BY DEF Connect
  <2>3. result = None
    BY <1>2 DEF Connect, Control
  <2>. QED  BY <1>2, <1>3, <2>1, <2>2, <2>3 DEF Findings
<1>. QED  BY <1>5, <1>6, <1>7, <1>8 DEF IInv

\* What the actions that leave asked and the machines alone keep.
LEMMA SameAsked ==
    ASSUME UNCHANGED <<asked, supports>>
    PROVE  Supported' = Supported /\ \A h : Asked(h)' <=> Asked(h)
BY DEF Supported, Asked

LEMMA SameDivision ==
    ASSUME Division, UNCHANGED <<asked, supports, todo, options>>
    PROVE  Division'
<1>1. hybrid_only' = hybrid_only /\ with_nonpqc' = with_nonpqc
  BY DEF options
<1>2. asked' = asked /\ todo' = todo
  OBVIOUS
<1>. QED  BY <1>1, <1>2, SameAsked DEF Division

LEMMA AnswerStep ==
    ASSUME IInv, PeerAnswers
    PROVE  IInv'
<1>1. TypeOK /\ Control /\ Division /\ Findings
  BY DEF IInv
<1>2. /\ phase = "handshake" /\ phase' = phase /\ result' = result
      /\ found' = found /\ group' = group /\ peer' = peer
      /\ supports' = supports /\ asked' = asked
      /\ todo' = todo /\ options' = options /\ addr' = addr
  BY DEF PeerAnswers
<1>3. \/ reply' = "server_hello" /\ group \in supports[peer] /\ smooth' = smooth
      \/ reply' = "alert" /\ group \notin supports[peer] /\ smooth' = smooth
      \/ reply' = "other" /\ smooth' = FALSE
  BY DEF PeerAnswers
<1>4. TypeOK'
  BY <1>1, <1>2, <1>3 DEF TypeOK, options
<1>5. Control'
  BY <1>1, <1>2, <1>3 DEF Control
<1>6. Division'
  BY <1>1, <1>2, SameDivision
<1>7. Findings'
  <2>1. InHand' = InHand /\ Supported' = Supported
    BY <1>2, SameAsked DEF InHand
  <2>2. smooth' => smooth
    BY <1>3
  <2>3. result = None
    BY <1>1, <1>2 DEF Control
  <2>. QED  BY <1>1, <1>2, <2>1, <2>2, <2>3 DEF Findings
<1>. QED  BY <1>4, <1>5, <1>6, <1>7 DEF IInv

LEMMA HandshakeStep ==
    ASSUME IInv, HandshakeOk \/ HandshakeErr \/ HandshakeTimeout
    PROVE  IInv'
<1>1. TypeOK /\ Control /\ Division /\ Findings
  BY DEF IInv
<1>2. /\ phase = "handshake" /\ phase' = "connecting" /\ result' = result
      /\ group' = None /\ peer' = None /\ reply' = None
      /\ supports' = supports /\ asked' = asked
      /\ todo' = todo /\ options' = options /\ addr' = addr
  BY DEF HandshakeOk, HandshakeErr, HandshakeTimeout, NextGroup
<1>3. result = None /\ group \in Group
  BY <1>1, <1>2 DEF Control
<1>4. /\ found \subseteq found' /\ found' \subseteq found \union InHand
      /\ smooth' => smooth /\ found' = found \union InHand
  <2>1. CASE HandshakeOk
    BY <1>1, <1>2, <2>1 DEF HandshakeOk, Control, InHand
  <2>2. CASE HandshakeErr
    <3>1. ~smooth \/ InHand = {}
      BY <1>1, <2>2 DEF HandshakeErr, Control, InHand
    <3>. QED  BY <2>2, <3>1 DEF HandshakeErr
  <2>3. CASE HandshakeTimeout
    BY <2>3 DEF HandshakeTimeout
  <2>. QED  BY <2>1, <2>2, <2>3
<1>5. smooth' \in BOOLEAN
  BY <1>1 DEF TypeOK, HandshakeOk, HandshakeErr, HandshakeTimeout
<1>6. found' \subseteq Group
  BY <1>1, <1>3, <1>4 DEF InHand, TypeOK
<1>7. TypeOK'
  BY <1>1, <1>2, <1>5, <1>6 DEF TypeOK, options
<1>8. Control'
  BY <1>1, <1>2, <1>3 DEF Control
<1>9. Division'
  BY <1>1, <1>2, SameDivision
<1>10. Findings'
  <2>1. InHand' = {} /\ Supported' = Supported
    BY <1>2, SameAsked DEF InHand
  <2>. QED  BY <1>1, <1>2, <1>3, <1>4, <2>1 DEF Findings
<1>. QED  BY <1>7, <1>8, <1>9, <1>10 DEF IInv

LEMMA ConnectFailsStep ==
    ASSUME IInv, ConnectFails
    PROVE  IInv'
<1>. DEFINE failed == [addr |-> None, error |-> TRUE, pqc_supported |-> FALSE,
                       pqc_algos |-> {}, hybrid_algos |-> {}, nonpqc_algos |-> {}]
<1>1. TypeOK /\ Control /\ Division /\ Findings
  BY DEF IInv
<1>2. /\ phase = "connecting" /\ phase' = "done" /\ result' = failed
      /\ smooth' = FALSE /\ found' = found /\ group' = group /\ peer' = peer
      /\ reply' = reply /\ supports' = supports /\ asked' = asked
      /\ todo' = todo /\ options' = options /\ addr' = addr
  BY DEF ConnectFails
<1>3. failed \in Result /\ failed.error /\ Claims(failed) = {}
  BY DEF Result, Claims
<1>. HIDE DEF failed
<1>4. failed # None
  BY <1>3, NoneAssumption
<1>5. TypeOK'
  BY <1>1, <1>2, <1>3 DEF TypeOK, options
<1>6. Control'
  BY <1>1, <1>2, <1>3, <1>4 DEF Control
<1>7. Division'
  BY <1>1, <1>2, SameDivision
<1>8. Findings'
  <2>1. InHand = {} /\ InHand' = {} /\ Supported' = Supported
    BY <1>2, SameAsked DEF InHand
  <2>. QED  BY <1>1, <1>2, <1>3, <2>1 DEF Findings
<1>. QED  BY <1>5, <1>6, <1>7, <1>8 DEF IInv

LEMMA ConnectPanicsStep ==
    ASSUME IInv, ConnectPanics
    PROVE  IInv'
<1>1. TypeOK /\ Control /\ Division /\ Findings
  BY DEF IInv
<1>2. /\ phase = "connecting" /\ phase' = "panicked" /\ result' = result
      /\ smooth' = FALSE /\ found' = found /\ group' = group /\ peer' = peer
      /\ reply' = reply /\ supports' = supports /\ asked' = asked
      /\ todo' = todo /\ options' = options /\ addr' = addr
  BY DEF ConnectPanics
<1>3. TypeOK'
  BY <1>1, <1>2 DEF TypeOK, options
<1>4. result' = None
  BY <1>1, <1>2 DEF Control
<1>5. Control'
  BY <1>2, <1>4 DEF Control
<1>6. Division'
  BY <1>1, <1>2, SameDivision
<1>7. Findings'
  <2>1. InHand = {} /\ InHand' = {} /\ Supported' = Supported
    BY <1>2, SameAsked DEF InHand
  <2>. QED  BY <1>1, <1>2, <1>4, <2>1 DEF Findings
<1>. QED  BY <1>3, <1>5, <1>6, <1>7 DEF IInv

LEMMA FinishStep ==
    ASSUME IInv, Finish
    PROVE  IInv'
<1>1. TypeOK /\ Control /\ Division /\ Findings
  BY DEF IInv
<1>2. /\ phase = "connecting" /\ phase' = "done" /\ result' = Listed(found)
      /\ smooth' = smooth /\ found' = found /\ group' = group /\ peer' = peer
      /\ reply' = reply /\ supports' = supports /\ asked' = asked
      /\ todo' = todo /\ todo = {} /\ options' = options /\ addr' = addr
  BY DEF Finish
<1>3. Listed(found) \in Result /\ Claims(Listed(found)) = found
  BY <1>1, ListedType
<1>4. Listed(found) # None
  BY <1>3, NoneAssumption
<1>5. TypeOK'
  BY <1>1, <1>2, <1>3 DEF TypeOK, options
<1>6. Control'
  BY <1>1, <1>2, <1>4 DEF Control
<1>7. Division'
  BY <1>1, <1>2, SameDivision
<1>8. Findings'
  <2>1. InHand = {} /\ InHand' = {} /\ Supported' = Supported
    BY <1>2, SameAsked DEF InHand
  <2>. QED  BY <1>1, <1>2, <1>3, <2>1 DEF Findings
<1>. QED  BY <1>5, <1>6, <1>7, <1>8 DEF IInv

LEMMA Stutter ==
    ASSUME IInv, UNCHANGED vars
    PROVE  IInv'
<1>1. /\ phase' = phase /\ result' = result /\ smooth' = smooth
      /\ found' = found /\ group' = group /\ peer' = peer
      /\ reply' = reply /\ supports' = supports /\ asked' = asked
      /\ todo' = todo /\ options' = options /\ addr' = addr
  BY DEF vars
<1>2. TypeOK' /\ Control'
  BY <1>1 DEF IInv, TypeOK, Control, options
<1>3. Division'
  BY <1>1, SameDivision DEF IInv
<1>4. Findings'
  <2>1. InHand' = InHand /\ Supported' = Supported
    BY <1>1, SameAsked DEF InHand
  <2>. QED  BY <1>1, <2>1 DEF IInv, Findings
<1>. QED  BY <1>2, <1>3, <1>4 DEF IInv

LEMMA Inductive == IInv /\ [Next]_vars => IInv'
<1>. SUFFICES ASSUME IInv, [Next]_vars PROVE IInv'
  OBVIOUS
<1>1. ASSUME NEW g \in todo, NEW a \in Address, Connect(g, a)
      PROVE  IInv'
  BY <1>1, ConnectStep
<1>2. CASE PeerAnswers
  BY <1>2, AnswerStep
<1>3. CASE HandshakeOk \/ HandshakeErr \/ HandshakeTimeout
  BY <1>3, HandshakeStep
<1>4. CASE ConnectFails
  BY <1>4, ConnectFailsStep
<1>5. CASE ConnectPanics
  BY <1>5, ConnectPanicsStep
<1>6. CASE Finish
  BY <1>6, FinishStep
<1>7. CASE UNCHANGED vars
  BY <1>7, Stutter
<1>. QED  BY <1>1, <1>2, <1>3, <1>4, <1>5, <1>6, <1>7 DEF Next, Scan

\* The invariant of a scan, whatever the peers do (tls.rs:504-636).
THEOREM Invariance == Spec => []IInv
BY Initially, Inductive, PTL DEF Spec

\* Groups, addresses and the three lists are of their kinds; a list holds
\* groups of its class only (tls.rs:583-608).
THEOREM TypeCorrect == Spec => []TypeOK
BY Invariance, PTL DEF IInv

\* No group is tested twice or against the options, and a result without an
\* error has tested all that the options select (tls.rs:517-542).
THEOREM TestsEachOnce == Spec => []EachGroupOnce
<1>1. IInv => EachGroupOnce
  <2>. SUFFICES ASSUME IInv PROVE EachGroupOnce
    OBVIOUS
  <2>1. \A i, j \in DOMAIN asked : asked[i][1] = asked[j][1] => i = j
    BY DEF IInv, Division
  <2>2. ASSUME NEW i \in DOMAIN asked
        PROVE  asked[i][1] \in Selected(hybrid_only, with_nonpqc)
    <3>1. asked[i][1] \in Group
      BY DEF IInv, TypeOK
    <3>. QED  BY <3>1 DEF IInv, Division, Asked
  <2>3. \A i \in DOMAIN asked :
            /\ hybrid_only => asked[i][1] \in Hybrid
            /\ ~with_nonpqc => asked[i][1] \in Pqc
    BY <2>2 DEF Selected
  <2>4. ASSUME result # None, ~result.error, NEW g \in Group,
               g \in Hybrid \/ (~hybrid_only /\ (g \in Pqc \/ with_nonpqc))
        PROVE  \E i \in DOMAIN asked : asked[i][1] = g
    <3>1. g \in Selected(hybrid_only, with_nonpqc)
      BY <2>4, TlsAssumption DEF Selected
    <3>2. g \notin todo
      BY <2>4 DEF IInv, Control
    <3>. QED  BY <3>1, <3>2 DEF IInv, Division, Asked
  <2>. QED  BY <2>1, <2>3, <2>4 DEF EachGroupOnce
<1>. QED  BY <1>1, Invariance, PTL

\* A scan claims only groups supported by the machines they were tested
\* against, and all of them when nothing failed (tls.rs:542-634).
THEOREM ReportsRight == Spec => []ReportsSupported
<1>1. IInv => ReportsSupported
  <2>. SUFFICES ASSUME IInv, result # None PROVE ReportsSupported
    BY DEF ReportsSupported
  <2>1. InHand = {}
    BY DEF IInv, Control, InHand
  <2>. QED  BY <2>1 DEF IInv, Findings, ReportsSupported
<1>. QED  BY <1>1, Invariance, PTL

-----------------------------------------------------------------------------
\* TargetScan's view of a result.
View(r) == [error |-> r.error, pqc_supported |-> r.pqc_supported, algos |-> Claims(r)]

Offered == UNION {supports[a] : a \in Address}

LEMMA SupportedIsOffered ==
    ASSUME TypeOK
    PROVE  Supported \subseteq Offered
BY DEF TypeOK, Supported, Offered

\* A view of a result of the right kind is a result of TargetScan.
LEMMA ViewType ==
    ASSUME NEW r \in Result
    PROVE  View(r) \in Target!Result
<1>1. Claims(r) \subseteq Group
  BY TlsAssumption DEF Result, Claims
<1>2. r.error \in BOOLEAN /\ r.pqc_supported \in BOOLEAN
  BY DEF Result
<1>. QED  BY <1>1, <1>2 DEF View, Target!Result

\* A step that ends the scan answers, and any other leaves the view as it is.
LEMMA Simulates ==
    ASSUME IInv, IInv', [Next]_vars
    PROVE  [Target!Answer]_(Target!vars)
<1>1. TypeOK /\ Control /\ Findings /\ Control' /\ Findings' /\ TypeOK'
  BY DEF IInv
<1>2. supports' = supports
  BY DEF Next, Scan, Connect, ConnectFails, ConnectPanics, PeerAnswers, HandshakeOk,
         HandshakeErr, HandshakeTimeout, Finish, vars
<1>3. Offered' = Offered
  BY <1>2 DEF Offered
<1>4. CASE result' = result
  BY <1>3, <1>4 DEF Target!vars, Offered, Claims
<1>5. CASE result' # result
  <2>1. phase = "connecting" /\ (ConnectFails \/ Finish)
    BY <1>5 DEF Next, Scan, Connect, ConnectFails, ConnectPanics, PeerAnswers,
                HandshakeOk, HandshakeErr, HandshakeTimeout, Finish, vars
  <2>2. result = None
    BY <1>1, <2>1 DEF Control
  <2>3. result' # None /\ result' \in Result
    BY <1>1, <1>5, <2>2 DEF TypeOK
  <2>4. View(result') \in Target!Result
    BY <2>3, ViewType
  <2>5. /\ View(result').algos \subseteq Offered
        /\ View(result').pqc_supported <=> View(result').algos \intersect Pqc # {}
        /\ View(result').error => View(result').algos = {}
    <3>1. CASE ConnectFails
      BY <3>1 DEF ConnectFails, View, Claims
    <3>2. CASE Finish
      <4>1. result' = Listed(found) /\ found \subseteq Supported
        BY <1>1, <3>2 DEF Finish, Findings
      <4>2. Supported \subseteq Offered
        BY <1>1, SupportedIsOffered
      <4>3. /\ Claims(Listed(found)) = found
            /\ Listed(found).error = FALSE
            /\ Listed(found).pqc_supported <=> found \intersect Pqc # {}
        BY <1>1, ListedType
      <4>. QED  BY <4>1, <4>2, <4>3 DEF View
    <3>. QED  BY <2>1, <3>1, <3>2
  <2>6. Target!Honest(View(result'))
    BY <2>5 DEF Target!Honest, Offered
  <2>7. Target!Answer
    BY <1>3, <2>2, <2>3, <2>4, <2>6 DEF Target!Answer, View, Offered, Claims
  <2>. QED  BY <2>7
<1>. QED  BY <1>4, <1>5

\* tls_scan_target keeps the promise of TargetScan: one result, with claims
\* that hold for a machine behind the name (tls.rs:504-636).
THEOREM Implements == Spec => Target!Spec
<1>1. Init => Target!Init
  <2>. SUFFICES ASSUME Init PROVE Target!Init
    OBVIOUS
  <2>1. Offered \subseteq Group
    BY TlsAssumption DEF Init, Offered
  <2>. QED  BY <2>1 DEF Init, Target!Init, Offered
<1>2. IInv /\ IInv' /\ [Next]_vars => [Target!Answer]_(Target!vars)
  BY Simulates
<1>. QED  BY <1>1, <1>2, Invariance, PTL DEF Spec, Target!Spec

-----------------------------------------------------------------------------
(* The ClientHello. *)

LEMMA U16Identity ==
    ASSUME NEW n \in Nat, n < 65536
    PROVE  U16(n) = n
BY DEF U16

\* What each extension adds, and that its own lengths are right.
LEMMA ExtensionLengths ==
    ASSUME NEW h \in Nat, h <= MaxHost
    PROVE  /\ server_name(h).ext_len = h + 5 /\ server_name(h).size = h + 5
           /\ signature_algorithms.ext_len = 2 * NumSchemes + 2
           /\ signature_algorithms.size = 2 * NumSchemes + 2
           /\ supported_groups(1).ext_len = 4 /\ supported_groups(1).size = 4
           /\ key_share.ext_len = 2 /\ key_share.size = 2
           /\ Honest(server_name(h)) /\ Honest(signature_algorithms)
           /\ Honest(supported_groups(1)) /\ Honest(key_share)
<1>1. /\ h + 3 \in Nat /\ h + 3 < 65536
      /\ 2 * NumSchemes \in Nat /\ 2 * NumSchemes < 65536
  BY HelloAssumption
<1>2. U16(h + 3) = h + 3 /\ U16(2 * NumSchemes) = 2 * NumSchemes /\ U16(2 * 1) = 2
  BY <1>1, U16Identity
<1>3. h \in Nat /\ NumSchemes \in Nat
  BY HelloAssumption
<1>. QED
  BY <1>2, <1>3 DEF server_name, signature_algorithms, supported_groups,
     key_share, Listing, Extension, Honest

\* None of the twelve additions on u16 wraps.
LEMMA ExtensionsLength ==
    ASSUME NEW h \in Nat, h <= MaxHost
    PROVE  AddAll(add_extension, h) = h + 2 * NumSchemes + 81
<1>1. h \in Nat /\ NumSchemes \in Nat /\ h + 2 * NumSchemes + 81 < 65536
  BY HelloAssumption
<1>. DEFINE n == 2 * NumSchemes
<1>2. add_extension(0, server_name(h)) = h + 9
  BY <1>1, ExtensionLengths, U16Identity DEF add_extension
<1>3. add_extension(h + 9, supported_versions) = h + 16
  BY <1>1, U16Identity DEF add_extension, supported_versions, Extension
<1>4. add_extension(h + 16, signature_algorithms) = h + n + 22
  BY <1>1, ExtensionLengths, U16Identity DEF add_extension
<1>5. add_extension(h + n + 22, status_request) = h + n + 31
  BY <1>1, U16Identity DEF add_extension, status_request, Extension
<1>6. add_extension(h + n + 31, supported_groups(1)) = h + n + 39
  BY <1>1, ExtensionLengths, U16Identity DEF add_extension
<1>7. add_extension(h + n + 39, key_share) = h + n + 45
  BY <1>1, ExtensionLengths, U16Identity DEF add_extension
<1>8. add_extension(h + n + 45, record_size_limit) = h + n + 51
  BY <1>1, U16Identity DEF add_extension, record_size_limit, Extension
<1>9. /\ add_extension(h + n + 51, empty_extension(18)) = h + n + 55
      /\ add_extension(h + n + 55, empty_extension(23)) = h + n + 59
  BY <1>1, U16Identity DEF add_extension, empty_extension, Extension
<1>10. add_extension(h + n + 59, compress_certificate) = h + n + 70
  BY <1>1, U16Identity DEF add_extension, compress_certificate, Extension
<1>11. add_extension(h + n + 70, renegotiation_info) = h + n + 75
  BY <1>1, U16Identity DEF add_extension, renegotiation_info, Extension
<1>12. add_extension(h + n + 75, ec_point_formats) = h + n + 81
  BY <1>1, U16Identity DEF add_extension, ec_point_formats, Extension
<1>. QED
  BY <1>2, <1>3, <1>4, <1>5, <1>6, <1>7, <1>8, <1>9, <1>10, <1>11, <1>12
  DEF AddAll

LEMMA ExtensionsBytes ==
    ASSUME NEW h \in Nat, h <= MaxHost
    PROVE  AddAll(WriteExtension, h) = h + 2 * NumSchemes + 81
<1>1. h \in Nat /\ NumSchemes \in Nat
  BY HelloAssumption
<1>. DEFINE n == 2 * NumSchemes
<1>2. WriteExtension(0, server_name(h)) = h + 9
  BY <1>1, ExtensionLengths DEF WriteExtension
<1>3. WriteExtension(h + 9, supported_versions) = h + 16
  BY <1>1 DEF WriteExtension, supported_versions, Extension
<1>4. WriteExtension(h + 16, signature_algorithms) = h + n + 22
  BY <1>1, ExtensionLengths DEF WriteExtension
<1>5. WriteExtension(h + n + 22, status_request) = h + n + 31
  BY <1>1 DEF WriteExtension, status_request, Extension
<1>6. WriteExtension(h + n + 31, supported_groups(1)) = h + n + 39
  BY <1>1, ExtensionLengths DEF WriteExtension
<1>7. WriteExtension(h + n + 39, key_share) = h + n + 45
  BY <1>1, ExtensionLengths DEF WriteExtension
<1>8. WriteExtension(h + n + 45, record_size_limit) = h + n + 51
  BY <1>1 DEF WriteExtension, record_size_limit, Extension
<1>9. /\ WriteExtension(h + n + 51, empty_extension(18)) = h + n + 55
      /\ WriteExtension(h + n + 55, empty_extension(23)) = h + n + 59
  BY <1>1 DEF WriteExtension, empty_extension, Extension
<1>10. WriteExtension(h + n + 59, compress_certificate) = h + n + 70
  BY <1>1 DEF WriteExtension, compress_certificate, Extension
<1>11. WriteExtension(h + n + 70, renegotiation_info) = h + n + 75
  BY <1>1 DEF WriteExtension, renegotiation_info, Extension
<1>12. WriteExtension(h + n + 75, ec_point_formats) = h + n + 81
  BY <1>1 DEF WriteExtension, ec_point_formats, Extension
<1>. QED
  BY <1>2, <1>3, <1>4, <1>5, <1>6, <1>7, <1>8, <1>9, <1>10, <1>11, <1>12
  DEF AddAll

LEMMA NoneWrong ==
    ASSUME NEW h \in Nat, h <= MaxHost
    PROVE  AddAll(CountWrong, h) = 0
<1>1. /\ Honest(supported_versions) /\ Honest(status_request)
      /\ Honest(record_size_limit) /\ Honest(empty_extension(18))
      /\ Honest(empty_extension(23)) /\ Honest(compress_certificate)
      /\ Honest(renegotiation_info) /\ Honest(ec_point_formats)
  BY DEF Honest, Extension, supported_versions, status_request,
     record_size_limit, empty_extension, compress_certificate,
     renegotiation_info, ec_point_formats
<1>2. \A e : Honest(e) => CountWrong(0, e) = 0
  BY DEF CountWrong
<1>3. /\ Honest(server_name(h)) /\ Honest(signature_algorithms)
      /\ Honest(supported_groups(1)) /\ Honest(key_share)
  BY ExtensionLengths
<1>. QED
  BY <1>1, <1>2, <1>3 DEF AddAll

\* Every length in the ClientHello is that of the bytes after it, for every
\* host a resolver accepts and any databases that leave it under 2^16 bytes:
\* no computation on u16 wraps and no conversion to it fails (tls.rs:341-378).
THEOREM HelloLengths ==
    ASSUME NEW h \in Nat, h <= MaxHost
    PROVE  Exact(into_buf(h))
<1>. DEFINE bytes == AddAll(WriteExtension, h)
            buf == 2 + 32 + 1 + 32 + 2 + 2 * NumCiphers + 1 + 1 + 2 + bytes
<1>1. h \in Nat /\ NumSchemes \in Nat /\ NumCiphers \in Nat
      /\ 158 + 2 * NumCiphers + 2 * NumSchemes + h < 65536
  BY HelloAssumption
<1>2. bytes = h + 2 * NumSchemes + 81
  BY ExtensionsBytes
<1>3. buf = 154 + 2 * NumCiphers + 2 * NumSchemes + h
  BY <1>1, <1>2
<1>4. U16(buf) = buf /\ U16(buf + 4) = 4 + buf
      /\ U16(2 * NumCiphers) = 2 * NumCiphers
  BY <1>1, <1>3, U16Identity
<1>5. AddAll(add_extension, h) = bytes /\ AddAll(CountWrong, h) = 0
  BY <1>2, ExtensionsLength, NoneWrong
<1>. HIDE DEF bytes
<1>6. into_buf(h) =
        [record_len |-> U16(buf + 4), record |-> 4 + buf,
         handshake_len |-> U16(buf), handshake |-> buf,
         ciphers_len |-> U16(2 * NumCiphers), ciphers |-> 2 * NumCiphers,
         extensions_len |-> AddAll(add_extension, h), extensions |-> bytes,
         wrong |-> AddAll(CountWrong, h)]
  BY DEF into_buf, bytes
<1>. HIDE DEF buf
<1>. QED  BY <1>4, <1>5, <1>6 DEF Exact

-----------------------------------------------------------------------------
(* TlsWire. *)

\* While a handshake is under way its ClientHello is the one for the group.
OnWire ==
    /\ host_len \in HostLengths
    /\ phase = "handshake" =>
        sent = [hello |-> into_buf(host_len), groups |-> <<group>>]

\* A ServerHello is accepted only where one was sent, so the answer is one
\* that TlsTarget knows.
LEMMA AnswersMatch ==
    ASSUME IInv, OnWire, WireAnswers
    PROVE  PeerAnswers
<1>1. phase = "handshake" /\ reply = None /\ smooth \in BOOLEAN
  BY DEF WireAnswers, IInv, TypeOK
<1>. DEFINE common == {i \in DOMAIN sent.groups : sent.groups[i] \in supports[peer]}
<1>2. PICK m \in Answers, n \in Cuts \union {x.size : x \in Answers} :
        /\ IsServerHello(m) => common # {}
        /\ IsRefusal(m) => common = {}
        /\ reply' = IF Accepted(m, n) THEN "server_hello"
                    ELSE IF IsRefusal(m) /\ n = m.size THEN "alert"
                    ELSE "other"
        /\ smooth' = (smooth /\ reply' # "other")
  BY DEF WireAnswers
<1>3. sent.groups = <<group>>
  BY <1>1 DEF OnWire
<1>4. common # {} <=> group \in supports[peer]
  BY <1>3
<1>5. Accepted(m, n) => IsServerHello(m)
  BY DEF Accepted, Seen, IsServerHello
<1>. HIDE DEF common
<1>6. CASE Accepted(m, n)
  <2>1. reply' = "server_hello" /\ group \in supports[peer] /\ smooth' = smooth
    BY <1>1, <1>2, <1>4, <1>5, <1>6
  <2>. QED  BY <2>1, <1>1 DEF WireAnswers, PeerAnswers
<1>7. CASE ~Accepted(m, n) /\ IsRefusal(m) /\ n = m.size
  <2>1. reply' = "alert" /\ group \notin supports[peer] /\ smooth' = smooth
    BY <1>1, <1>2, <1>4, <1>7
  <2>. QED  BY <2>1, <1>1 DEF WireAnswers, PeerAnswers
<1>8. CASE ~Accepted(m, n) /\ ~(IsRefusal(m) /\ n = m.size)
  <2>1. reply' = "other" /\ smooth' = FALSE
    BY <1>1, <1>2, <1>8
  <2>. QED  BY <2>1, <1>1 DEF WireAnswers, PeerAnswers
<1>. QED  BY <1>6, <1>7, <1>8

LEMMA WireStep ==
    ASSUME IInv, OnWire, [WireNext]_<<vars, wire>>
    PROVE  [Next]_vars /\ OnWire'
<1>1. CASE WireAnswers
  <2>1. PeerAnswers
    BY <1>1, AnswersMatch
  <2>. QED  BY <1>1, <2>1 DEF Next, WireAnswers, OnWire
<1>2. ASSUME NEW g \in todo, NEW a \in Address, WireConnect(g, a)
      PROVE  [Next]_vars /\ OnWire'
  BY <1>2 DEF WireConnect, Connect, OnWire, Next, Scan
<1>3. CASE WireEnd
  <2>1. phase' = "connecting"
    BY <1>3 DEF WireEnd, HandshakeOk, HandshakeErr, HandshakeTimeout, NextGroup
  <2>. QED  BY <1>3, <2>1 DEF WireEnd, OnWire, Next, Scan
<1>4. CASE (ConnectFails \/ ConnectPanics \/ Finish) /\ UNCHANGED wire
  <2>1. phase' \in {"done", "panicked"}
    BY <1>4 DEF ConnectFails, ConnectPanics, Finish
  <2>. QED  BY <1>4, <2>1 DEF wire, OnWire, Next, Scan
<1>5. CASE UNCHANGED <<vars, wire>>
  BY <1>5 DEF vars, wire, OnWire
<1>. QED  BY <1>1, <1>2, <1>3, <1>4, <1>5 DEF WireNext, WireScan

LEMMA WireInvariance == WireSpec => [](IInv /\ OnWire)
<1>1. WireInit => IInv /\ OnWire
  BY Initially DEF WireInit, OnWire, Init
<1>2. IInv /\ OnWire /\ [WireNext]_<<vars, wire>> => IInv' /\ OnWire'
  BY WireStep, Inductive
<1>. QED  BY <1>1, <1>2, PTL DEF WireSpec

\* The scan with its messages is a scan of TlsTarget: a ServerHello is never
\* seen where none was sent, whatever peers write and however reads are cut
\* (tls.rs:446-501).
THEOREM WireImplements == WireSpec => ImplementsTlsTarget
<1>1. WireInit => Init
  BY DEF WireInit
<1>2. IInv /\ OnWire /\ [WireNext]_<<vars, wire>> => [Next]_vars
  BY WireStep
<1>. QED  BY <1>1, <1>2, WireInvariance, PTL DEF WireSpec, Spec, ImplementsTlsTarget

\* Every ClientHello sent is exact and offers the one group under test.
THEOREM SendsExactHello == WireSpec => []HelloIsExact
<1>1. IInv /\ OnWire => HelloIsExact
  <2>. SUFFICES ASSUME OnWire, phase = "handshake"
                PROVE  Exact(sent.hello) /\ sent.groups = <<group>>
    BY DEF HelloIsExact
  <2>1. host_len \in Nat /\ host_len <= MaxHost
    BY WireAssumption, HelloAssumption DEF OnWire
  <2>2. sent.hello = into_buf(host_len) /\ sent.groups = <<group>>
    BY DEF OnWire
  <2>. QED  BY <2>1, <2>2, HelloLengths
<1>. QED  BY <1>1, WireInvariance, PTL
=============================================================================
