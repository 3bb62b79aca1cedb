----------------------- MODULE HttpsConnectionProofs -----------------------
(* Proofs about HttpsConnection, for any hosts, ports and rules and for     *)
(* bytes that arrive in any portions.                                       *)
EXTENDS HttpsConnection, TLAPS

Tunnelling == {"line", "headers", "evaluate", "write200", "write403"}

\* What a client sends at once is there or not there at all, if it arrives
\* at once.
WholeBursts == client.whole => sent = 0 \/ sent >= FirstBurst

\* Where the handler stands tells what the client speaks; what has not been
\* sent cannot have been detected.
Detected ==
    /\ pc \in Tunnelling => client.kind = "connect"
    /\ pc = "sni" => client.kind = "tls" /\ sent > 1
    /\ pc \in Established => client.kind \in {"tls", "connect"}

\* The host of a tunnel is the target of its CONNECT line, unless the client
\* went before the line was complete; such a client never completes a
\* handshake.
TunnelHost ==
    /\ client.kind = "connect" /\ open
       /\ pc \in {"headers", "evaluate", "write200", "certificate", "handshake"}
       => host = client.host
    /\ client.kind = "connect" /\ pc = "serving" => host = client.host

\* A tunnel that is being established was allowed for its host.
TunnelAllowed ==
    client.kind = "connect" /\ pc \in {"write200"} \cup Established
    => <<host, client.port>> \in Allowed

\* Requests are served for a host whose certificate the client accepted.
ServesAccepted == pc = "serving" => Accepts

IInv ==
    /\ TypeOK
    /\ WholeBursts /\ Detected /\ TunnelHost /\ TunnelAllowed /\ ServesAccepted
    /\ VerifyingClientsReachTheirHost /\ OnlyAllowedForwarded
    /\ SniExtracted /\ ConnectDetected

LEMMA Units ==
    /\ UnitsOf("tls") = HelloUnits
    /\ UnitsOf("connect") = ConnectUnits
    /\ \A k \in ClientKinds : UnitsOf(k) \in Nat
  <1>1. UnitsOf("tls") = HelloUnits  BY Zenon DEF UnitsOf
  <1>2. UnitsOf("connect") = ConnectUnits  BY Zenon DEF UnitsOf
  <1>3. UnitsOf("http") = 1 /\ UnitsOf("other") = 1  BY Zenon DEF UnitsOf
  <1> QED
    BY <1>1, <1>2, <1>3
    DEF ClientKinds, HelloUnits, ConnectUnits, HeadersEnd

LEMMA InitType == Init => TypeOK
  <1> SUFFICES ASSUME Init PROVE TypeOK  OBVIOUS
  <1>1. client.kind \in ClientKinds
    BY ConstantsAssumption DEF Init, Clients
  <1> QED
    BY <1>1, Units DEF Init, TypeOK, Clients, Reading, Established

LEMMA NextType == TypeOK /\ [Next]_vars => TypeOK'
  <1> SUFFICES ASSUME TypeOK, [Next]_vars PROVE TypeOK'  OBVIOUS
  <1>0. client.kind \in ClientKinds
    BY ConstantsAssumption DEF TypeOK, Clients
  <1>1. UnitsOf(client.kind) \in Nat /\ sent \in Nat /\ taken \in Nat
    BY <1>0, Units DEF TypeOK
  <1>2. client.host \in Hosts /\ client.port \in Ports
    BY DEF TypeOK, Clients
  <1> USE DEF TypeOK, Reading, Established, Goto, theClient
  <1>3. CASE Detect
    BY <1>3
    DEF Detect, DetectTls, DetectConnect, DetectHttp, DetectUnknown, DetectFails
  <1>4. CASE Tunnel
    <2>1. CASE ReadLine  BY <1>2, <2>1 DEF ReadLine
    <2>2. CASE ReadPartialLine  BY <2>2 DEF ReadPartialLine
    <2>3. CASE FillBuffer  BY <1>1, <2>3 DEF FillBuffer
    <2>4. CASE ReadHeaders \/ HeadersCutShort
      BY <2>4 DEF ReadHeaders, HeadersCutShort
    <2>5. CASE EvaluateConnect  BY <2>5 DEF EvaluateConnect
    <2>6. CASE LineFails \/ HeadersTimeout \/ WriteEstablished
               \/ WriteForbidden \/ WriteFails
      BY <2>6
      DEF LineFails, HeadersTimeout, WriteEstablished, WriteForbidden,
          WriteFails
    <2> QED  BY <1>4, <2>1, <2>2, <2>3, <2>4, <2>5, <2>6 DEF Tunnel
  <1>5. CASE Intercept
    BY <1>1, <1>2, <1>5
    DEF Intercept, ExtractSni, GetCertForHost, CertificateFails, Handshake,
        HandshakeFails
  <1>6. CASE Serve
    <2>1. RequestUrl \in Targets  BY DEF RequestUrl, Targets
    <2> QED
      BY <1>6, <2>1
      DEF Serve, ForwardRequest, ForbidRequest, EndServing, vars
  <1>7. CASE Send  BY <1>1, <1>7 DEF Send
  <1>8. CASE Close  BY <1>8 DEF Close
  <1>9. CASE UNCHANGED vars  BY <1>9 DEF vars
  <1> QED  BY <1>3, <1>4, <1>5, <1>6, <1>7, <1>8, <1>9 DEF Next

\* The handler and the connection keep their types; in particular nothing is
\* read off the socket that has not arrived.
THEOREM TypeCorrect == Spec => []TypeOK
  BY InitType, NextType, PTL DEF Spec

-----------------------------------------------------------------------------
LEMMA InitIInv == Init => IInv
  <1> SUFFICES ASSUME Init PROVE IInv  OBVIOUS
  <1>1. TypeOK  BY InitType
  <1>2. WholeBursts  BY DEF Init, WholeBursts
  <1>3. Detected /\ TunnelHost /\ TunnelAllowed /\ ServesAccepted
    BY DEF Init, Detected, TunnelHost, TunnelAllowed, ServesAccepted,
           Tunnelling, Established
  <1>4. /\ VerifyingClientsReachTheirHost /\ OnlyAllowedForwarded
        /\ SniExtracted /\ ConnectDetected
    BY DEF Init, VerifyingClientsReachTheirHost, OnlyAllowedForwarded,
           SniExtracted, ConnectDetected, Established
  <1> QED  BY <1>1, <1>2, <1>3, <1>4 DEF IInv

\* The client stays what it is, and its bursts stay whole.
LEMMA NextBursts == TypeOK /\ WholeBursts /\ [Next]_vars
                    => client' = client /\ WholeBursts'
  <1> SUFFICES ASSUME TypeOK, WholeBursts, [Next]_vars
               PROVE  client' = client /\ WholeBursts'
    OBVIOUS
  <1>0. client.kind \in ClientKinds
    BY ConstantsAssumption DEF TypeOK, Clients
  <1>1. UnitsOf(client.kind) \in Nat /\ sent \in Nat
        /\ FirstBurst \in Nat
    BY <1>0, Units DEF TypeOK, FirstBurst, HeadersEnd
  <1>2. CASE Send
    <2>1. client' = client  BY <1>2 DEF Send
    <2>2. PICK n \in (sent + 1)..UnitsOf(client.kind) :
             (client.whole => n >= FirstBurst) /\ sent' = n
      BY <1>2 DEF Send
    <2>3. FirstBurst' = FirstBurst  BY <2>1 DEF FirstBurst
    <2> QED  BY <2>1, <2>2, <2>3 DEF WholeBursts
  <1>3. ASSUME UNCHANGED <<client, sent>>
        PROVE  client' = client /\ WholeBursts'
    BY <1>3 DEF WholeBursts, FirstBurst
  <1>4. CASE Detect \/ Tunnel \/ Intercept \/ Serve \/ Close \/ UNCHANGED vars
    <2>1. UNCHANGED <<client, sent>>
      BY <1>4
      DEF Detect, DetectTls, DetectConnect, DetectHttp, DetectUnknown,
          DetectFails, Tunnel, FillBuffer, ReadLine, ReadPartialLine,
          LineFails, ReadHeaders, HeadersCutShort, HeadersTimeout, EvaluateConnect,
          WriteEstablished, WriteForbidden, WriteFails, Intercept, ExtractSni,
          GetCertForHost, CertificateFails, Handshake, HandshakeFails, Serve,
          ForwardRequest, ForbidRequest, EndServing, Close, vars, theClient,
          Goto
    <2> QED  BY <1>3, <2>1
  <1> QED  BY <1>2, <1>4 DEF Next

LEMMA NextIInv == IInv /\ [Next]_vars => IInv'
  <1> SUFFICES ASSUME IInv, [Next]_vars PROVE IInv'  OBVIOUS
  <1>0. TypeOK'  BY NextType DEF IInv
  <1>1. client' = client /\ WholeBursts'  BY NextBursts DEF IInv
  <1>2. /\ client.kind \in ClientKinds /\ sent \in Nat
        /\ client.host \in Hosts /\ pc \in Reading \cup Established
             \cup {"evaluate", "write200", "write403", "http", "closed"}
    BY ConstantsAssumption DEF IInv, TypeOK, Clients
  <1> DEFINE Rest == /\ Detected /\ TunnelHost /\ TunnelAllowed
                     /\ ServesAccepted /\ VerifyingClientsReachTheirHost
                     /\ OnlyAllowedForwarded /\ SniExtracted /\ ConnectDetected
  <1> SUFFICES Rest'  BY <1>0, <1>1 DEF IInv
  <1> USE <1>1, <1>2
      DEF IInv, Detected, TunnelHost, TunnelAllowed, ServesAccepted,
          Accepts, VerifyingClientsReachTheirHost, OnlyAllowedForwarded,
          SniExtracted, ConnectDetected, Tunnelling, Established, Reading
  <1>3. ASSUME Goto("closed") PROVE Rest'
    BY <1>3 DEF Goto, theClient
  <1>4. CASE Detect
    <2>1. CASE DetectTls
      BY <2>1 DEF DetectTls, LooksLikeTls, Goto, theClient
    <2>2. CASE DetectConnect
      BY <2>2 DEF DetectConnect, LooksLikeConnect, Goto, theClient
    <2>3. CASE DetectHttp
      <3>1. client.whole => client.kind # "connect"
        BY <2>3, Units
        DEF DetectHttp, LooksLikeConnect, WordEnd, WholeBursts, FirstBurst,
            HeadersEnd, ConnectUnits, HelloUnits
      <3> QED  BY <2>3, <3>1 DEF DetectHttp, Goto, theClient
    <2>4. CASE DetectUnknown \/ DetectFails
      BY <1>3, <2>4 DEF DetectUnknown, DetectFails
    <2> QED  BY <1>4, <2>1, <2>2, <2>3, <2>4 DEF Detect
  <1>5. CASE Tunnel
    <2>1. CASE ReadLine
      BY <2>1 DEF ReadLine, theClient
    <2>2. CASE ReadPartialLine
      BY <2>2 DEF ReadPartialLine, theClient
    <2>3. CASE FillBuffer  BY <2>3 DEF FillBuffer, theClient
    <2>4. CASE ReadHeaders \/ HeadersCutShort
      BY <2>4 DEF ReadHeaders, HeadersCutShort, Goto, theClient
    <2>5. CASE EvaluateConnect  BY <2>5 DEF EvaluateConnect, Goto, theClient
    <2>6. CASE WriteEstablished  BY <2>6 DEF WriteEstablished, Goto, theClient
    <2>7. CASE LineFails \/ HeadersTimeout \/ WriteForbidden \/ WriteFails
      BY <1>3, <2>7 DEF LineFails, HeadersTimeout, WriteForbidden, WriteFails
    <2> QED  BY <1>5, <2>1, <2>2, <2>3, <2>4, <2>5, <2>6, <2>7 DEF Tunnel
  <1>6. CASE Intercept
    <2>1. CASE ExtractSni
      <3>1. client.kind = "tls" /\ sent > 1  BY <2>1 DEF ExtractSni
      <3>2. client.whole => sent >= HelloUnits
        BY <3>1, Units DEF WholeBursts, FirstBurst, HelloUnits
      <3>3. sent \in 0..HelloUnits
        BY <3>1, Units DEF TypeOK
      <3>4. client.whole /\ client.hello = "short" /\ open => host' = client.host
        BY <2>1, <3>2, <3>3 DEF ExtractSni, HelloUnits
      <3> QED  BY <2>1, <3>1, <3>4 DEF ExtractSni, theClient
    <2>2. CASE GetCertForHost  BY <2>2 DEF GetCertForHost, Goto, theClient
    <2>3. CASE Handshake  BY <2>3 DEF Handshake, theClient
    <2>4. CASE CertificateFails \/ HandshakeFails
      BY <1>3, <2>4 DEF CertificateFails, HandshakeFails
    <2> QED  BY <1>6, <2>1, <2>2, <2>3, <2>4 DEF Intercept
  <1>7. CASE Serve
    <2>1. CASE ForwardRequest
      <3>1. RequestUrl[1] = host  BY DEF RequestUrl
      <3>2. /\ pc = "serving" /\ pc' = "serving" /\ host' = host
            /\ RequestUrl \in Allowed /\ upstream' = upstream \cup {RequestUrl}
            /\ UNCHANGED <<client, sent, open>>
        BY <2>1 DEF ForwardRequest, theClient
      <3>3. VerifyingClientsReachTheirHost'  BY <3>1, <3>2
      <3>4. OnlyAllowedForwarded'  BY <3>2
      <3>5. /\ Detected' /\ TunnelHost' /\ TunnelAllowed' /\ ServesAccepted'
            /\ SniExtracted' /\ ConnectDetected'
        BY <3>2
      <3> QED  BY <3>3, <3>4, <3>5
    <2>2. CASE ForbidRequest  BY <2>2 DEF ForbidRequest, vars
    <2>3. CASE EndServing  BY <1>3, <2>3 DEF EndServing
    <2> QED  BY <1>7, <2>1, <2>2, <2>3 DEF Serve
  <1>8. CASE Send
    <2>1. sent' \in Nat /\ sent' > sent
          /\ UNCHANGED <<client, open, pc, host, upstream>>
      BY <1>8 DEF Send
    <2> QED  BY <2>1
  <1>9. CASE Close
    BY <1>9 DEF Close
  <1>10. CASE UNCHANGED vars  BY <1>10 DEF vars
  <1> QED  BY <1>4, <1>5, <1>6, <1>7, <1>8, <1>9, <1>10 DEF Next

LEMMA Invariance == Spec => []IInv
  BY InitIInv, NextIInv, PTL DEF Spec

\* A client that checks certificates has its requests judged and forwarded
\* for its own host: handle_transparent_tls and perform_tls_interception serve
\* only the host of the certificate that it accepted.
THEOREM ClientsReachTheirHost == Spec => []VerifyingClientsReachTheirHost
  BY Invariance, PTL DEF IInv

\* Nothing leaves a tunnel that the rules refused, nor for a URL they refuse,
\* also when the stream ends within the CONNECT line.
THEOREM ForwardsOnlyAllowed == Spec => []OnlyAllowedForwarded
  BY Invariance, PTL DEF IInv

\* A transparent connection whose hello arrives in one piece, in a record that
\* fits into the peek of extract_sni_from_stream, is for the host it names.
THEOREM SniIsExtracted == Spec => []SniExtracted
  BY Invariance, PTL DEF IInv

\* A CONNECT request that arrives in one piece is taken for one.
THEOREM ConnectIsDetected == Spec => []ConnectDetected
  BY Invariance, PTL DEF IInv
=============================================================================
