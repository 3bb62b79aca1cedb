--------------------------- MODULE HttpsConnection ---------------------------
(***************************************************************************)
(* proxy_tls.rs: one connection to the HTTPS port, from accept to the       *)
(* requests inside it.  The handler peeks at what has arrived to tell TLS,  *)
(* CONNECT and plain HTTP apart, learns the host from the SNI or from the   *)
(* CONNECT line, answers the TLS handshake with a certificate for that     *)
(* host, and judges and forwards every request inside for that host.       *)
(*                                                                         *)
(* The client's bytes come in units, cut where the handler's decisions are: *)
(* TCP may deliver any number of them at a time.                           *)
(***************************************************************************)
EXTENDS Naturals

CONSTANTS
    Hosts,       \* hosts that clients ask for
    DefaultHost, \* "example.com", used when no SNI is found
    Partial,     \* what a CONNECT line cut off by the end of stream names
    Ports,       \* ports of CONNECT targets
    HttpsPort,   \* 443, the port of a URL that names none
    Allowed,     \* the targets <<host, port>> whose https URL the rules allow
    Kinds        \* what clients speak, a subset of ClientKinds

ClientKinds == {"tls", "connect", "http", "other"}

Targets == (Hosts \cup {DefaultHost, Partial}) \X (Ports \cup {HttpsPort})

ASSUME ConstantsAssumption ==
    /\ Allowed \subseteq Targets
    /\ Partial \notin Hosts \cup {DefaultHost}
    /\ Kinds \subseteq ClientKinds

(* A ClientHello is its first byte, the record header, and the rest.  A     *)
(* CONNECT request is its first five bytes, the part of the line without    *)
(* its end, the end of the line, the headers and the empty line.            *)
HelloUnits == 3
WordEnd == 2
LineEnd == 3
HeadersEnd == 5
ConnectUnits == HeadersEnd + HelloUnits

UnitsOf(kind) ==
    CASE kind = "tls" -> HelloUnits
      [] kind = "connect" -> ConnectUnits
      [] OTHER -> 1

VARIABLES
    client,   \* what the client speaks and wants
    sent,     \* units that have arrived
    open,     \* whether the client's side of the connection is open
    pc,       \* where the handler is
    taken,    \* units read off the socket, by the BufReader as they come
    host,     \* the host it works for
    upstream  \* the targets to which it has forwarded requests

vars == <<client, sent, open, pc, taken, host, upstream>>
theClient == <<client, sent, open>>

\* A hello that names its host in a record of at most 2048 bytes, one that
\* does so in a longer record, and one without an SNI.
Hellos == {"short", "long", "nameless"}

Clients == [kind : Kinds,
            host : Hosts,
            port : Ports,
            whole : BOOLEAN,     \* what it sends at once arrives at once
            eager : BOOLEAN,     \* it sends the hello without awaiting the 200
            hello : Hellos,
            verifies : BOOLEAN]  \* the client checks the certificate's name

\* What the client sends without waiting for an answer.
FirstBurst ==
    IF client.kind = "connect" /\ ~client.eager THEN HeadersEnd
                                                ELSE UnitsOf(client.kind)

Reading == {"detect", "sni", "line", "headers"}
Established == {"certificate", "handshake", "serving"}

TypeOK ==
    /\ client \in Clients
    /\ sent \in 0..UnitsOf(client.kind)
    /\ open \in BOOLEAN
    /\ pc \in Reading \cup Established
                \cup {"evaluate", "write200", "write403", "http", "closed"}
    /\ taken \in 0..sent
    /\ host \in Hosts \cup {DefaultHost, Partial}
    /\ upstream \subseteq Targets

Init ==
    /\ client \in Clients
    /\ sent = 0 /\ open = TRUE
    /\ pc = "detect" /\ taken = 0
    /\ host = DefaultHost
    /\ upstream = {}

-----------------------------------------------------------------------------
Goto(to) == pc' = to /\ UNCHANGED <<theClient, taken, host, upstream>>

\* handle_https_connection: peek returns what has arrived, at least a byte.
LooksLikeTls == client.kind = "tls" /\ sent > 1
\* Mutant: "CONNECT " is longer than what is peeked.
LooksLikeWholeWord == FALSE

LooksLikeConnect == client.kind = "connect" /\ sent >= WordEnd
LooksLikeHttp == client.kind \in {"http", "connect"}

DetectTls == pc = "detect" /\ LooksLikeTls /\ Goto("sni")

DetectConnect == pc = "detect" /\ sent > 0 /\ LooksLikeConnect /\ Goto("line")

DetectHttp ==
    /\ pc = "detect" /\ sent > 0
    /\ ~LooksLikeConnect /\ LooksLikeHttp
    /\ Goto("http")

DetectUnknown ==
    /\ pc = "detect" /\ sent > 0
    /\ ~LooksLikeTls /\ ~LooksLikeHttp
    /\ Goto("closed")

\* The first peek fails, finds the end of the stream, or takes 5 seconds.
DetectFails ==
    /\ pc = "detect"
    /\ sent = 0 \/ ~open
    /\ Goto("closed")

\* Mutant: only the record header is peeked.
ExtractSniFromHeader ==
    /\ pc = "sni"
    /\ host' = DefaultHost
    /\ pc' = "certificate"
    /\ UNCHANGED <<theClient, taken, upstream>>

\* extract_sni_from_stream peeks once, at 2048 bytes, without waiting for the
\* whole hello; a record that is not all there does not parse.
ExtractSni ==
    /\ pc = "sni"
    /\ \/ client.hello = "short" /\ sent = HelloUnits /\ host' = client.host
       \/ /\ client.hello # "short" \/ sent < HelloUnits \/ ~open
          /\ host' = DefaultHost
    /\ pc' = "certificate"
    /\ UNCHANGED <<theClient, taken, upstream>>

-----------------------------------------------------------------------------
(* handle_connect_tunnel                                                    *)

\* read_line has what is buffered until the line ends.
Wanted == IF pc = "line" THEN LineEnd ELSE HeadersEnd
NeedsMore == pc \in {"line", "headers"} /\ taken < Wanted

\* Mutant: so much is read, whether it is there or not.
FillBufferExact ==
    /\ NeedsMore /\ taken < sent
    /\ taken' = HeadersEnd
    /\ UNCHANGED <<theClient, pc, host, upstream>>

\* The BufReader takes all that has arrived, which its 8 KiB have room for.
FillBuffer ==
    /\ NeedsMore /\ taken < sent
    /\ taken' = sent
    /\ UNCHANGED <<theClient, pc, host, upstream>>

\* The socket has nothing, or it fails.
NothingToRead == NeedsMore /\ (taken = sent \/ ~open)

ReadLine ==
    /\ pc = "line" /\ ~NeedsMore
    /\ host' = client.host
    /\ pc' = "headers"
    /\ UNCHANGED <<theClient, taken, upstream>>

\* The stream ends within the line: what there is of a target is used.
ReadPartialLine ==
    /\ pc = "line" /\ NeedsMore
    /\ taken = sent /\ ~open
    /\ host' = Partial
    /\ pc' = "headers"
    /\ UNCHANGED <<theClient, taken, upstream>>

\* No target in the line, an error, or the timeout.
LineFails == pc = "line" /\ NothingToRead /\ Goto("closed")

\* The loop over the headers ends at the empty line.
ReadHeaders == pc = "headers" /\ ~NeedsMore /\ Goto("evaluate")

\* The end of the stream, an error or the timeout of a line ends it as well.
HeadersCutShort == pc = "headers" /\ NothingToRead /\ Goto("evaluate")

\* A line came so late that the check at the head of the loop gives up.
HeadersTimeout == pc = "headers" /\ Goto("closed")

\* Mutant: the verdict is left to the requests inside the tunnel.
EvaluateConnectLater == pc = "evaluate" /\ Goto("write200")

EvaluateConnect ==
    /\ pc = "evaluate"
    /\ Goto(IF <<host, client.port>> \in Allowed THEN "write200"
                                                 ELSE "write403")

WriteEstablished == pc = "write200" /\ Goto("certificate")
WriteForbidden == pc = "write403" /\ Goto("closed")
WriteFails == pc = "write200" /\ Goto("closed")

-----------------------------------------------------------------------------
(* handle_transparent_tls and perform_tls_interception                      *)

GetCertForHost == pc = "certificate" /\ Goto("handshake")
CertificateFails == pc = "certificate" /\ Goto("closed")

\* Nothing but the hello is left to read: into_inner has dropped what the
\* BufReader held of it.
HelloNext ==
    /\ sent = UnitsOf(client.kind)
    /\ taken + HelloUnits = sent

\* The client takes a certificate for its host, or any if it does not check.
Accepts == client.verifies => host = client.host

\* Mutant: the certificate is chosen anew from the hello.
HandshakeBySni ==
    /\ pc = "handshake" /\ open
    /\ HelloNext
    /\ taken' = sent
    /\ pc' = "serving"
    /\ UNCHANGED <<theClient, host, upstream>>

Handshake ==
    /\ pc = "handshake" /\ open
    /\ HelloNext /\ Accepts
    /\ taken' = sent
    /\ pc' = "serving"
    /\ UNCHANGED <<theClient, host, upstream>>

\* Mutant: the handshake has no timeout.
HandshakeNoTimeout == pc = "handshake" /\ ~open /\ Goto("closed")

\* The client refuses the certificate, what it sends is no hello, it goes
\* away, or ten seconds pass.
HandshakeFails == pc = "handshake" /\ Goto("closed")

\* handle_decrypted_https_request: judged and forwarded under the host alone.
RequestUrl == <<host, HttpsPort>>

ForwardRequest ==
    /\ pc = "serving" /\ open
    /\ RequestUrl \in Allowed
    /\ upstream' = upstream \cup {RequestUrl}
    /\ UNCHANGED <<theClient, pc, taken, host>>

ForbidRequest ==
    /\ pc = "serving" /\ open
    /\ RequestUrl \notin Allowed
    /\ UNCHANGED vars

EndServing ==
    /\ pc \in {"serving", "http"} /\ ~open
    /\ Goto("closed")

-----------------------------------------------------------------------------
(* The client (external).                                                   *)

\* Its bytes arrive in any portions.
Send ==
    /\ open /\ pc # "closed"
    /\ \E n \in (sent + 1)..UnitsOf(client.kind) :
        /\ n <= FirstBurst \/ pc \in Established
        /\ client.whole => n >= FirstBurst
        /\ sent' = n
    /\ UNCHANGED <<client, open, pc, taken, host, upstream>>

Close ==
    /\ open
    /\ open' = FALSE
    /\ UNCHANGED <<client, sent, pc, taken, host, upstream>>

-----------------------------------------------------------------------------
Detect ==
    \/ DetectTls \/ DetectConnect \/ DetectHttp \/ DetectUnknown \/ DetectFails

Tunnel ==
    \/ FillBuffer \/ ReadLine \/ ReadPartialLine \/ LineFails
    \/ ReadHeaders \/ HeadersCutShort \/ HeadersTimeout
    \/ EvaluateConnect \/ WriteEstablished \/ WriteForbidden \/ WriteFails

Intercept ==
    \/ ExtractSni \/ GetCertForHost \/ CertificateFails
    \/ Handshake \/ HandshakeFails

Serve == ForwardRequest \/ ForbidRequest \/ EndServing

Next == Detect \/ Tunnel \/ Intercept \/ Serve \/ Send \/ Close

Spec == Init /\ [][Next]_vars

\* The runtime polls the handler and its timers fire.  The client owes
\* nothing.
FairSpec == Spec /\ WF_vars(Detect \/ Tunnel \/ Intercept)

-----------------------------------------------------------------------------
(* Properties.                                                             *)

\* A client that checks certificates has its requests judged and forwarded
\* for the host it asked for and no other, however its bytes were cut and
\* wherever they ended.
VerifyingClientsReachTheirHost ==
    client.verifies => \A t \in upstream : t[1] = client.host

\* Nothing is forwarded for a CONNECT tunnel the rules refused, nor to a
\* target whose URL they refuse.
OnlyAllowedForwarded ==
    upstream # {} =>
        /\ upstream \subseteq Allowed
        /\ client.kind = "connect" => <<client.host, client.port>> \in Allowed

\* No client, silent, slow or gone, holds a handler before requests are
\* served: five timeouts see to it.
EveryConnectionSettles ==
    pc = "detect" ~> pc \in {"serving", "http", "closed"}

\* The host of a transparent connection is the one that the hello names, as
\* long as the client is there and its hello arrived in one piece and fits
\* into what extract_sni_from_stream peeks at.
SniExtracted ==
    client.kind = "tls" /\ client.whole /\ client.hello = "short" /\ open
    => (pc \in Established => host = client.host)

\* tls-interception.md:33 "Extracts SNI from TLS ClientHello": the host of a
\* transparent connection is the one that the hello names, whatever the length
\* of the hello and in whatever pieces it arrives.
EverySniExtracted ==
    client.kind = "tls" /\ client.hello # "nameless" /\ open
    => (pc \in Established => host = client.host)

\* proxy_tls.rs:873 "Test that the proxy correctly detects CONNECT vs direct
\* TLS": no CONNECT request that arrived in one piece is taken for a plain
\* HTTP request.
ConnectDetected == pc = "http" /\ client.whole => client.kind # "connect"

\* proxy_tls.rs:506 "Forward an HTTPS request to the target server": requests
\* inside a tunnel go to the target of the CONNECT request.
TunnelReachesTarget ==
    client.kind = "connect" => upstream \subseteq {<<client.host, client.port>>}
=============================================================================
