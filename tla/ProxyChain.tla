----------------------------- MODULE ProxyChain -----------------------------
(***************************************************************************)
(* One request on its way through a chain of httpjail proxies (proxy.rs,   *)
(* proxy_tls.rs).  Every instance judges the URL it reconstructs, rewrites  *)
(* the request, adds its loop nonce and sends it to the URL's address,      *)
(* which may be another instance's, its own, or the origin server's.  A    *)
(* method and a path are passed on as they are; the URL stands for its     *)
(* host.                                                                   *)
(***************************************************************************)
EXTENDS Naturals, Sequences, FiniteSets

CONSTANTS
    Instances,   \* httpjail processes; each stands for its nonce too
    Hosts,       \* host names; one of them may stand for "unknown"
    Allowed,     \* the hosts that the rules of each instance allow
    Schemes,     \* how the client asks: "http", "https" or both
    Combining,   \* intermediaries may join header lines of the same name
    None,
    MaxHops      \* bound: how often the request is forwarded

ASSUME ConstantsAssumption ==
    /\ Allowed \in [Instances -> SUBSET Hosts]
    /\ Schemes \subseteq {"http", "https"}
    /\ Combining \in BOOLEAN
    /\ None \notin Hosts /\ MaxHops \in Nat

Origin == "origin"
Client == "client"
ASSUME NamesAssumption == {Origin, Client} \cap Instances = {}

VARIABLES
    route,   \* where the address of a host leads each instance
    scheme,  \* of the request, the same at every hop
    uri,     \* the authority of the request's absolute URI, or None
    host,    \* the Host header
    peer,    \* the name in the CONNECT request or the SNI, when https
    lines,   \* the values of the loop header, each a set of nonces
    at,      \* who has the request, or the response
    hops,    \* the instances that forwarded it and await the response
    status   \* of the response on its way back, or 0

vars == <<route, scheme, uri, host, peer, lines, at, hops, status>>
message == <<uri, host, peer, lines>>

Places == Instances \cup {Origin, Client}
Statuses == {200, 403, 413, 502}

TypeOK ==
    /\ route \in [Instances -> [Hosts -> Instances \cup {Origin}]]
    /\ scheme \in Schemes
    /\ uri \in Hosts \cup {None} /\ host \in Hosts /\ peer \in Hosts
    /\ lines \subseteq SUBSET Instances
    /\ at \in Places
    /\ hops \in Seq(Instances) /\ Len(hops) <= MaxHops
    /\ status \in Statuses \cup {0}

\* The jailed client's request, as its first instance gets it: a proxy
\* request with an absolute URI or one with a path, and any Host header.
Init ==
    /\ route \in [Instances -> [Hosts -> Instances \cup {Origin}]]
    /\ scheme \in Schemes
    /\ uri \in Hosts \cup {None} /\ host \in Hosts /\ peer \in Hosts
    /\ lines = {}
    /\ at \in Instances
    /\ hops = <<>>
    /\ status = 0

-----------------------------------------------------------------------------
\* full_url in handle_http_request and in handle_decrypted_https_request.
FullUrl ==
    IF scheme = "https" THEN peer ELSE IF uri # None THEN uri ELSE host

\* The loop check: some value of the header equals our nonce.  The handler
\* of decrypted requests has none.
LoopSeen(i) == scheme = "http" /\ {i} \in lines

\* The instance answers with an error of its own.
Answer(code) ==
    /\ status' = code
    /\ at' = IF hops = <<>> THEN Client ELSE hops[Len(hops)]
    /\ UNCHANGED <<route, scheme, message, hops>>

Holds(i) == at = i /\ status = 0

LoopDetected(i) == Holds(i) /\ LoopSeen(i) /\ Answer(403)

Denied(i) ==
    /\ Holds(i) /\ ~LoopSeen(i)
    /\ FullUrl \notin Allowed[i]
    /\ Answer(403)

\* apply_request_byte_limit says ExceedsLimit.
TooLarge(i) ==
    /\ Holds(i) /\ ~LoopSeen(i)
    /\ FullUrl \in Allowed[i]
    /\ Answer(413)

\* The upstream server cannot be reached.
ConnectFails(i) ==
    /\ Holds(i) /\ ~LoopSeen(i)
    /\ FullUrl \in Allowed[i]
    /\ Answer(502)

\* Mutant: the nonce is not appended.
PrepareWithoutNonce(i) ==
    /\ host' = FullUrl
    /\ peer' = FullUrl
    /\ uri' = None
    /\ UNCHANGED lines

\* Mutant: the client's Host header is kept.
PrepareKeepsHost(i) ==
    /\ peer' = FullUrl
    /\ uri' = None
    /\ lines' = lines \cup {{i}}
    /\ UNCHANGED host

\* Mutant: the Host header is that of the incoming URI, which may name none.
PrepareHostFromUri(i) ==
    /\ host' = uri
    /\ peer' = FullUrl
    /\ uri' = None
    /\ lines' = lines \cup {{i}}

\* prepare_upstream_request: the Host header is that of the URL and our nonce
\* is appended.  The client library connects to the URL's host and sends the
\* path only.
PrepareUpstream(i) ==
    /\ host' = FullUrl
    /\ peer' = FullUrl
    /\ uri' = None
    /\ LET appended == lines \cup {{i}}
       IN \/ lines' = appended
          \/ Combining /\ lines' = {UNION appended}

Forward(i) ==
    /\ Holds(i) /\ ~LoopSeen(i)
    /\ FullUrl \in Allowed[i]
    /\ Len(hops) < MaxHops
    /\ PrepareUpstream(i)
    /\ at' = route[i][FullUrl]
    /\ hops' = Append(hops, i)
    /\ UNCHANGED <<route, scheme, status>>

\* The origin server answers (external), or its connection breaks and the
\* last instance says Bad Gateway.
OriginAnswers ==
    /\ at = Origin
    /\ \E code \in {200, 502} : Answer(code)

\* A response is passed back to whoever sent the request.
PassBack ==
    /\ status # 0 /\ hops # <<>>
    /\ LET rest == SubSeq(hops, 1, Len(hops) - 1)
       IN /\ hops' = rest
          /\ at' = IF rest = <<>> THEN Client ELSE rest[Len(rest)]
    /\ UNCHANGED <<route, scheme, message, status>>

InstanceStep(i) ==
    \/ LoopDetected(i) \/ Denied(i) \/ TooLarge(i) \/ ConnectFails(i)
    \/ Forward(i)

Next == (\E i \in Instances : InstanceStep(i)) \/ OriginAnswers \/ PassBack

Spec == Init /\ [][Next]_vars

-----------------------------------------------------------------------------
(* Properties.                                                             *)

\* proxy.rs:39, "Contains comma-separated nonces of all httpjail instances in
\* the proxy chain.  If we see our own nonce in an incoming request, we're in a
\* loop": no instance forwards the same request twice, whatever the routes.
NoInstanceTwice ==
    \A m, n \in 1..Len(hops) : hops[m] = hops[n] => m = n

\* What the loop check does achieve: whatever the routes, a plain HTTP request
\* goes round no loop, as long as nobody joined the lines of two nonces.
PlainLoopsBroken ==
    scheme = "http" /\ (\A l \in lines : Cardinality(l) = 1) => NoInstanceTwice

\* Only what every instance of the chain allowed reaches an origin server:
\* it is the server of that host, and the Host header names it, whatever
\* Host header and URI the client combined.
OriginGetsWhatWasAllowed ==
    at = Origin =>
        /\ host = peer
        /\ \A n \in 1..Len(hops) : host \in Allowed[hops[n]]
        /\ \A n \in 1..(Len(hops) - 1) : route[hops[n]][host] = hops[n + 1]
=============================================================================
