-------------------------- MODULE RequestByteLimit --------------------------
(***************************************************************************)
(* max_tx_bytes: apply_request_byte_limit (proxy.rs) decides what becomes  *)
(* of an allowed request, and LimitedBody (limited_body.rs) hands its body *)
(* to the upstream connection frame by frame.  A frame is its size; u64    *)
(* arithmetic wraps at Word.                                               *)
(***************************************************************************)
EXTENDS Integers

CONSTANTS
    Word,          \* the number of u64 values, 2^64 in the code
    Limits,        \* values of max_tx_bytes
    HeaderSizes,   \* sizes of the request line, the headers and the separator
    Lengths,       \* values of the Content-Length header
    MaxBody        \* bound: the bytes of a body without Content-Length

ASSUME ConstantsAssumption ==
    /\ Word \in Nat \ {0} /\ MaxBody \in Nat
    /\ Limits \subseteq 0..(Word - 1)
    /\ HeaderSizes \subseteq 1..(Word - 1)
    /\ Lengths \subseteq 0..(Word - 1)

Chunked == -1    \* the request has no Content-Length

VARIABLES
    phase,        \* "apply", "stream", "rejected" (413), "ended", "failed"
    limit,        \* max_bytes of the verdict
    header,       \* total_header_size
    length,       \* Content-Length, or Chunked
    max,          \* LimitedBody.max_bytes
    transmitted,  \* LimitedBody.bytes_transmitted
    received,     \* bytes the client's body has yielded
    sent,         \* body bytes handed to the upstream connection
    trailers      \* whether trailers have come: they end the client's body

vars == <<phase, limit, header, length, max, transmitted, received, sent,
          trailers>>
request == <<limit, header, length>>

U64 == 0..(Word - 1)

TypeOK ==
    /\ phase \in {"apply", "stream", "rejected", "ended", "failed"}
    /\ limit \in Limits /\ header \in HeaderSizes
    /\ length \in Lengths \cup {Chunked}
    /\ max \in U64 /\ transmitted \in U64
    /\ received \in Nat /\ sent \in Nat
    /\ trailers \in BOOLEAN

Init ==
    /\ phase = "apply"
    /\ limit \in Limits /\ header \in HeaderSizes
    /\ length \in Lengths \cup {Chunked}
    /\ max = 0 /\ transmitted = 0 /\ received = 0 /\ sent = 0
    /\ trailers = FALSE

SaturatingSub(a, b) == IF a >= b THEN a - b ELSE 0

\* Mutant: the body alone is compared with the limit.
BodySize == length % Word

\* total_header_size + content_length, in u64.
TotalSize == (header + length) % Word

-----------------------------------------------------------------------------
\* apply_request_byte_limit returns ExceedsLimit, the caller answers 413.
Reject ==
    /\ phase = "apply"
    /\ length # Chunked /\ TotalSize > limit
    /\ phase' = "rejected"
    /\ UNCHANGED <<request, max, transmitted, received, sent, trailers>>

\* The request line and the headers go upstream; the body is wrapped.
WrapBody ==
    /\ phase = "apply"
    /\ length # Chunked => TotalSize <= limit
    /\ max' = SaturatingSub(limit, header)
    /\ phase' = "stream"
    /\ UNCHANGED <<request, transmitted, received, sent, trailers>>

\* What the client's body still holds, at most.
BodyBound == IF length = Chunked THEN MaxBody ELSE length

\* poll_frame finds the limit reached and does not look at the inner body.
PollAtLimit ==
    /\ phase = "stream" /\ transmitted >= max
    /\ phase' = "ended"
    /\ UNCHANGED <<request, max, transmitted, received, sent, trailers>>

\* Mutant: a frame passes as long as the limit is not reached yet.
PollPassUnchecked ==
    /\ phase = "stream" /\ transmitted < max /\ ~trailers
    /\ \E n \in 0..(BodyBound - received) :
        /\ received' = received + n
        /\ transmitted' = transmitted + n
        /\ sent' = sent + n
    /\ UNCHANGED <<phase, request, max, trailers>>

\* A data frame of n bytes that fits.
PollPass ==
    /\ phase = "stream" /\ transmitted < max /\ ~trailers
    /\ \E n \in 0..(BodyBound - received) :
        /\ transmitted + n <= max
        /\ received' = received + n
        /\ transmitted' = transmitted + n
        /\ sent' = sent + n
    /\ UNCHANGED <<phase, request, max, trailers>>

\* Mutant: a frame that does not fit is dropped.
PollTruncateDrops ==
    /\ phase = "stream" /\ transmitted < max /\ ~trailers
    /\ \E n \in 0..(BodyBound - received) :
        /\ transmitted + n > max
        /\ received' = received + n
        /\ transmitted' = max
    /\ UNCHANGED <<phase, request, max, sent, trailers>>

\* A data frame that would exceed the limit: its first bytes are passed on.
PollTruncate ==
    /\ phase = "stream" /\ transmitted < max /\ ~trailers
    /\ \E n \in 0..(BodyBound - received) :
        /\ transmitted + n > max
        /\ received' = received + n
        /\ sent' = sent + (max - transmitted)
        /\ transmitted' = max
    /\ UNCHANGED <<phase, request, max, trailers>>

PollTrailers ==
    /\ phase = "stream" /\ transmitted < max /\ ~trailers
    /\ length = Chunked
    /\ trailers' = TRUE
    /\ UNCHANGED <<phase, request, max, transmitted, received, sent>>

\* The inner body ends: with Content-Length, when all of it has come.
PollEnd ==
    /\ phase = "stream" /\ transmitted < max
    /\ length # Chunked => received = length
    /\ phase' = "ended"
    /\ UNCHANGED <<request, max, transmitted, received, sent, trailers>>

\* The client's connection breaks.
PollError ==
    /\ phase = "stream" /\ transmitted < max
    /\ phase' = "failed"
    /\ UNCHANGED <<request, max, transmitted, received, sent, trailers>>

Next ==
    \/ Reject \/ WrapBody
    \/ PollAtLimit \/ PollPass \/ PollTruncate \/ PollTrailers
    \/ PollEnd \/ PollError

Spec == Init /\ [][Next]_vars

-----------------------------------------------------------------------------
(* What hyper asks of a body.                                              *)

InnerEnd == trailers \/ (length # Chunked /\ received = length)

\* is_end_stream
IsEndStream == transmitted >= max \/ InnerEnd

\* Mutant: what was transmitted is not subtracted.
SizeHintOfLimit ==
    LET inner == length - received
    IN IF length # Chunked /\ inner < max THEN inner ELSE max

\* The upper bound of size_hint; Incoming knows it when there is a length.
SizeHintUpper ==
    LET remaining == SaturatingSub(max, transmitted)
        inner == length - received
    IN IF length # Chunked /\ inner < remaining THEN inner ELSE remaining

-----------------------------------------------------------------------------
(* Properties.                                                             *)

\* The body never takes the request past max_tx_bytes: whenever a byte of it
\* has gone upstream, headers and body together are within the limit.
BodyWithinLimit == sent > 0 => header + sent <= limit

\* Truncation takes no more than it must: a request that ended normally has
\* sent all the body it received, or headers and body fill the limit exactly
\* (no body at all when the headers alone fill it).
NothingWithheld ==
    phase = "ended" =>
        \/ sent = received
        \/ header + sent = limit
        \/ sent = 0 /\ header >= limit

\* What is_end_stream and size_hint tell hyper is kept: after an end no poll
\* yields a byte, and all later polls together yield no more than the upper
\* bound.
HintStep ==
    /\ IsEndStream => sent' = sent
    /\ phase = "stream" => /\ sent' - sent <= SizeHintUpper
                           /\ sent' + SizeHintUpper' <= sent + SizeHintUpper

HintsKept == [][HintStep]_vars

\* request-body-limiting.md:41 "If it exceeds max_tx_bytes, the client
\* receives a 413 Payload Too Large error immediately": no request whose
\* Content-Length takes it past the limit reaches the upstream server.
OversizedIsRejected ==
    phase \in {"stream", "ended", "failed"} /\ length # Chunked
    => header + length <= limit
=============================================================================
