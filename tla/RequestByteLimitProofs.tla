----------------------- MODULE RequestByteLimitProofs -----------------------
(* Proofs about RequestByteLimit, for every limit, header size, length and   *)
(* word size.                                                                *)
EXTENDS RequestByteLimit, TLAPS

\* Before the body is wrapped nothing has moved.  Afterwards max_bytes is what
\* the headers leave of the limit, all that was transmitted was received, and
\* bytes are held back only once max_bytes is reached.
Accounting ==
    /\ phase \in {"apply", "rejected"} =>
         max = 0 /\ transmitted = 0 /\ received = 0 /\ sent = 0 /\ ~trailers
    /\ phase \in {"stream", "ended", "failed"} =>
         max = SaturatingSub(limit, header)
    /\ sent = transmitted /\ transmitted <= max /\ sent <= received
    /\ sent = received \/ transmitted = max
    /\ length # Chunked => received <= length

\* What the proof needs of the numbers' types: the limit and the header size
\* are u64 values, the header's not zero.  Whoever applies the limit may take
\* it from elsewhere than Limits.
Sizes ==
    /\ phase \in {"apply", "stream", "rejected", "ended", "failed"}
    /\ limit \in Nat /\ limit < Word
    /\ header \in Nat \ {0} /\ header < Word
    /\ length \in Nat \cup {Chunked}
    /\ max \in U64 /\ transmitted \in U64
    /\ received \in Nat /\ sent \in Nat

Books == Sizes /\ Accounting

LEMMA TypedSizes == TypeOK => Sizes
  BY ConstantsAssumption DEF TypeOK, Sizes

LEMMA Words ==
    ASSUME Sizes
    PROVE  /\ Word \in Nat \ {0} /\ MaxBody \in Nat
           /\ limit \in Nat /\ limit < Word
           /\ header \in Nat \ {0} /\ header < Word
           /\ length \in Int /\ length >= -1 /\ (length # Chunked => length \in Nat)
  BY ConstantsAssumption DEF Sizes, Chunked

LEMMA InitType == Init => TypeOK
  <1> SUFFICES ASSUME Init PROVE TypeOK  OBVIOUS
  <1>1. 0 \in U64 /\ 0 \in Nat  BY ConstantsAssumption DEF U64
  <1>2. trailers \in BOOLEAN  BY Zenon DEF Init
  <1> QED  BY <1>1, <1>2 DEF Init, TypeOK

LEMMA InitBooks == Init => Books
  <1> SUFFICES ASSUME Init PROVE Books  OBVIOUS
  <1>1. Sizes  BY InitType, TypedSizes
  <1>2. Accounting  BY <1>1, Words DEF Init, Accounting, Chunked
  <1> QED  BY <1>1, <1>2 DEF Books

\* Every step of apply_request_byte_limit and of poll_frame keeps the books.
LEMMA NextBooks == Books /\ [Next]_vars => Books'
  <1> SUFFICES ASSUME Books, [Next]_vars PROVE Books'  OBVIOUS
  <1> USE DEF Books
  <1>0. /\ Word \in Nat \ {0} /\ MaxBody \in Nat
        /\ limit \in Nat /\ limit < Word
        /\ header \in Nat \ {0} /\ header < Word
        /\ length \in Int /\ length >= -1 /\ (length # Chunked => length \in Nat)
    BY Words
  <1>1. CASE Reject
    BY <1>0, <1>1 DEF Reject, request, Sizes, Accounting
  <1>2. CASE WrapBody
    <2>1. SaturatingSub(limit, header) \in U64
      BY <1>0 DEF SaturatingSub, U64
    <2> QED
      BY <1>0, <1>2, <2>1 DEF WrapBody, request, Sizes, Accounting, U64
  <1>3. CASE PollAtLimit
    BY <1>0, <1>3 DEF PollAtLimit, request, Sizes, Accounting
  <1>4. CASE PollPass
    <2>1. PICK n \in 0..(BodyBound - received) :
             /\ transmitted + n <= max
             /\ received' = received + n
             /\ transmitted' = transmitted + n
             /\ sent' = sent + n
      BY <1>4 DEF PollPass
    <2>2. n \in Nat /\ (length # Chunked => received + n <= length)
      BY <1>0, <2>1 DEF BodyBound, Sizes
    <2> QED
      BY <1>0, <1>4, <2>1, <2>2 DEF PollPass, request, Sizes, Accounting, U64
  <1>5. CASE PollTruncate
    <2>1. PICK n \in 0..(BodyBound - received) :
             /\ transmitted + n > max
             /\ received' = received + n
             /\ sent' = sent + (max - transmitted)
             /\ transmitted' = max
      BY <1>5 DEF PollTruncate
    <2>2. n \in Nat /\ (length # Chunked => received + n <= length)
      BY <1>0, <2>1 DEF BodyBound, Sizes
    <2> QED
      BY <1>0, <1>5, <2>1, <2>2
      DEF PollTruncate, request, Sizes, Accounting, U64
  <1>6. CASE PollTrailers
    BY <1>0, <1>6 DEF PollTrailers, request, Sizes, Accounting
  <1>7. CASE PollEnd
    BY <1>0, <1>7 DEF PollEnd, request, Sizes, Accounting
  <1>8. CASE PollError
    BY <1>0, <1>8 DEF PollError, request, Sizes, Accounting
  <1>9. CASE UNCHANGED vars
    BY <1>9 DEF vars, Sizes, Accounting
  <1> QED
    BY <1>1, <1>2, <1>3, <1>4, <1>5, <1>6, <1>7, <1>8, <1>9 DEF Next

LEMMA NextType == TypeOK /\ Books /\ [Next]_vars => TypeOK'
  <1> SUFFICES ASSUME TypeOK, Books, [Next]_vars PROVE TypeOK'  OBVIOUS
  <1>1. Sizes'  BY NextBooks DEF Books
  <1>2. UNCHANGED request
    BY DEF Next, Reject, WrapBody, PollAtLimit, PollPass, PollTruncate,
           PollTrailers, PollEnd, PollError, vars, request
  <1>3. trailers' = trailers \/ trailers' = TRUE
    BY DEF Next, Reject, WrapBody, PollAtLimit, PollPass, PollTruncate,
           PollTrailers, PollEnd, PollError, vars
  <1>4. trailers' \in BOOLEAN  BY <1>3, Zenon DEF TypeOK
  <1> QED  BY <1>1, <1>2, <1>4 DEF Sizes, TypeOK, request

LEMMA Bookkeeping == Spec => [](TypeOK /\ Books)
  BY InitType, InitBooks, NextType, NextBooks, PTL DEF Spec

\* apply_request_byte_limit and LimitedBody keep their values in u64.
THEOREM LimitTypeCorrect == Spec => []TypeOK
  BY Bookkeeping, PTL

LEMMA BooksBody == Books => BodyWithinLimit
  BY Words DEF Books, Sizes, Accounting, BodyWithinLimit, SaturatingSub, U64

\* LimitedBody never takes a request past max_tx_bytes.
THEOREM BodyStaysWithinLimit == Spec => []BodyWithinLimit
  BY Bookkeeping, BooksBody, PTL

LEMMA BooksWithheld == Books => NothingWithheld
  BY Words DEF Books, Sizes, Accounting, NothingWithheld, SaturatingSub, U64

\* LimitedBody holds back no byte that the limit has room for.
THEOREM TruncatesNoMoreThanItMust == Spec => []NothingWithheld
  BY Bookkeeping, BooksWithheld, PTL

LEMMA NextHints == Books /\ [Next]_vars => [HintStep]_vars
  <1> SUFFICES ASSUME Books, Next PROVE HintStep
    BY DEF vars
  <1> USE DEF Books
  <1>0. /\ limit \in Nat /\ header \in Nat /\ max \in Nat /\ length \in Int
        /\ transmitted \in Nat /\ received \in Nat /\ sent \in Nat
        /\ (length # Chunked => length \in Nat)
    BY Words DEF Sizes, U64
  <1>1. CASE Reject
    BY <1>0, <1>1 DEF Reject, HintStep
  <1>2. CASE WrapBody
    BY <1>0, <1>2 DEF WrapBody, HintStep
  <1>3. CASE PollAtLimit \/ PollTrailers \/ PollEnd \/ PollError
    <2>1. /\ UNCHANGED <<length, max, transmitted, received, sent>>
      BY <1>3 DEF PollAtLimit, PollTrailers, PollEnd, PollError, request
    <2>2. SizeHintUpper' = SizeHintUpper
      BY <2>1 DEF SizeHintUpper, SaturatingSub
    <2>3. SizeHintUpper \in Nat
      BY <1>0 DEF SizeHintUpper, SaturatingSub, Accounting
    <2> QED  BY <1>0, <2>1, <2>2, <2>3 DEF HintStep
  <1>4. CASE PollPass
    <2>1. PICK n \in 0..(BodyBound - received) :
             /\ transmitted + n <= max
             /\ received' = received + n
             /\ transmitted' = transmitted + n
             /\ sent' = sent + n
      BY <1>4 DEF PollPass
    <2>2. n \in Nat /\ (length # Chunked => received + n <= length)
      BY <1>0, <2>1 DEF BodyBound
    <2>3. max' = max /\ length' = length /\ transmitted < max /\ ~trailers
      BY <1>4 DEF PollPass, request
    <2>4. IsEndStream => n = 0
      BY <1>0, <2>2, <2>3 DEF IsEndStream, InnerEnd
    <2>5. n <= SizeHintUpper /\ SizeHintUpper' = SizeHintUpper - n
                            /\ SizeHintUpper \in Nat
      BY <1>0, <2>1, <2>2, <2>3 DEF SizeHintUpper, SaturatingSub
    <2> QED  BY <1>0, <2>1, <2>2, <2>4, <2>5 DEF HintStep
  <1>5. CASE PollTruncate
    <2>1. PICK n \in 0..(BodyBound - received) :
             /\ transmitted + n > max
             /\ received' = received + n
             /\ sent' = sent + (max - transmitted)
             /\ transmitted' = max
      BY <1>5 DEF PollTruncate
    <2>2. n \in Nat /\ (length # Chunked => received + n <= length)
      BY <1>0, <2>1 DEF BodyBound
    <2>3. max' = max /\ length' = length /\ transmitted < max /\ ~trailers
      BY <1>5 DEF PollTruncate, request
    <2>4. ~IsEndStream
      BY <1>0, <2>1, <2>2, <2>3 DEF IsEndStream, InnerEnd
    <2>5. SizeHintUpper = max - transmitted /\ SizeHintUpper' = 0
      BY <1>0, <2>1, <2>2, <2>3 DEF SizeHintUpper, SaturatingSub
    <2> QED  BY <1>0, <2>1, <2>3, <2>4, <2>5 DEF HintStep
  <1> QED  BY <1>1, <1>2, <1>3, <1>4, <1>5 DEF Next

\* What LimitedBody tells hyper about the rest of a body stays true.
THEOREM HintsAreKept == Spec => HintsKept
  <1>1. Books /\ [Next]_vars => [HintStep]_vars
    BY NextHints
  <1> QED
    BY <1>1, Bookkeeping, PTL DEF Spec, HintsKept

-----------------------------------------------------------------------------
(* Requests whose sizes leave the sum of header and length within a u64.   *)

NoWrap == length # Chunked => header + length < Word

LEMMA UnwrappedSum ==
    ASSUME Sizes, NoWrap, length # Chunked
    PROVE  TotalSize = header + length
  BY Words DEF TotalSize, NoWrap

LEMMA NextOversized ==
    Sizes /\ NoWrap /\ OversizedIsRejected /\ [Next]_vars => OversizedIsRejected'
  <1> SUFFICES ASSUME Sizes, NoWrap, OversizedIsRejected, [Next]_vars
               PROVE  OversizedIsRejected'
    OBVIOUS
  <1>1. UNCHANGED request
    BY DEF Next, Reject, WrapBody, PollAtLimit, PollPass, PollTruncate,
           PollTrailers, PollEnd, PollError, vars, request
  <1>2. CASE WrapBody
    <2>1. length # Chunked => TotalSize = header + length  BY UnwrappedSum
    <2> QED  BY <1>1, <1>2, <2>1 DEF WrapBody, OversizedIsRejected, request
  <1>3. CASE Reject  BY <1>3 DEF Reject, OversizedIsRejected
  <1>4. CASE phase = "stream" \/ UNCHANGED vars
    BY <1>1, <1>4 DEF OversizedIsRejected, request, vars
  <1> QED
    BY <1>2, <1>3, <1>4
    DEF Next, PollAtLimit, PollPass, PollTruncate, PollTrailers, PollEnd,
        PollError

\* A request whose Content-Length takes it past max_tx_bytes is answered 413
\* before anything goes upstream, unless the sum with the header size wraps.
THEOREM OversizedRejected ==
    ASSUME \A h \in HeaderSizes, l \in Lengths : h + l < Word
    PROVE  Spec => []OversizedIsRejected
  <1>1. Init => OversizedIsRejected  BY DEF Init, OversizedIsRejected
  <1>2. TypeOK => NoWrap  BY DEF TypeOK, NoWrap
  <1>3. Books => Sizes  BY DEF Books
  <1> QED  BY <1>1, <1>2, <1>3, NextOversized, Bookkeeping, PTL DEF Spec
=============================================================================
