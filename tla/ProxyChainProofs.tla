-------------------------- MODULE ProxyChainProofs --------------------------
(* Proofs about ProxyChain, for any number of instances and hosts, any rules *)
(* and any routes.                                                           *)
EXTENDS ProxyChain, FiniteSetTheorems, SequenceTheorems, TLAPS

LEMMA FullUrlType == TypeOK => FullUrl \in Hosts
  BY DEF TypeOK, FullUrl

\* The instances that still wait once the last one has passed the response on.
LEMMA AllButLast ==
    ASSUME NEW s \in Seq(Instances), s # <<>>
    PROVE  /\ SubSeq(s, 1, Len(s) - 1) \in Seq(Instances)
           /\ Len(SubSeq(s, 1, Len(s) - 1)) = Len(s) - 1
           /\ \A n \in 1..(Len(s) - 1) : SubSeq(s, 1, Len(s) - 1)[n] = s[n]
  <1> DEFINE m == Len(s) - 1
  <1>1. Len(s) \in Nat /\ Len(s) # 0  BY EmptySeq
  <1>2. m \in Nat /\ 1 \in Int /\ m \in Int  BY <1>1
  <1>3. \A n \in 1..m : s[n] \in Instances  BY <1>1
  <1> HIDE DEF m
  <1>4. /\ SubSeq(s, 1, m) \in Seq(Instances)
        /\ Len(SubSeq(s, 1, m)) = IF 1 <= m THEN m - 1 + 1 ELSE 0
        /\ \A n \in 1..(m - 1 + 1) : SubSeq(s, 1, m)[n] = s[1 + n - 1]
    BY <1>2, <1>3, SubSeqProperties
  <1>5. m - 1 + 1 = m /\ (~ 1 <= m => m = 0)  BY <1>2
  <1>6. \A n \in 1..m : 1 + n - 1 = n  BY <1>2
  <1> QED  BY <1>4, <1>5, <1>6 DEF m

LEMMA Answered ==
    ASSUME TypeOK, NEW code \in Statuses, Answer(code)
    PROVE  TypeOK' /\ status' # 0 /\ at' \in Instances \cup {Client}
  <1>1. hops \in Seq(Instances) /\ Len(hops) \in Nat  BY DEF TypeOK
  <1>2. hops # <<>> => Len(hops) \in 1..Len(hops)  BY <1>1
  <1>3. at' \in Instances \cup {Client}  BY <1>1, <1>2 DEF Answer
  <1>4. status' # 0  BY DEF Answer, Statuses
  <1> QED  BY <1>3, <1>4 DEF Answer, TypeOK, Places, message

LEMMA NextType == TypeOK /\ [Next]_vars => TypeOK'
  <1> SUFFICES ASSUME TypeOK, [Next]_vars PROVE TypeOK'  OBVIOUS
  <1>1. ASSUME NEW i \in Instances, InstanceStep(i) PROVE TypeOK'
    <2>1. CASE LoopDetected(i) \/ Denied(i) \/ TooLarge(i) \/ ConnectFails(i)
      BY <2>1, Answered
      DEF LoopDetected, Denied, TooLarge, ConnectFails, Statuses
    <2>2. CASE Forward(i)
      <3>1. FullUrl \in Hosts  BY FullUrlType
      <3>2. hops' \in Seq(Instances) /\ Len(hops') = Len(hops) + 1
            /\ Len(hops) \in Nat /\ Len(hops) < MaxHops
        BY <2>2 DEF Forward, TypeOK
      <3>3. Len(hops') <= MaxHops  BY <3>2, ConstantsAssumption
      <3>4. lines' \subseteq SUBSET Instances
        <4> DEFINE appended == lines \cup {{i}}
        <4>1. lines' = appended \/ lines' = {UNION appended}
          BY <2>2 DEF Forward, PrepareUpstream
        <4>2. \A l \in appended : l \subseteq Instances  BY DEF TypeOK
        <4>3. UNION appended \subseteq Instances  BY <4>2
        <4> QED  BY <4>1, <4>2, <4>3
      <3>5. at' \in Instances \cup {Origin}
        BY <2>2, <3>1 DEF Forward, TypeOK
      <3> QED
        BY <2>2, <3>1, <3>2, <3>3, <3>4, <3>5
        DEF Forward, PrepareUpstream, TypeOK, Places
    <2> QED  BY <1>1, <2>1, <2>2 DEF InstanceStep
  <1>2. CASE OriginAnswers  BY <1>2, Answered DEF OriginAnswers, Statuses
  <1>3. CASE PassBack
    <2> DEFINE rest == SubSeq(hops, 1, Len(hops) - 1)
    <2>1. hops \in Seq(Instances) /\ hops # <<>> /\ Len(hops) \in Nat
          /\ Len(hops) <= MaxHops /\ MaxHops \in Nat
      BY <1>3, ConstantsAssumption DEF PassBack, TypeOK
    <2>2. rest \in Seq(Instances) /\ Len(rest) = Len(hops) - 1
      BY <2>1, AllButLast
    <2>3. rest # <<>> => rest[Len(rest)] \in Instances  BY <2>1, <2>2
    <2>4. hops' = rest /\ at' = IF rest = <<>> THEN Client ELSE rest[Len(rest)]
      BY <1>3 DEF PassBack
    <2> HIDE DEF rest
    <2>5. hops' \in Seq(Instances) /\ Len(hops') <= MaxHops /\ at' \in Places
      BY <2>1, <2>2, <2>3, <2>4 DEF Places
    <2> QED  BY <1>3, <2>5 DEF PassBack, TypeOK, message
  <1>4. CASE UNCHANGED vars  BY <1>4 DEF vars, TypeOK
  <1> QED  BY <1>1, <1>2, <1>3, <1>4 DEF Next

LEMMA InitType == Init => TypeOK
  BY ConstantsAssumption DEF Init, TypeOK, Places

\* Requests and responses keep their types and no chain outgrows its bound.
THEOREM TypeCorrect == Spec => []TypeOK
  BY InitType, NextType, PTL DEF Spec

-----------------------------------------------------------------------------
(* What reaches an origin server.                                           *)

\* A request under way: whoever forwarded it allowed the host that it names
\* throughout, and has sent it where the host's address leads.
UnderWay ==
    /\ host = peer /\ uri = None
    /\ \A n \in 1..Len(hops) : host \in Allowed[hops[n]]
    /\ \A n \in 1..(Len(hops) - 1) : route[hops[n]][host] = hops[n + 1]
    /\ at = route[hops[Len(hops)]][host]

\* Only requests reach an origin server, and only through an instance.
Course ==
    /\ status = 0 /\ hops # <<>> => UnderWay
    /\ at = Origin => status = 0 /\ hops # <<>>

LEMMA InitCourse == Init => Course
  BY NamesAssumption DEF Init, Course

LEMMA NextCourse == TypeOK /\ Course /\ [Next]_vars => Course'
  <1> SUFFICES ASSUME TypeOK, Course, [Next]_vars PROVE Course'  OBVIOUS
  <1>0. Origin \notin Instances /\ Origin # Client
    BY NamesAssumption DEF Origin, Client
  <1>1. ASSUME NEW code \in Statuses, Answer(code) PROVE Course'
    BY <1>0, <1>1, Answered DEF Course
  <1>2. ASSUME NEW i \in Instances, InstanceStep(i) PROVE Course'
    <2>1. CASE LoopDetected(i) \/ Denied(i) \/ TooLarge(i) \/ ConnectFails(i)
      BY <1>1, <2>1 DEF LoopDetected, Denied, TooLarge, ConnectFails, Statuses
    <2>2. CASE Forward(i)
      <3> DEFINE u == FullUrl
      <3>1. hops \in Seq(Instances) /\ Len(hops) \in Nat  BY DEF TypeOK
      <3>2. /\ at = i /\ status = 0 /\ status' = 0 /\ u \in Allowed[i]
            /\ host' = u /\ peer' = u /\ uri' = None /\ route' = route
            /\ at' = route[i][u] /\ hops' = Append(hops, i)
        BY <2>2 DEF Forward, PrepareUpstream, Holds
      <3>3. /\ Len(hops') = Len(hops) + 1 /\ hops'[Len(hops) + 1] = i
            /\ \A n \in 1..Len(hops) : hops'[n] = hops[n]
        BY <3>1, <3>2
      <3>4. hops # <<>> => UnderWay /\ u = host
        BY <3>2, ConstantsAssumption DEF Course, UnderWay, FullUrl
      <3> HIDE DEF u
      <3>5. \A n \in 1..Len(hops') : host' \in Allowed[hops'[n]]
        <4> SUFFICES ASSUME NEW n \in 1..Len(hops')
                     PROVE  u \in Allowed[hops'[n]]
          BY <3>2
        <4>1. CASE n = Len(hops) + 1  BY <3>2, <3>3, <4>1
        <4>2. CASE n # Len(hops) + 1
          <5>1. n \in 1..Len(hops) /\ hops # <<>>  BY <3>1, <3>3, <4>2
          <5> QED  BY <3>3, <3>4, <5>1 DEF UnderWay
        <4> QED  BY <4>1, <4>2
      <3>6. \A n \in 1..(Len(hops') - 1) : route'[hops'[n]][host'] = hops'[n + 1]
        <4> SUFFICES ASSUME NEW n \in 1..Len(hops)
                     PROVE  route[hops[n]][u] = hops'[n + 1]
          BY <3>1, <3>2, <3>3
        <4>1. hops # <<>>  BY <3>1
        <4>2. UnderWay /\ u = host  BY <3>4, <4>1
        <4>3. CASE n = Len(hops)
          BY <3>2, <3>3, <4>2, <4>3 DEF UnderWay
        <4>4. CASE n # Len(hops)
          <5>1. n \in 1..(Len(hops) - 1) /\ n + 1 \in 1..Len(hops)
            BY <3>1, <4>4
          <5> QED  BY <3>3, <4>2, <5>1 DEF UnderWay
        <4> QED  BY <4>3, <4>4
      <3>7. UnderWay'  BY <3>2, <3>3, <3>5, <3>6 DEF UnderWay
      <3>8. hops' # <<>>  BY <3>1, <3>3
      <3> QED  BY <3>2, <3>7, <3>8 DEF Course
    <2> QED  BY <1>2, <2>1, <2>2 DEF InstanceStep
  <1>3. CASE OriginAnswers  BY <1>1, <1>3 DEF OriginAnswers, Statuses
  <1>4. CASE PassBack
    <2> DEFINE rest == SubSeq(hops, 1, Len(hops) - 1)
    <2>1. hops \in Seq(Instances) /\ hops # <<>> /\ Len(hops) \in Nat
      BY <1>4 DEF PassBack, TypeOK
    <2>2. rest # <<>> => rest[Len(rest)] \in Instances  BY <2>1
    <2>3. at' = IF rest = <<>> THEN Client ELSE rest[Len(rest)]
      BY <1>4 DEF PassBack
    <2> HIDE DEF rest
    <2>4. at' # Origin  BY <1>0, <2>2, <2>3
    <2>5. status' # 0  BY <1>4 DEF PassBack
    <2> QED  BY <2>4, <2>5 DEF Course
  <1>5. CASE UNCHANGED vars  BY <1>5 DEF vars, Course, UnderWay
  <1> QED  BY <1>2, <1>3, <1>4, <1>5 DEF Next

\* Whatever Host header and URI the client combined, and whatever instances the
\* routes lead through: what an origin server gets was allowed, for the host in
\* its Host header, by every instance on the way.
THEOREM OriginsGetWhatWasAllowed == Spec => []OriginGetsWhatWasAllowed
  <1>1. TypeOK /\ Course /\ [Next]_vars => (TypeOK /\ Course)'
    BY NextType, NextCourse
  <1>2. Course => OriginGetsWhatWasAllowed
    BY DEF Course, UnderWay, OriginGetsWhatWasAllowed
  <1> QED  BY <1>1, <1>2, InitType, InitCourse, PTL DEF Spec

-----------------------------------------------------------------------------
(* Loops.                                                                   *)

\* Whoever forwarded the request is named by some line of its loop header; the
\* lines are finite, as long as nobody joined two of them each names one
\* instance, and then no instance forwarded the request twice.
Marked ==
    /\ IsFiniteSet(lines) /\ \A l \in lines : IsFiniteSet(l)
    /\ \A n \in 1..Len(hops) : hops[n] \in UNION lines
    /\ PlainLoopsBroken

Singles == \A l \in lines : Cardinality(l) = 1

LEMMA InitMarked == Init => Marked
  BY FS_EmptySet DEF Init, Marked, PlainLoopsBroken, NoInstanceTwice

LEMMA SingleLine ==
    ASSUME NEW l, IsFiniteSet(l), Cardinality(l) = 1
    PROVE  \E x : l = {x}
  BY FS_Singleton

LEMMA NextMarked == TypeOK /\ Marked /\ [Next]_vars => Marked'
  <1> SUFFICES ASSUME TypeOK, Marked, [Next]_vars PROVE Marked'  OBVIOUS
  <1>0. hops \in Seq(Instances) /\ Len(hops) \in Nat  BY DEF TypeOK
  <1>1. CASE UNCHANGED <<scheme, lines, hops>>
    BY <1>1 DEF Marked, PlainLoopsBroken, NoInstanceTwice
  <1>2. ASSUME NEW i \in Instances, Forward(i) PROVE Marked'
    <2> DEFINE appended == lines \cup {{i}}
    <2>1. /\ hops' = Append(hops, i) /\ ~LoopSeen(i) /\ scheme' = scheme
          /\ lines' = appended \/ lines' = {UNION appended}
      BY <1>2 DEF Forward, PrepareUpstream
    <2>2. /\ Len(hops') = Len(hops) + 1 /\ hops'[Len(hops) + 1] = i
          /\ \A n \in 1..Len(hops) : hops'[n] = hops[n]
      BY <1>0, <2>1
    <2>3. IsFiniteSet({i})  BY FS_Singleton
    <2>4. IsFiniteSet(appended) /\ \A l \in appended : IsFiniteSet(l)
      BY <2>3, FS_AddElement DEF Marked
    <2>5. IsFiniteSet(UNION appended)  BY <2>4, FS_UNION
    <2>6. IsFiniteSet({UNION appended})  BY FS_Singleton
    <2>7. IsFiniteSet(lines') /\ \A l \in lines' : IsFiniteSet(l)
      BY <2>1, <2>4, <2>5, <2>6
    <2>8. UNION lines' = (UNION lines) \cup {i}
      <3>1. UNION appended = (UNION lines) \cup {i}  OBVIOUS
      <3> HIDE DEF appended
      <3>2. UNION {UNION appended} = UNION appended  OBVIOUS
      <3> QED  BY <2>1, <3>1, <3>2
    <2>9. \A n \in 1..Len(hops') : n \in 1..Len(hops) \/ n = Len(hops) + 1
      BY <1>0, <2>2
    <2>10. \A n \in 1..Len(hops') : hops'[n] \in UNION lines'
      BY <2>2, <2>8, <2>9 DEF Marked
    <2>11. ASSUME scheme = "http", Singles' PROVE NoInstanceTwice'
      <3>1. {i} \notin lines  BY <2>1, <2>11 DEF LoopSeen
      <3>2. \A l \in lines' : \E x : l = {x}
        BY <2>7, <2>11, SingleLine DEF Singles
      <3>3. CASE lines' = appended
        <4>1. i \notin UNION lines  BY <3>1, <3>2, <3>3
        <4>2. Singles  BY <2>11, <3>3 DEF Singles
        <4>3. NoInstanceTwice
          BY <2>11, <4>2 DEF Marked, PlainLoopsBroken, Singles
        <4>4. \A n \in 1..Len(hops) : hops[n] # i  BY <4>1 DEF Marked
        <4> QED  BY <2>2, <2>9, <4>3, <4>4 DEF NoInstanceTwice
      <3>4. CASE lines' = {UNION appended}
        <4>1. PICK x : UNION appended = {x}  BY <3>2, <3>4
        <4>2. x = i  BY <4>1
        <4>3. UNION lines = {}
          <5>1. \A l \in lines : l \subseteq {i}  BY <4>1, <4>2
          <5>2. \A l \in lines : l = {}  BY <3>1, <5>1
          <5> QED  BY <5>2
        <4>4. Len(hops) = 0  BY <1>0, <4>3 DEF Marked
        <4> QED  BY <2>2, <4>4 DEF NoInstanceTwice
      <3> QED  BY <2>1, <3>3, <3>4
    <2> QED
      BY <2>1, <2>7, <2>10, <2>11 DEF Marked, PlainLoopsBroken, Singles
  <1>3. CASE PassBack
    <2> DEFINE rest == SubSeq(hops, 1, Len(hops) - 1)
    <2>1. hops' = rest /\ hops # <<>> /\ UNCHANGED <<scheme, lines>>
      BY <1>3 DEF PassBack, message
    <2>2. Len(rest) = Len(hops) - 1 /\ \A n \in 1..Len(rest) : rest[n] = hops[n]
      BY <1>0, <2>1, AllButLast
    <2> HIDE DEF rest
    <2>3. \A n \in 1..Len(hops') : n \in 1..Len(hops) /\ hops'[n] = hops[n]
      BY <1>0, <2>1, <2>2
    <2>4. NoInstanceTwice => NoInstanceTwice'  BY <2>3 DEF NoInstanceTwice
    <2> QED  BY <2>1, <2>3, <2>4 DEF Marked, PlainLoopsBroken
  <1>4. ASSUME NEW i \in Instances, InstanceStep(i) PROVE Marked'
    BY <1>1, <1>2, <1>4
    DEF InstanceStep, LoopDetected, Denied, TooLarge, ConnectFails, Answer,
        message
  <1>5. CASE OriginAnswers \/ UNCHANGED vars
    BY <1>1, <1>5 DEF OriginAnswers, Answer, message, vars
  <1> QED  BY <1>3, <1>4, <1>5 DEF Next

\* For any routes between any number of instances, a plain HTTP request goes
\* round no loop, as long as nobody joined the lines of two nonces.
THEOREM LoopsAreBroken == Spec => []PlainLoopsBroken
  <1>1. TypeOK /\ Marked /\ [Next]_vars => (TypeOK /\ Marked)'
    BY NextType, NextMarked
  <1>2. Marked => PlainLoopsBroken  BY DEF Marked
  <1> QED  BY <1>1, <1>2, InitType, InitMarked, PTL DEF Spec

LEMMA NextSingles ==
    ASSUME Combining = FALSE
    PROVE  Singles /\ [Next]_vars => Singles'
  <1> SUFFICES ASSUME Singles, [Next]_vars PROVE Singles'  OBVIOUS
  <1>1. ASSUME NEW i \in Instances, Forward(i) PROVE Singles'
    <2>1. lines' = lines \cup {{i}}  BY <1>1 DEF Forward, PrepareUpstream
    <2>2. Cardinality({i}) = 1  BY FS_Singleton
    <2> QED  BY <2>1, <2>2 DEF Singles
  <1>2. CASE UNCHANGED lines  BY <1>2 DEF Singles
  <1> QED
    BY <1>1, <1>2
    DEF Next, InstanceStep, LoopDetected, Denied, TooLarge, ConnectFails,
        OriginAnswers, PassBack, Answer, message, vars

\* Nobody joins header lines and the requests are plain HTTP: then the nonces
\* keep every instance from forwarding a request twice.
THEOREM UnjoinedNoncesBreakLoops ==
    ASSUME Combining = FALSE, Schemes = {"http"}
    PROVE  Spec => []NoInstanceTwice
  <1>1. Init => Singles  BY DEF Init, Singles
  <1>2. TypeOK /\ Marked /\ [Next]_vars => (TypeOK /\ Marked)'
    BY NextType, NextMarked
  <1>3. TypeOK /\ Marked /\ Singles => NoInstanceTwice
    BY DEF TypeOK, Marked, Singles, PlainLoopsBroken
  <1> QED
    BY <1>1, <1>2, <1>3, InitType, InitMarked, NextSingles, PTL DEF Spec
=============================================================================
