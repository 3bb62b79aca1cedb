--------------------------- MODULE CaStoreProofs ---------------------------
(* Proofs about CaStore and HostCertificates, for any number of processes   *)
(* and handlers and any size of cache.  The safety theorems take Overlap =   *)
(* FALSE: two processes that generate a CA at the same time refute them.     *)
EXTENDS HostCertificates, TLAPS

\* At most one process is starting.
OneStarts ==
    \A p, q \in Procs : pc[p] \in Starting /\ pc[q] \in Starting => p = q

\* A key that is complete is that of the certificate beside it.
PairMatches == keyFile \in Procs => certFile = keyFile

\* Whoever serves does so with the pair on disk, which is complete.
ServesPair ==
    \A p \in Procs :
        pc[p] = "serving" => ca[p] = certFile /\ keyFile = certFile /\ keyFile \in Procs

\* Whoever writes a pair found no key and leaves none until its last step.
WritesFirstKey ==
    \A p \in Procs :
        /\ pc[p] \in {"generate", "fillCert", "writeKey", "fillKey"}
           => keyFile \notin Procs
        /\ pc[p] \in {"fillCert", "writeKey", "fillKey"} => ca[p] = p
        /\ pc[p] \in {"writeKey", "fillKey"} => certFile = p

IInv == TypeOK /\ OneStarts /\ PairMatches /\ ServesPair /\ WritesFirstKey

LEMMA InitType == Init => TypeOK
  BY ConstantsAssumption DEF Init, TypeOK, Files

LEMMA NextType == TypeOK /\ [Next]_vars => TypeOK'
  <1> SUFFICES ASSUME TypeOK, [Next]_vars PROVE TypeOK'  OBVIOUS
  <1> USE ConstantsAssumption DEF TypeOK, Files, Starting, Goto
  <1>1. ASSUME NEW p \in Procs, Step(p) PROVE TypeOK'
    <2>1. CASE CheckCert(p)  BY <2>1 DEF CheckCert
    <2>2. CASE CheckKey(p)  BY <2>2 DEF CheckKey
    <2>3. CASE Load(p)  BY <2>3 DEF Load
    <2>4. CASE Generate(p)  BY <2>4 DEF Generate
    <2>5. CASE FillCert(p)  BY <2>5 DEF FillCert
    <2>6. CASE TruncateKey(p)  BY <2>6 DEF TruncateKey
    <2>7. CASE FillKey(p)  BY <2>7 DEF FillKey
    <2>8. CASE End(p)  BY <2>8 DEF End
    <2> QED  BY <1>1, <2>1, <2>2, <2>3, <2>4, <2>5, <2>6, <2>7, <2>8 DEF Step
  <1>2. CASE UNCHANGED vars  BY <1>2 DEF vars
  <1> QED  BY <1>1, <1>2 DEF Next

\* The files and the processes keep their types: no process ever signs with
\* what another left of a key, overlapping starts included.
THEOREM TypeCorrect == Spec => []TypeOK
  BY InitType, NextType, PTL DEF Spec

LEMMA InitIInv == Init => IInv
  <1> SUFFICES ASSUME Init PROVE IInv  OBVIOUS
  <1>1. TypeOK  BY InitType
  <1>2. OneStarts /\ PairMatches /\ ServesPair /\ WritesFirstKey
    BY ConstantsAssumption
    DEF Init, OneStarts, PairMatches, ServesPair, WritesFirstKey, Starting
  <1> QED  BY <1>1, <1>2 DEF IInv

\* A process that starts finds nobody else starting; if it comes to write, no
\* key is there and so nobody serves.
LEMMA NextIInv ==
    ASSUME Overlap = FALSE, IInv, [Next]_vars
    PROVE  IInv'
  <1>0. TypeOK'  BY NextType DEF IInv
  <1> USE ConstantsAssumption
      DEF IInv, TypeOK, Files, Starting, Goto, OneStarts, PairMatches,
          ServesPair, WritesFirstKey
  <1>1. ASSUME NEW p \in Procs, Step(p) PROVE IInv'
    <2>1. CASE CheckCert(p)  BY <1>0, <2>1 DEF CheckCert, MayStart
    <2>2. CASE CheckKey(p)  BY <1>0, <2>2 DEF CheckKey
    <2>3. CASE Load(p)  BY <1>0, <2>3 DEF Load
    <2>4. CASE Generate(p)
      <3>1. keyFile \notin Procs /\ keyFile' = keyFile  BY <2>4 DEF Generate
      <3>2. \A q \in Procs : pc[q] # "serving" /\ pc'[q] # "serving"
        BY <2>4, <3>1 DEF Generate
      <3>3. OneStarts'  BY <2>4 DEF Generate
      <3>4. WritesFirstKey'  BY <2>4, <3>1 DEF Generate
      <3> QED  BY <1>0, <3>1, <3>2, <3>3, <3>4
    <2>5. CASE FillCert(p)
      <3>1. keyFile \notin Procs /\ keyFile' = keyFile  BY <2>5 DEF FillCert
      <3>2. \A q \in Procs : pc[q] # "serving" /\ pc'[q] # "serving"
        BY <2>5, <3>1 DEF FillCert
      <3>3. OneStarts'  BY <2>5 DEF FillCert
      <3>4. WritesFirstKey'  BY <2>5, <3>1 DEF FillCert
      <3> QED  BY <1>0, <3>1, <3>2, <3>3, <3>4
    <2>6. CASE TruncateKey(p)
      <3>1. keyFile \notin Procs /\ keyFile' \notin Procs  BY <2>6 DEF TruncateKey
      <3>2. \A q \in Procs : pc[q] # "serving" /\ pc'[q] # "serving"
        BY <2>6, <3>1 DEF TruncateKey
      <3>3. OneStarts'  BY <2>6 DEF TruncateKey
      <3>4. WritesFirstKey'  BY <2>6, <3>1 DEF TruncateKey
      <3> QED  BY <1>0, <3>1, <3>2, <3>3, <3>4
    <2>7. CASE FillKey(p)  BY <1>0, <2>7 DEF FillKey
    <2>8. CASE End(p)  BY <1>0, <2>8 DEF End
    <2> QED  BY <1>1, <2>1, <2>2, <2>3, <2>4, <2>5, <2>6, <2>7, <2>8 DEF Step
  <1>2. CASE UNCHANGED vars  BY <1>0, <1>2 DEF vars
  <1> QED  BY <1>1, <1>2 DEF Next

LEMMA Invariance ==
    ASSUME Overlap = FALSE
    PROVE  Spec => []IInv
  <1>1. IInv /\ [Next]_vars => IInv'
    BY NextIInv
  <1> QED  BY InitIInv, <1>1, PTL DEF Spec

LEMMA IInvTrusted == IInv => SigningCaTrusted
  BY DEF IInv, ServesPair, SigningCaTrusted, TrustedCa

\* The tools in every jail trust the CA that signs for them, whatever crashes
\* preceded.
THEOREM ServedCaIsTrusted ==
    ASSUME Overlap = FALSE
    PROVE  Spec => []SigningCaTrusted
  BY Invariance, IInvTrusted, PTL

LEMMA NextKeepsPair == IInv /\ [Next]_vars => [PairKept]_vars
  <1> SUFFICES ASSUME IInv, NEW p \in Procs, Step(p), keyFile \in Procs
               PROVE  UNCHANGED <<certFile, keyFile>>
    BY DEF PairKept, Next
  <1>1. pc[p] \notin {"generate", "fillCert", "writeKey", "fillKey"}
    BY DEF IInv, WritesFirstKey
  <1> QED
    BY <1>1
    DEF Step, CheckCert, CheckKey, Load, Generate, FillCert, TruncateKey,
        FillKey, End

\* A complete pair is never replaced.
THEOREM PairIsKept ==
    ASSUME Overlap = FALSE
    PROVE  Spec => CaNeverReplaced
  <1>1. IInv /\ [Next]_vars => [PairKept]_vars
    BY NextKeepsPair
  <1> QED  BY <1>1, Invariance, PTL DEF Spec, CaNeverReplaced

-----------------------------------------------------------------------------
(* The LRU cache.                                                           *)

\* What is taken out of a cache leaves a cache, of other hosts and of entries
\* that were there.
LEMMA OthersOfCache ==
    ASSUME NEW s, IsCache(s), NEW h
    PROVE  /\ IsCache(Others(s, h))
           /\ \A m \in 1..Len(Others(s, h)) :
                /\ Others(s, h)[m].host # h
                /\ \E n \in 1..Len(s) : Others(s, h)[m] = s[n]
           /\ (\E n \in 1..Len(s) : s[n].host = h)
              => Len(Others(s, h)) = Len(s) - 1
  <1>1. s \in Seq(Chains) /\ Len(s) \in Nat /\ Len(s) <= CacheSize
        /\ \A m, n \in 1..Len(s) : s[m].host = s[n].host => m = n
    BY DEF IsCache
  <1>2. CASE ~\E n \in 1..Len(s) : s[n].host = h
    BY <1>1, <1>2 DEF Others, IsCache
  <1>3. CASE \E n \in 1..Len(s) : s[n].host = h
    <2> DEFINE k == CHOOSE n \in 1..Len(s) : s[n].host = h
               o == [m \in 1..(Len(s) - 1) |-> IF m < k THEN s[m] ELSE s[m + 1]]
    <2>1. k \in 1..Len(s) /\ s[k].host = h  BY <1>3
    <2>2. Others(s, h) = o  BY <1>3 DEF Others
    <2> HIDE DEF k
    <2>3. Len(s) - 1 \in Nat  BY <1>1, <2>1
    <2>4. \A m \in 1..(Len(s) - 1) : o[m] \in Chains  BY <1>1, <2>1
    <2>5. o \in Seq(Chains) /\ Len(o) = Len(s) - 1
      BY <2>3, <2>4
    <2>6. \A m \in 1..Len(o) : \E n \in 1..Len(s) : n # k /\ o[m] = s[n]
      BY <1>1, <2>1, <2>5
    <2>7. \A m, n \in 1..Len(o) : o[m].host = o[n].host => m = n
      BY <1>1, <2>1, <2>5
    <2>8. \A m \in 1..Len(o) : o[m].host # h
      BY <1>1, <2>1, <2>6
    <2> HIDE DEF o
    <2>9. IsCache(o)  BY <1>1, <2>3, <2>5, <2>7, CertificateAssumption DEF IsCache
    <2> QED  BY <2>2, <2>5, <2>6, <2>8, <2>9
  <1> QED  BY <1>2, <1>3

LEMMA AppendToCache ==
    ASSUME NEW s, IsCache(s), NEW c \in Chains,
           \A m \in 1..Len(s) : s[m].host # c.host
    PROVE  /\ Append(s, c) \in Seq(Chains) /\ Len(Append(s, c)) = Len(s) + 1
           /\ \A m \in 1..Len(s) : Append(s, c)[m] = s[m]
           /\ Append(s, c)[Len(s) + 1] = c
           /\ \A m, n \in 1..Len(Append(s, c)) :
                Append(s, c)[m].host = Append(s, c)[n].host => m = n
  <1>1. s \in Seq(Chains) /\ Len(s) \in Nat
        /\ \A m, n \in 1..Len(s) : s[m].host = s[n].host => m = n
    BY DEF IsCache
  <1>2. /\ Append(s, c) \in Seq(Chains) /\ Len(Append(s, c)) = Len(s) + 1
        /\ \A m \in 1..Len(s) : Append(s, c)[m] = s[m]
        /\ Append(s, c)[Len(s) + 1] = c
    BY <1>1
  <1>3. \A m \in 1..(Len(s) + 1) : m \in 1..Len(s) \/ m = Len(s) + 1
    BY <1>1
  <1> QED  BY <1>1, <1>2, <1>3

\* get of an entry and put keep the cache one, with no entry but the old ones
\* and the one that was put.
LEMMA CacheGet ==
    ASSUME NEW s, IsCache(s), NEW k \in 1..Len(s)
    PROVE  /\ IsCache(Append(Others(s, s[k].host), s[k]))
           /\ \A m \in 1..Len(Append(Others(s, s[k].host), s[k])) :
                \E n \in 1..Len(s) :
                  Append(Others(s, s[k].host), s[k])[m] = s[n]
  <1> DEFINE o == Others(s, s[k].host)
  <1>1. s[k] \in Chains /\ Len(s) \in Nat  BY DEF IsCache
  <1>2. /\ IsCache(o) /\ Len(o) = Len(s) - 1
        /\ \A m \in 1..Len(o) : o[m].host # s[k].host
        /\ \A m \in 1..Len(o) : \E n \in 1..Len(s) : o[m] = s[n]
    BY OthersOfCache
  <1> HIDE DEF o
  <1>3. /\ Append(o, s[k]) \in Seq(Chains) /\ Len(Append(o, s[k])) = Len(o) + 1
        /\ \A m \in 1..Len(o) : Append(o, s[k])[m] = o[m]
        /\ Append(o, s[k])[Len(o) + 1] = s[k]
        /\ \A m, n \in 1..Len(Append(o, s[k])) :
             Append(o, s[k])[m].host = Append(o, s[k])[n].host => m = n
    BY <1>1, <1>2, AppendToCache
  <1>4. Len(Append(o, s[k])) = Len(s) /\ Len(s) <= CacheSize
    BY <1>1, <1>2, <1>3 DEF IsCache
  <1>5. IsCache(Append(o, s[k]))  BY <1>3, <1>4 DEF IsCache
  <1>6. ASSUME NEW m \in 1..Len(Append(o, s[k]))
        PROVE  \E n \in 1..Len(s) : Append(o, s[k])[m] = s[n]
    <2>1. m \in 1..Len(o) \/ m = Len(o) + 1  BY <1>1, <1>2, <1>3
    <2> QED  BY <1>2, <1>3, <2>1
  <1> QED  BY <1>5, <1>6 DEF o

LEMMA CachePut ==
    ASSUME NEW s, IsCache(s), NEW c \in Chains
    PROVE  /\ IsCache(Pushed(s, c))
           /\ \A m \in 1..Len(Pushed(s, c)) :
                Pushed(s, c)[m] = c \/ \E n \in 1..Len(s) : Pushed(s, c)[m] = s[n]
  <1> DEFINE o == Others(s, c.host)
             a == Append(o, c)
  <1>1. /\ IsCache(o)
        /\ \A m \in 1..Len(o) : o[m].host # c.host
        /\ \A m \in 1..Len(o) : \E n \in 1..Len(s) : o[m] = s[n]
    BY OthersOfCache
  <1>2. Pushed(s, c) = IF Len(a) > CacheSize THEN Tail(a) ELSE a  BY DEF Pushed
  <1> HIDE DEF o
  <1>3. /\ a \in Seq(Chains) /\ Len(a) = Len(o) + 1
        /\ \A m \in 1..Len(o) : a[m] = o[m]
        /\ a[Len(o) + 1] = c
        /\ \A m, n \in 1..Len(a) : a[m].host = a[n].host => m = n
    BY <1>1, AppendToCache
  <1>4. Len(o) \in Nat /\ Len(o) <= CacheSize /\ CacheSize \in Nat
    BY <1>1, CertificateAssumption DEF IsCache
  <1> HIDE DEF a
  <1>5. \A m \in 1..Len(a) : a[m] = c \/ \E n \in 1..Len(s) : a[m] = s[n]
    <2> SUFFICES ASSUME NEW m \in 1..Len(a)
                 PROVE  a[m] = c \/ \E n \in 1..Len(s) : a[m] = s[n]
      OBVIOUS
    <2>1. m \in 1..Len(o) \/ m = Len(o) + 1  BY <1>3, <1>4
    <2> QED  BY <1>1, <1>3, <2>1
  <1>6. CASE Len(a) <= CacheSize
    <2>1. Pushed(s, c) = a  BY <1>2, <1>3, <1>4, <1>6
    <2> QED  BY <1>3, <1>5, <1>6, <2>1 DEF IsCache
  <1>7. CASE Len(a) > CacheSize
    <2>1. Pushed(s, c) = Tail(a)  BY <1>2, <1>7
    <2>2. /\ Tail(a) \in Seq(Chains) /\ Len(Tail(a)) = Len(a) - 1
          /\ \A m \in 1..(Len(a) - 1) : Tail(a)[m] = a[m + 1]
      BY <1>3, <1>4
    <2>3. Len(Tail(a)) <= CacheSize  BY <1>3, <1>4, <2>2
    <2>4. \A m \in 1..Len(Tail(a)) : m + 1 \in 1..Len(a)
                                     /\ Tail(a)[m] = a[m + 1]
      BY <1>3, <1>4, <2>2
    <2>5. \A m, n \in 1..Len(Tail(a)) :
            Tail(a)[m].host = Tail(a)[n].host => m = n
      BY <1>3, <2>4
    <2>6. IsCache(Tail(a))  BY <2>2, <2>3, <2>5 DEF IsCache
    <2> QED  BY <1>5, <2>1, <2>4, <2>6
  <1> QED  BY <1>3, <1>4, <1>6, <1>7

-----------------------------------------------------------------------------
(* get_cert_for_host.                                                       *)

\* CaStore is what HostCertificates leaves of it: signing and caching do not
\* touch the CA.
THEOREM CertificatesKeepCa == CertSpec => Spec
  <1>1. CertInit => Init  BY DEF CertInit
  <1>2. [CertNext]_allVars => [Next]_vars
    BY DEF CertNext, CertStep, CacheHit, CacheMiss, Sign, SignFails, Put,
           TimePasses, allVars
  <1> QED  BY <1>1, <1>2, PTL DEF CertSpec, Spec

\* So the CA is trusted and kept while certificates are signed and cached.
THEOREM CertificatesUseTrustedCa ==
    ASSUME Overlap = FALSE
    PROVE  CertSpec => []SigningCaTrusted /\ CaNeverReplaced
  BY CertificatesKeepCa, ServedCaIsTrusted, PairIsKept, PTL

\* A handler puts what it has signed.
PutsChain == \A t \in Handlers : task[t].step = "put" => task[t].chain \in Chains

LEMMA TaskFields ==
    ASSUME CertTypeOK, NEW t \in Handlers, task[t].step # "idle"
    PROVE  task[t] \in Tasks
  BY DEF CertTypeOK, Idle

LEMMA SignStep ==
    ASSUME CertTypeOK, NEW t \in Handlers, Sign(t)
    PROVE  \E r \in Tasks :
             /\ task' = [task EXCEPT ![t] = r] /\ UNCHANGED <<vars, time, cache>>
             /\ r.step = "put" /\ r.proc = task[t].proc /\ r.host = task[t].host
             /\ r.chain \in Chains /\ r.chain.host = r.host
             /\ r.chain.signer = ca[r.proc]
  <1>1. task[t] \in Tasks  BY TaskFields DEF Sign
  <1> DEFINE c == [host |-> task[t].host, signer |-> ca[task[t].proc],
                   from |-> time]
             r == [[task[t] EXCEPT !.step = "put"] EXCEPT !.chain = c]
  <1>2. c \in Chains /\ c.host = task[t].host /\ c.signer = ca[task[t].proc]
    BY <1>1 DEF Tasks, Chains, CertTypeOK, TypeOK
  <1>3. task' = [task EXCEPT ![t] = r] /\ UNCHANGED <<vars, time, cache>>
    BY DEF Sign, CertTypeOK
  <1> HIDE DEF c
  <1>4. r \in Tasks /\ r.step = "put" /\ r.chain = c
        /\ r.proc = task[t].proc /\ r.host = task[t].host
    BY <1>1, <1>2 DEF Tasks
  <1> HIDE DEF r
  <1> QED  BY <1>2, <1>3, <1>4

LEMMA InitCertType == CertInit => CertTypeOK /\ PutsChain
  <1> SUFFICES ASSUME CertInit PROVE CertTypeOK /\ PutsChain  OBVIOUS
  <1>1. TypeOK  BY InitType DEF CertInit
  <1>2. IsCache(<<>>)
    BY CertificateAssumption DEF IsCache
  <1>3. time \in 0..MaxAge  BY CertificateAssumption DEF CertInit
  <1> QED
    BY <1>1, <1>2, <1>3 DEF CertInit, CertTypeOK, PutsChain, Idle

LEMMA NextCertType ==
    ASSUME CertTypeOK, PutsChain, [CertNext]_allVars
    PROVE  CertTypeOK' /\ PutsChain'
  <1>0. TypeOK'
    <2>1. [Next]_vars
      BY DEF CertNext, CertStep, CacheHit, CacheMiss, Sign, SignFails, Put,
             TimePasses, allVars
    <2> QED  BY <2>1, NextType DEF CertTypeOK
  <1>1. CASE UNCHANGED certVars
    BY <1>0, <1>1 DEF certVars, CertTypeOK, PutsChain
  <1>2. CASE TimePasses
    <2>1. time' \in 0..MaxAge
      BY <1>2, CertificateAssumption DEF TimePasses, CertTypeOK
    <2> QED  BY <1>0, <1>2, <2>1 DEF TimePasses, CertTypeOK, PutsChain
  <1>3. ASSUME NEW t \in Handlers, NEW p \in Procs, NEW h \in Hosts,
               CacheHit(t, p, h)
        PROVE  CertTypeOK' /\ PutsChain'
    <2>1. PICK c \in Entry(p, h) :
             /\ Begin(t, p, h, "served", c)
             /\ cache' = [cache EXCEPT ![p] = Append(Others(@, h), c)]
      BY <1>3 DEF CacheHit
    <2>2. PICK k \in 1..Len(cache[p]) : c = cache[p][k] /\ c.host = h
      BY <2>1 DEF Entry
    <2>3. IsCache(cache[p])  BY DEF CertTypeOK
    <2>4. c \in Chains  BY <2>2, <2>3 DEF IsCache
    <2>5. IsCache(Append(Others(cache[p], h), c))
      BY <2>2, <2>3, CacheGet
    <2>6. DOMAIN cache' = Procs /\ \A q \in Procs : IsCache(cache'[q])
      BY <2>1, <2>5 DEF CertTypeOK
    <2>7. task' \in [Handlers -> Tasks \cup {Idle}] /\ time' = time
      BY <1>3, <2>1, <2>4 DEF CertTypeOK, Begin, Tasks, CacheHit
    <2>8. PutsChain'
      BY <2>1 DEF PutsChain, Begin, CertTypeOK
    <2> QED  BY <1>0, <2>6, <2>7, <2>8 DEF CertTypeOK
  <1>4. ASSUME NEW t \in Handlers, NEW p \in Procs, NEW h \in Hosts,
               CacheMiss(t, p, h)
        PROVE  CertTypeOK' /\ PutsChain'
    BY <1>0, <1>4 DEF CacheMiss, Begin, CertTypeOK, PutsChain, Tasks
  <1>5. ASSUME NEW t \in Handlers, Sign(t)
        PROVE  CertTypeOK' /\ PutsChain'
    <2>1. PICK r \in Tasks :
             /\ task' = [task EXCEPT ![t] = r] /\ UNCHANGED <<time, cache>>
             /\ r.step = "put" /\ r.chain \in Chains
      BY <1>5, SignStep
    <2>2. task' \in [Handlers -> Tasks \cup {Idle}] /\ PutsChain'
      BY <2>1 DEF CertTypeOK, PutsChain
    <2> QED  BY <1>0, <2>1, <2>2 DEF CertTypeOK
  <1>6. ASSUME NEW t \in Handlers, SignFails(t)
        PROVE  CertTypeOK' /\ PutsChain'
    <2>1. task[t] \in Tasks  BY <1>6, TaskFields DEF SignFails
    <2>2. task' = [task EXCEPT ![t] = [task[t] EXCEPT !.step = "failed"]]
          /\ UNCHANGED <<time, cache>>
      BY <1>6 DEF SignFails
    <2>3. [task[t] EXCEPT !.step = "failed"] \in Tasks  BY <2>1 DEF Tasks
    <2>4. [task[t] EXCEPT !.step = "failed"].step = "failed"  BY <2>1 DEF Tasks
    <2> QED  BY <1>0, <2>2, <2>3, <2>4 DEF CertTypeOK, PutsChain
  <1>7. ASSUME NEW t \in Handlers, Put(t)
        PROVE  CertTypeOK' /\ PutsChain'
    <2>1. task[t] \in Tasks /\ task[t].chain \in Chains
      BY <1>7, TaskFields DEF Put, PutsChain
    <2>2. task' = [task EXCEPT ![t] = [task[t] EXCEPT !.step = "served"]]
          /\ time' = time
      BY <1>7 DEF Put
    <2>3. [task[t] EXCEPT !.step = "served"] \in Tasks  BY <2>1 DEF Tasks
    <2>4. [task[t] EXCEPT !.step = "served"].step = "served"  BY <2>1 DEF Tasks
    <2>5. PICK p \in Procs : p = task[t].proc  BY <2>1 DEF Tasks
    <2>6. IsCache(Pushed(cache[p], task[t].chain))
      BY <2>1, CachePut DEF CertTypeOK
    <2>7. cache' = [cache EXCEPT ![p] = Pushed(cache[p], task[t].chain)]
      BY <1>7, <2>5 DEF Put
    <2>8. DOMAIN cache' = Procs /\ \A q \in Procs : IsCache(cache'[q])
      BY <2>6, <2>7 DEF CertTypeOK
    <2>9. task' \in [Handlers -> Tasks \cup {Idle}] /\ PutsChain'
      BY <2>2, <2>3, <2>4 DEF CertTypeOK, PutsChain
    <2> QED  BY <1>0, <2>2, <2>8, <2>9 DEF CertTypeOK
  <1> QED
    BY <1>1, <1>2, <1>3, <1>4, <1>5, <1>6, <1>7
    DEF CertNext, CertStep, allVars

\* Caches stay caches, with no host twice and no more entries than they have
\* room for, however the handlers that look, sign and put interleave.
THEOREM CertTypeCorrect == CertSpec => []CertTypeOK
  <1>1. CertTypeOK /\ PutsChain /\ [CertNext]_allVars => (CertTypeOK /\ PutsChain)'
    BY NextCertType
  <1> QED  BY <1>1, InitCertType, PTL DEF CertSpec

\* A process has a cache only once it serves, and signs all in it.
CachesSigned ==
    \A p \in Procs :
        /\ pc[p] \notin {"serving", "gone"} => cache[p] = <<>>
        /\ pc[p] = "serving" =>
             \A n \in 1..Len(cache[p]) : cache[p][n].signer = ca[p]

\* Handlers ask processes that serve, or served, and what a handler puts or
\* serves is for its host and was signed by its process.
TasksSigned ==
    \A t \in Handlers : task[t].step # "idle" =>
        /\ pc[task[t].proc] \in {"serving", "gone"}
        /\ task[t].step \in {"put", "served"} =>
             /\ task[t].chain.host = task[t].host
             /\ Serves(t) => task[t].chain.signer = ca[task[t].proc]

CertIInv == IInv /\ CertTypeOK /\ PutsChain /\ CachesSigned /\ TasksSigned

\* A process that serves, or has served, keeps its CA and never starts again.
LEMMA ServingForGood ==
    ASSUME TypeOK, [Next]_vars, NEW p \in Procs, pc[p] \in {"serving", "gone"}
    PROVE  /\ pc'[p] \in {"serving", "gone"} /\ ca'[p] = ca[p]
           /\ pc'[p] = "serving" => pc[p] = "serving"
  <1>1. ASSUME NEW q \in Procs, Step(q)
        PROVE  /\ pc'[p] \in {"serving", "gone"} /\ ca'[p] = ca[p]
               /\ pc'[p] = "serving" => pc[p] = "serving"
    BY <1>1
    DEF Step, CheckCert, CheckKey, Load, Generate, FillCert, TruncateKey,
        FillKey, End, Goto, TypeOK, Starting
  <1> QED  BY <1>1 DEF Next, vars

LEMMA NextSigned ==
    ASSUME Overlap = FALSE, CertIInv, [CertNext]_allVars
    PROVE  CertIInv'
  <1> USE DEF CertIInv
  <1>0. [Next]_vars
    BY DEF CertNext, CertStep, CacheHit, CacheMiss, Sign, SignFails, Put,
           TimePasses, allVars
  <1>t. IInv' /\ CertTypeOK' /\ PutsChain'
    BY <1>0, NextIInv, NextCertType
  <1>1. CASE UNCHANGED certVars
    <2>1. UNCHANGED <<cache, task>>  BY <1>1 DEF certVars
    <2>2. CachesSigned'
      <3> SUFFICES ASSUME NEW p \in Procs
                   PROVE  /\ pc'[p] \notin {"serving", "gone"} => cache[p] = <<>>
                          /\ pc'[p] = "serving" =>
                               \A n \in 1..Len(cache[p]) :
                                 cache[p][n].signer = ca'[p]
        BY <2>1 DEF CachesSigned
      <3>1. CASE pc[p] \in {"serving", "gone"}
        BY <1>0, <3>1, ServingForGood DEF CachesSigned, IInv
      <3>2. CASE pc[p] \notin {"serving", "gone"}
        <4>1. cache[p] = <<>>  BY <3>2 DEF CachesSigned
        <4> QED  BY <4>1
      <3> QED  BY <3>1, <3>2
    <2>3. TasksSigned'
      <3> SUFFICES ASSUME NEW t \in Handlers, task[t].step # "idle"
                   PROVE  /\ pc'[task[t].proc] \in {"serving", "gone"}
                          /\ task[t].step \in {"put", "served"} =>
                               /\ task[t].chain.host = task[t].host
                               /\ pc'[task[t].proc] = "serving" =>
                                    task[t].chain.signer = ca'[task[t].proc]
        BY <2>1 DEF TasksSigned, Serves
      <3>1. PICK p \in Procs : p = task[t].proc  BY TaskFields DEF Tasks
      <3>2. pc[p] \in {"serving", "gone"}  BY <3>1 DEF TasksSigned
      <3>3. /\ pc'[p] \in {"serving", "gone"} /\ ca'[p] = ca[p]
            /\ pc'[p] = "serving" => pc[p] = "serving"
        BY <1>0, <3>2, ServingForGood DEF IInv
      <3> QED  BY <3>1, <3>2, <3>3 DEF TasksSigned, Serves
    <2> QED  BY <1>t, <2>2, <2>3
  <1>2. CASE TimePasses
    BY <1>t, <1>2 DEF TimePasses, vars, CachesSigned, TasksSigned, Serves
  <1>3. ASSUME NEW t \in Handlers, NEW p \in Procs, NEW h \in Hosts,
               CacheHit(t, p, h)
        PROVE  CertIInv'
    <2>1. PICK c \in Entry(p, h) :
             /\ Begin(t, p, h, "served", c)
             /\ cache' = [cache EXCEPT ![p] = Append(Others(@, h), c)]
      BY <1>3 DEF CacheHit
    <2>2. PICK k \in 1..Len(cache[p]) : c = cache[p][k] /\ c.host = h
      BY <2>1 DEF Entry
    <2>3. IsCache(cache[p]) /\ DOMAIN cache = Procs  BY DEF CertTypeOK
    <2>4. pc[p] = "serving" /\ UNCHANGED <<pc, ca>>  BY <1>3 DEF CacheHit, vars
    <2> DEFINE s == cache[p]
               got == Append(Others(s, h), c)
    <2>5. \A m \in 1..Len(got) : \E n \in 1..Len(s) : got[m] = s[n]
      <3>1. got = Append(Others(s, s[k].host), s[k])  BY <2>2
      <3> HIDE DEF s
      <3>2. k \in 1..Len(s) /\ IsCache(s)  BY <2>2, <2>3 DEF s
      <3>3. \A m \in 1..Len(Append(Others(s, s[k].host), s[k])) :
              \E n \in 1..Len(s) :
                Append(Others(s, s[k].host), s[k])[m] = s[n]
        BY <3>2, CacheGet
      <3> HIDE DEF got
      <3> QED  BY <3>1, <3>3
    <2>6. \A n \in 1..Len(cache[p]) : cache[p][n].signer = ca[p]
      BY <2>4 DEF CachesSigned
    <2>7. cache'[p] = got /\ \A q \in Procs : q # p => cache'[q] = cache[q]
      BY <2>1, <2>3
    <2> HIDE DEF got
    <2>8. CachesSigned'  BY <2>4, <2>5, <2>6, <2>7 DEF CachesSigned
    <2>9. TasksSigned'
      <3> DEFINE r == [step |-> "served", proc |-> p, host |-> h, chain |-> c]
      <3>1. task' = [task EXCEPT ![t] = r]  BY <2>1 DEF Begin
      <3>2. r.step = "served" /\ r.proc = p /\ r.host = h /\ r.chain = c  OBVIOUS
      <3> HIDE DEF r
      <3> QED
        BY <2>2, <2>4, <2>6, <3>1, <3>2 DEF TasksSigned, Serves, CertTypeOK
    <2> QED  BY <1>t, <2>8, <2>9
  <1>4. ASSUME NEW t \in Handlers, NEW p \in Procs, NEW h \in Hosts,
               CacheMiss(t, p, h)
        PROVE  CertIInv'
    <2> DEFINE r == [step |-> "sign", proc |-> p, host |-> h, chain |-> NoChain]
    <2>1. task' = [task EXCEPT ![t] = r] /\ UNCHANGED <<cache, pc, ca>>
          /\ pc[p] = "serving"
      BY <1>4 DEF CacheMiss, Begin, vars
    <2>2. r.step = "sign" /\ r.proc = p  OBVIOUS
    <2> HIDE DEF r
    <2>3. TasksSigned'  BY <2>1, <2>2 DEF TasksSigned, Serves, CertTypeOK
    <2> QED  BY <1>t, <2>1, <2>3 DEF CachesSigned
  <1>5. ASSUME NEW t \in Handlers, Sign(t) PROVE CertIInv'
    <2>1. PICK r \in Tasks :
             /\ task' = [task EXCEPT ![t] = r] /\ UNCHANGED <<vars, time, cache>>
             /\ r.step = "put" /\ r.proc = task[t].proc /\ r.host = task[t].host
             /\ r.chain.host = r.host /\ r.chain.signer = ca[r.proc]
      BY <1>5, SignStep
    <2>2. UNCHANGED <<pc, ca, cache>>  BY <2>1 DEF vars
    <2>3. pc[r.proc] = "serving"  BY <1>5, <2>1 DEF Sign, Serves
    <2>4. TasksSigned'
      BY <2>1, <2>2, <2>3 DEF TasksSigned, Serves, CertTypeOK
    <2> QED  BY <1>t, <2>2, <2>4 DEF CachesSigned
  <1>6. ASSUME NEW t \in Handlers, SignFails(t) PROVE CertIInv'
    <2>1. task[t] \in Tasks  BY <1>6, TaskFields DEF SignFails
    <2> DEFINE r == [task[t] EXCEPT !.step = "failed"]
    <2>2. task' = [task EXCEPT ![t] = r] /\ UNCHANGED <<pc, ca, cache>>
      BY <1>6 DEF SignFails, vars
    <2>3. r.step = "failed" /\ r.proc = task[t].proc  BY <2>1 DEF Tasks
    <2>4. pc[r.proc] = "serving"  BY <1>6, <2>3 DEF SignFails, Serves
    <2> HIDE DEF r
    <2>5. TasksSigned'
      BY <2>2, <2>3, <2>4 DEF TasksSigned, Serves, CertTypeOK
    <2> QED  BY <1>t, <2>2, <2>5 DEF CachesSigned
  <1>7. ASSUME NEW t \in Handlers, Put(t) PROVE CertIInv'
    <2>1. task[t] \in Tasks /\ task[t].chain \in Chains
      BY <1>7, TaskFields DEF Put, PutsChain
    <2> DEFINE r == [task[t] EXCEPT !.step = "served"]
    <2>2. task' = [task EXCEPT ![t] = r] /\ UNCHANGED <<pc, ca>>
      BY <1>7 DEF Put, vars
    <2>3. /\ r.step = "served" /\ r.proc = task[t].proc
          /\ r.host = task[t].host /\ r.chain = task[t].chain
      BY <2>1 DEF Tasks
    <2>4. PICK p \in Procs : p = task[t].proc  BY <2>1 DEF Tasks
    <2>5. /\ pc[p] = "serving" /\ task[t].chain.signer = ca[p]
          /\ task[t].chain.host = task[t].host
      BY <1>7, <2>4 DEF Put, Serves, TasksSigned
    <2> HIDE DEF r
    <2>6. TasksSigned'
      BY <2>2, <2>3, <2>4, <2>5 DEF TasksSigned, Serves, CertTypeOK
    <2>7. \A m \in 1..Len(Pushed(cache[p], task[t].chain)) :
            \/ Pushed(cache[p], task[t].chain)[m] = task[t].chain
            \/ \E n \in 1..Len(cache[p]) :
                 Pushed(cache[p], task[t].chain)[m] = cache[p][n]
      BY <2>1, CachePut DEF CertTypeOK
    <2>8. cache'[p] = Pushed(cache[p], task[t].chain)
          /\ \A q \in Procs : q # p => cache'[q] = cache[q]
      BY <1>7, <2>4 DEF Put, CertTypeOK
    <2>9. \A n \in 1..Len(cache[p]) : cache[p][n].signer = ca[p]
      BY <2>5 DEF CachesSigned
    <2>10. CachesSigned'  BY <2>2, <2>5, <2>7, <2>8, <2>9 DEF CachesSigned
    <2> QED  BY <1>t, <2>6, <2>10
  <1> QED
    BY <1>1, <1>2, <1>3, <1>4, <1>5, <1>6, <1>7
    DEF CertNext, CertStep, allVars

LEMMA CertInvariance ==
    ASSUME Overlap = FALSE
    PROVE  CertSpec => []CertIInv
  <1>1. CertInit => CertIInv
    <2> SUFFICES ASSUME CertInit PROVE CertIInv  OBVIOUS
    <2>1. IInv /\ CertTypeOK /\ PutsChain
      BY InitIInv, InitCertType DEF CertInit
    <2>2. CachesSigned /\ TasksSigned
      BY DEF CertInit, Init, CachesSigned, TasksSigned, Idle
    <2> QED  BY <2>1, <2>2 DEF CertIInv
  <1>2. CertIInv /\ [CertNext]_allVars => CertIInv'  BY NextSigned
  <1> QED  BY <1>1, <1>2, PTL DEF CertSpec

LEMMA ChainsVerify ==
    ASSUME MaxAge <= Validity, CertIInv
    PROVE  ServedChainVerifies
  <1> SUFFICES ASSUME NEW t \in Handlers, task[t].step = "served", Serves(t)
               PROVE  /\ task[t].chain.host = task[t].host
                      /\ task[t].chain.signer = TrustedCa
                      /\ time - task[t].chain.from <= Validity
    BY DEF ServedChainVerifies
  <1>1. task[t] \in Tasks  BY TaskFields DEF CertIInv
  <1>2. PICK p \in Procs : p = task[t].proc  BY <1>1 DEF Tasks
  <1>3. /\ task[t].chain.host = task[t].host
        /\ task[t].chain.signer = ca[p] /\ pc[p] = "serving"
    BY <1>2 DEF CertIInv, TasksSigned, Serves
  <1>4. ca[p] = certFile  BY <1>3 DEF CertIInv, IInv, ServesPair
  <1>5. task[t].chain.from \in 0..MaxAge /\ time \in 0..MaxAge
    BY <1>1, CertificateAssumption
    DEF Tasks, Chains, NoChain, CertIInv, CertTypeOK
  <1>6. time - task[t].chain.from <= Validity
    BY <1>5, CertificateAssumption
  <1> QED  BY <1>3, <1>4, <1>6 DEF TrustedCa

\* For any number of processes, handlers and hosts and any size of the cache,
\* and wherever earlier processes died: what a client is shown is for its host,
\* signed by the CA that its tools trust, and valid, as long as no process gets
\* older than its certificates.
THEOREM ServedChainsVerify ==
    ASSUME Overlap = FALSE, MaxAge <= Validity
    PROVE  CertSpec => []ServedChainVerifies
  <1>1. CertIInv => ServedChainVerifies  BY ChainsVerify
  <1> QED  BY <1>1, CertInvariance, PTL
=============================================================================
