------------------------ MODULE ProcRuleEngineProofs ------------------------
(* Proofs about ProcRuleEngine, for any number of requests and any policy.   *)
(* That the engine implements RuleEngine is proved if no client leaves while *)
(* its line is with the program: a future dropped there leaves it behind.    *)
EXTENDS ProcRuleEngine, SequenceTheorems, TLAPS

Inside == {"ensure", "write", "read"}

\* Whoever waits is in the queue once, and has no verdict yet; a verdict is
\* there exactly when evaluate has returned.
Waiting ==
    /\ \A n \in 1..Len(queue) : pc[queue[n]] = "wait"
    /\ \A m, n \in 1..Len(queue) : queue[m] = queue[n] => m = n
    /\ \A r \in Requests : pc[r] # "done" => decision[r] = Pending

\* What is left of a queue when its nth place is given up.
LEMMA Removed ==
    ASSUME NEW S, NEW q \in Seq(S), NEW n \in 1..Len(q)
    PROVE  LET rest == SubSeq(q, 1, n - 1) \o SubSeq(q, n + 1, Len(q))
           IN /\ rest \in Seq(S)
              /\ Len(rest) = Len(q) - 1
              /\ \A m \in 1..Len(rest) :
                   rest[m] = IF m < n THEN q[m] ELSE q[m + 1]
  <1> DEFINE front == SubSeq(q, 1, n - 1)
             back == SubSeq(q, n + 1, Len(q))
  <1>0. Len(q) \in Nat /\ n \in Nat /\ \A m \in 1..Len(q) : q[m] \in S
    OBVIOUS
  <1>1. /\ front \in Seq(S) /\ Len(front) = n - 1
        /\ \A m \in 1..(n - 1) : front[m] = q[m]
    <2>1. \A m \in 1..(n - 1) : q[m] \in S
      BY <1>0
    <2>2. /\ front \in Seq(S)
          /\ Len(front) = IF 1 <= n - 1 THEN (n - 1) - 1 + 1 ELSE 0
          /\ \A m \in 1..((n - 1) - 1 + 1) : front[m] = q[1 + m - 1]
      BY <1>0, <2>1, SubSeqProperties
    <2> QED  BY <1>0, <2>2
  <1>2. /\ back \in Seq(S) /\ Len(back) = Len(q) - n
        /\ \A m \in 1..(Len(q) - n) : back[m] = q[n + m]
    <2>1. \A m \in (n + 1)..Len(q) : q[m] \in S
      BY <1>0
    <2>2. /\ back \in Seq(S)
          /\ Len(back) = IF n + 1 <= Len(q) THEN Len(q) - (n + 1) + 1 ELSE 0
          /\ \A m \in 1..(Len(q) - (n + 1) + 1) : back[m] = q[(n + 1) + m - 1]
      BY <1>0, <2>1, SubSeqProperties
    <2> QED  BY <1>0, <2>2
  <1> HIDE DEF front, back
  <1> DEFINE rest == front \o back
  <1>3. /\ rest \in Seq(S)
        /\ Len(rest) = Len(front) + Len(back)
        /\ \A m \in 1..(Len(front) + Len(back)) :
             rest[m] = IF m <= Len(front) THEN front[m]
                       ELSE back[m - Len(front)]
    BY <1>1, <1>2, ConcatProperties
  <1> HIDE DEF rest
  <1>4. Len(rest) = Len(q) - 1
    BY <1>0, <1>1, <1>2, <1>3
  <1>5. ASSUME NEW m \in 1..Len(rest)
        PROVE  rest[m] = IF m < n THEN q[m] ELSE q[m + 1]
    <2>1. m \in Nat /\ m \in 1..(Len(front) + Len(back))
      BY <1>0, <1>3
    <2>2. CASE m < n
      <3>1. m \in 1..(n - 1) /\ m <= Len(front)
        BY <1>0, <1>1, <2>1, <2>2
      <3>2. rest[m] = front[m]
        BY <1>3, <2>1, <3>1
      <3> QED  BY <1>1, <2>2, <3>1, <3>2
    <2>3. CASE ~(m < n)
      <3>1. /\ ~(m <= Len(front)) /\ m - Len(front) = m - n + 1
            /\ m - n + 1 \in 1..(Len(q) - n) /\ n + (m - n + 1) = m + 1
        BY <1>0, <1>1, <1>4, <2>1, <2>3
      <3>2. rest[m] = back[m - n + 1]
        BY <1>3, <2>1, <3>1
      <3>3. back[m - n + 1] = q[m + 1]
        BY <1>2, <3>1
      <3> QED  BY <2>3, <3>2, <3>3
    <2> QED  BY <2>2, <2>3
  <1> QED  BY <1>3, <1>4, <1>5 DEF rest, front, back

LockInv == TypeOK /\ MutexHeld /\ Waiting

LEMMA InitLock == Init => LockInv
  <1> SUFFICES ASSUME Init PROVE LockInv  OBVIOUS
  <1>1. TypeOK
    <2>1. handle \in BOOLEAN /\ alive \in BOOLEAN
      BY Zenon DEF Init
    <2> QED
      BY <2>1, ConstantsAssumption DEF Init, TypeOK, Attempts, Pending
  <1>2. MutexHeld /\ Waiting
    BY ConstantsAssumption DEF Init, MutexHeld, Waiting
  <1> QED  BY <1>1, <1>2 DEF LockInv

LEMMA NextType == TypeOK /\ [Next]_vars => TypeOK'
  <1> SUFFICES ASSUME TypeOK, [Next]_vars PROVE TypeOK'  OBVIOUS
  <1> USE ConstantsAssumption DEF TypeOK, Attempts, Pending, child
  <1>1. ASSUME NEW r \in Requests, Arrive(r) PROVE TypeOK'
    <2>1. Append(queue, r) \in Seq(Requests)
      OBVIOUS
    <2> QED  BY <1>1, <2>1 DEF Arrive
  <1>2. ASSUME NEW r \in Requests, Acquire(r) PROVE TypeOK'
    BY <1>2 DEF Acquire
  <1>3. ASSUME NEW r \in Requests, HolderStep(r) PROVE TypeOK'
    <2>1. CASE KeepProcess(r)  BY <2>1 DEF KeepProcess, Continue
    <2>2. CASE SpawnProcess(r)
      <3>1. handle' \in BOOLEAN /\ alive' \in BOOLEAN
        BY <2>2, Zenon DEF SpawnProcess
      <3> QED  BY <2>2, <3>1 DEF SpawnProcess, Continue
    <2>3. CASE SpawnFails(r) \/ WriteFails(r) \/ ReadFails(r) \/ ReadTimeout(r)
      <3>1. KillProcess /\ FailAttempt(r)
        BY <2>3 DEF SpawnFails, WriteFails, ReadFails, ReadTimeout
      <3>2. handle' \in BOOLEAN /\ alive' \in BOOLEAN
        BY <3>1, Zenon DEF KillProcess
      <3>3. stdin' \in Seq(Requests) /\ stdout' \in Seq(Answers)
        BY <3>1 DEF KillProcess
      <3>4. CASE attempt[r] = 0 /\ pc' = [pc EXCEPT ![r] = "ensure"]
                 /\ attempt' = [attempt EXCEPT ![r] = 1]
                 /\ UNCHANGED <<decision, queue, lock>>
        BY <3>2, <3>3, <3>4
      <3>5. CASE Return(r, "deny")
        BY <3>2, <3>3, <3>5 DEF Return
      <3> QED  BY <3>1, <3>4, <3>5 DEF FailAttempt
    <2>4. CASE WriteRequest(r)  BY <2>4 DEF WriteRequest, Continue
    <2>5. CASE ReadResponse(r)
      <3>1. Head(stdout) \in Answers /\ Tail(stdout) \in Seq(Answers)
        BY <2>5 DEF ReadResponse
      <3>2. Head(stdout).text \in {"allow", "deny"}
        BY <2>5, <3>1 DEF ReadResponse, Answers
      <3> QED  BY <2>5, <3>1, <3>2 DEF ReadResponse, Return
    <2> QED  BY <1>3, <2>1, <2>2, <2>3, <2>4, <2>5 DEF HolderStep
  <1>4. ASSUME NEW r \in Requests, Cancel(r) PROVE TypeOK'
    <2>1. LeaveQueue(r) => queue' \in Seq(Requests)
      <3> SUFFICES ASSUME NEW n \in 1..Len(queue),
                          queue' = SubSeq(queue, 1, n - 1)
                                     \o SubSeq(queue, n + 1, Len(queue))
                   PROVE  queue' \in Seq(Requests)
        BY DEF LeaveQueue
      <3> QED  BY Removed
    <2> QED  BY <1>4, <2>1 DEF Cancel
  <1>5. CASE ProgramAnswers
    <2>1. Head(stdin) \in Requests /\ Tail(stdin) \in Seq(Requests)
      BY <1>5 DEF ProgramAnswers
    <2>2. PICK t \in {Policy[Head(stdin)], "empty"} :
             stdout' = Append(stdout, [for |-> Head(stdin), text |-> t])
      BY <1>5 DEF ProgramAnswers
    <2>3. [for |-> Head(stdin), text |-> t] \in Answers
      BY <2>1, <2>2 DEF Answers
    <2>4. stdout' \in Seq(Answers)
      BY <2>2, <2>3
    <2> QED  BY <1>5, <2>1, <2>4 DEF ProgramAnswers
  <1>6. CASE ProgramExits
    <2>1. handle' \in BOOLEAN /\ alive' \in BOOLEAN
      BY <1>6, Zenon DEF ProgramExits
    <2> QED  BY <1>6, <2>1 DEF ProgramExits
  <1>7. CASE UNCHANGED vars  BY <1>7 DEF vars
  <1> QED  BY <1>1, <1>2, <1>3, <1>4, <1>5, <1>6, <1>7 DEF Next

\* The queue, the pipes and the answers keep their types.
THEOREM TypeCorrect == Spec => []TypeOK
  <1>1. Init => TypeOK  BY InitLock DEF LockInv
  <1> QED  BY <1>1, NextType, PTL DEF Spec

LEMMA NextLock == LockInv /\ [Next]_vars => LockInv'
  <1> SUFFICES ASSUME LockInv, [Next]_vars PROVE LockInv'  OBVIOUS
  <1>0. TypeOK'  BY NextType DEF LockInv
  <1> USE ConstantsAssumption DEF LockInv, child
  <1>1. ASSUME NEW r \in Requests, Arrive(r) PROVE LockInv'
    <2>1. MutexHeld'
      BY <1>1 DEF Arrive, MutexHeld, TypeOK
    <2>2. CASE queue' = Append(queue, r) /\ pc' = [pc EXCEPT ![r] = "wait"]
               /\ UNCHANGED decision
      <3>1. \A n \in 1..Len(queue) : queue[n] # r
        BY <1>1 DEF Arrive, Waiting
      <3>2. Waiting'
        BY <1>1, <2>2, <3>1 DEF Arrive, Waiting, TypeOK
      <3> QED  BY <1>0, <2>1, <3>2
    <2>3. CASE queue' = queue /\ pc' = [pc EXCEPT ![r] = "done"]
               /\ decision' = [decision EXCEPT ![r] = "deny"]
      <3>1. \A n \in 1..Len(queue) : queue[n] # r
        BY <1>1 DEF Arrive, Waiting
      <3>2. Waiting'
        BY <2>3, <3>1 DEF Waiting, TypeOK
      <3> QED  BY <1>0, <2>1, <3>2
    <2> QED  BY <1>1, <2>2, <2>3 DEF Arrive
  <1>2. ASSUME NEW r \in Requests, Acquire(r) PROVE LockInv'
    <2>1. queue # <<>> /\ r = queue[1] /\ queue' = Tail(queue)
          /\ pc[r] = "wait"
      BY <1>2 DEF Acquire, Waiting, TypeOK
    <2>2. MutexHeld'
      BY <1>2, <2>1 DEF Acquire, MutexHeld, TypeOK
    <2>3. /\ Len(queue') = Len(queue) - 1
          /\ \A n \in 1..Len(queue') : queue'[n] = queue[n + 1]
      BY <2>1 DEF TypeOK
    <2>4. \A n \in 1..Len(queue') : queue'[n] # r /\ queue'[n] \in Requests
      BY <2>1, <2>3 DEF Waiting, TypeOK
    <2>5. Waiting'
      BY <1>2, <2>1, <2>3, <2>4 DEF Acquire, Waiting, TypeOK
    <2> QED  BY <1>0, <2>2, <2>5
  <1>3. ASSUME NEW r \in Requests, HolderStep(r) PROVE LockInv'
    <2>1. pc[r] \in Inside /\ lock = r /\ queue' = queue
      BY <1>3
      DEF HolderStep, KeepProcess, SpawnProcess, SpawnFails, WriteRequest,
          WriteFails, ReadResponse, ReadFails, ReadTimeout, FailAttempt,
          Continue, Return, MutexHeld, Inside
    <2>2. \/ \E to \in Inside : pc' = [pc EXCEPT ![r] = to]
                               /\ UNCHANGED <<decision, lock>>
          \/ /\ pc' = [pc EXCEPT ![r] = "done"] /\ lock' = None
             /\ \A q \in Requests \ {r} : decision'[q] = decision[q]
      BY <1>3
      DEF HolderStep, KeepProcess, SpawnProcess, SpawnFails, WriteRequest,
          WriteFails, ReadResponse, ReadFails, ReadTimeout, FailAttempt,
          Continue, Return, Inside, TypeOK
    <2>3. MutexHeld'
      BY <2>1, <2>2 DEF MutexHeld, TypeOK, Inside
    <2>4. \A n \in 1..Len(queue) : queue[n] # r /\ queue[n] \in Requests
      BY <2>1 DEF Waiting, TypeOK, Inside
    <2>5. Waiting'
      BY <2>1, <2>2, <2>4 DEF Waiting, TypeOK, Inside
    <2> QED  BY <1>0, <2>3, <2>5
  <1>4. ASSUME NEW r \in Requests, Cancel(r) PROVE LockInv'
    <2>1. MutexHeld'
      BY <1>4 DEF Cancel, MutexHeld, TypeOK, LeaveQueue
    <2>2. CASE LeaveQueue(r)
      <3>1. PICK n \in 1..Len(queue) :
              /\ queue[n] = r
              /\ queue' = SubSeq(queue, 1, n - 1)
                            \o SubSeq(queue, n + 1, Len(queue))
        BY <2>2 DEF LeaveQueue
      <3>2. /\ Len(queue') = Len(queue) - 1
            /\ \A m \in 1..Len(queue') :
                 queue'[m] = IF m < n THEN queue[m] ELSE queue[m + 1]
        <4> DEFINE rest == SubSeq(queue, 1, n - 1)
                             \o SubSeq(queue, n + 1, Len(queue))
        <4>1. queue \in Seq(Requests)  BY DEF TypeOK
        <4>2. /\ Len(rest) = Len(queue) - 1
              /\ \A m \in 1..Len(rest) :
                   rest[m] = IF m < n THEN queue[m] ELSE queue[m + 1]
          BY ONLY <4>1, Removed
        <4>3. queue' = rest  BY <3>1
        <4> HIDE DEF rest
        <4> QED  BY ONLY <4>2, <4>3
      <3> DEFINE old(m) == IF m < n THEN m ELSE m + 1
      <3>3. \A m \in 1..Len(queue') : /\ old(m) \in 1..Len(queue)
                                     /\ old(m) # n
                                     /\ queue'[m] = queue[old(m)]
        <4>1. Len(queue) \in Nat  BY DEF TypeOK
        <4> QED  BY <3>2, <4>1
      <3>4. \A k, m \in 1..Len(queue') : old(k) = old(m) => k = m
        OBVIOUS
      <3> HIDE DEF old
      <3>5. /\ \A m \in 1..Len(queue') : /\ queue'[m] # r
                                        /\ pc[queue'[m]] = "wait"
            /\ \A k, m \in 1..Len(queue') : queue'[k] = queue'[m] => k = m
        <4>1. /\ \A m \in 1..Len(queue) : pc[queue[m]] = "wait"
              /\ \A k, m \in 1..Len(queue) : queue[k] = queue[m] => k = m
          BY DEF Waiting
        <4>2. ASSUME NEW m \in 1..Len(queue')
              PROVE  queue'[m] # r /\ pc[queue'[m]] = "wait"
          <5>1. /\ old(m) \in 1..Len(queue) /\ old(m) # n
                /\ queue'[m] = queue[old(m)]
            BY <3>3, <4>2
          <5>2. queue[n] = r  BY <3>1
          <5>3. queue[old(m)] # queue[n]
            BY <4>1, <5>1
          <5>4. pc[queue[old(m)]] = "wait"
            BY <4>1, <5>1
          <5> QED  BY <5>1, <5>2, <5>3, <5>4
        <4>3. ASSUME NEW k \in 1..Len(queue'), NEW m \in 1..Len(queue'),
                     queue'[k] = queue'[m]
              PROVE  k = m
          <5>1. old(k) = old(m)
            BY <3>3, <4>1, <4>3
          <5> QED  BY <3>4, <5>1
        <4> QED  BY <4>2, <4>3
      <3>6. Waiting'
        BY <1>4, <3>5 DEF Cancel, Waiting, TypeOK
      <3> QED  BY <1>0, <2>1, <3>6
    <2>3. CASE pc[r] \in {"write", "read"} /\ UNCHANGED queue
      <3>1. \A n \in 1..Len(queue) : queue[n] # r
        BY <2>3 DEF Waiting
      <3>2. Waiting'
        BY <1>4, <2>3, <3>1 DEF Cancel, Waiting, TypeOK
      <3> QED  BY <1>0, <2>1, <3>2
    <2> QED  BY <1>4, <2>2, <2>3 DEF Cancel
  <1>5. CASE ProgramAnswers \/ ProgramExits
    BY <1>0, <1>5
    DEF ProgramAnswers, ProgramExits, MutexHeld, Waiting
  <1>6. CASE UNCHANGED vars
    BY <1>0, <1>6 DEF vars, MutexHeld, Waiting
  <1> QED  BY <1>1, <1>2, <1>3, <1>4, <1>5, <1>6 DEF Next

LEMMA LockInvariance == Spec => []LockInv
  BY InitLock, NextLock, PTL DEF Spec

\* The mutex around the program is held by exactly the request between
\* lock() and its return, clients that leave included.
THEOREM MutexIsHeld == Spec => []MutexHeld
  BY LockInvariance, PTL DEF LockInv

-----------------------------------------------------------------------------
(* The pipes and the refinement, if no client leaves while its line is with  *)
(* the program.                                                              *)

PipesEmpty == stdin = <<>> /\ stdout = <<>>

IInv == LockInv /\ PipesBelongToReader

LEMMA InitIInv == Init => IInv
  <1> SUFFICES ASSUME Init PROVE IInv  OBVIOUS
  <1>1. LockInv  BY InitLock
  <1>2. PipesBelongToReader  BY DEF Init, PipesBelongToReader
  <1> QED  BY <1>1, <1>2 DEF IInv

\* Whoever does not read finds empty pipes.
LEMMA OthersFindEmptyPipes ==
    ASSUME IInv, NEW r \in Requests, lock \in {r, None}, pc[r] # "read"
    PROVE  PipesEmpty
  BY ConstantsAssumption DEF IInv, PipesBelongToReader, PipesEmpty

\* A line is written only into empty pipes, read only by its request, and
\* lost with the pipes when an attempt fails.
LEMMA NextPipes ==
    ASSUME "read" \notin LeavePoints, IInv, [Next]_vars
    PROVE  PipesBelongToReader'
  <1> USE ConstantsAssumption DEF child
  <1>0. TypeOK /\ MutexHeld /\ PipesBelongToReader
    BY DEF IInv, LockInv
  <1>1. ASSUME NEW r \in Requests, Arrive(r) PROVE PipesBelongToReader'
    <2>1. lock # r
      BY <1>0, <1>1 DEF Arrive, MutexHeld
    <2>2. UNCHANGED <<lock, stdin, stdout>> /\ (lock # None => pc'[lock] = pc[lock])
      BY <1>0, <1>1, <2>1 DEF Arrive, TypeOK
    <2> QED  BY <1>0, <2>2 DEF PipesBelongToReader
  <1>2. ASSUME NEW r \in Requests, Acquire(r) PROVE PipesBelongToReader'
    <2>1. PipesEmpty
      BY <1>0, <1>2 DEF Acquire, PipesBelongToReader, PipesEmpty
    <2> QED  BY <1>2, <2>1 DEF Acquire, PipesEmpty, PipesBelongToReader
  <1>3. ASSUME NEW r \in Requests, HolderStep(r) PROVE PipesBelongToReader'
    <2>0. pc[r] \in Inside => lock = r
      BY <1>0 DEF MutexHeld, Inside
    <2>1. CASE KeepProcess(r)
      <3>1. PipesEmpty
        BY <2>0, <2>1, OthersFindEmptyPipes DEF KeepProcess, Inside
      <3> QED  BY <2>1, <3>1 DEF KeepProcess, PipesEmpty, PipesBelongToReader
    <2>2. CASE SpawnProcess(r)
      BY <2>2 DEF SpawnProcess, PipesBelongToReader
    <2>3. CASE SpawnFails(r) \/ WriteFails(r) \/ ReadFails(r) \/ ReadTimeout(r)
      BY <2>3
      DEF SpawnFails, WriteFails, ReadFails, ReadTimeout, KillProcess,
          PipesBelongToReader
    <2>4. CASE WriteRequest(r)
      <3>1. PipesEmpty /\ lock = r
        BY <2>0, <2>4, OthersFindEmptyPipes DEF WriteRequest, Inside
      <3>2. stdin' = <<r>> /\ stdout' = <<>>
        BY <2>4, <3>1 DEF WriteRequest, PipesEmpty
      <3>3. lock' = r /\ pc'[r] = "read"
        BY <1>0, <2>4, <3>1 DEF WriteRequest, Continue, TypeOK
      <3> QED  BY <3>2, <3>3 DEF PipesBelongToReader
    <2>5. CASE ReadResponse(r)
      <3>1. stdin = <<>> /\ Len(stdout) = 1
        BY <1>0, <2>0, <2>5 DEF ReadResponse, PipesBelongToReader, Inside
      <3>2. stdin' = <<>> /\ stdout' = <<>>
        BY <1>0, <2>5, <3>1 DEF ReadResponse, TypeOK
      <3> QED  BY <3>2 DEF PipesBelongToReader
    <2> QED  BY <1>3, <2>1, <2>2, <2>3, <2>4, <2>5 DEF HolderStep
  <1>4. ASSUME NEW r \in Requests, Cancel(r) PROVE PipesBelongToReader'
    <2>1. CASE pc[r] = "wait"
      <3>1. lock # r
        BY <1>0, <2>1 DEF MutexHeld
      <3>2. UNCHANGED <<lock, stdin, stdout>>
            /\ (lock # None => pc'[lock] = pc[lock])
        BY <1>0, <1>4, <2>1, <3>1 DEF Cancel, TypeOK
      <3> QED  BY <1>0, <3>2 DEF PipesBelongToReader
    <2>2. CASE pc[r] = "write"
      <3>1. PipesEmpty
        BY <1>0, <2>2, OthersFindEmptyPipes DEF MutexHeld
      <3> QED  BY <1>4, <3>1 DEF Cancel, PipesEmpty, PipesBelongToReader
    <2> QED  BY <1>4, <2>1, <2>2 DEF Cancel
  <1>5. CASE ProgramAnswers
    <2>1. /\ lock \in Requests /\ pc[lock] = "read"
          /\ stdin = <<lock>> /\ stdout = <<>>
      BY <1>0, <1>5 DEF ProgramAnswers, PipesBelongToReader, TypeOK
    <2>2. PICK t \in {Policy[lock], "empty"} :
             stdout' = Append(stdout, [for |-> lock, text |-> t])
      BY <1>5, <2>1 DEF ProgramAnswers
    <2>3. stdin' = <<>> /\ Len(stdout') = 1
          /\ stdout'[1] = [for |-> lock, text |-> t]
      BY <1>5, <2>1, <2>2 DEF ProgramAnswers
    <2> QED  BY <1>5, <2>1, <2>2, <2>3 DEF ProgramAnswers, PipesBelongToReader
  <1>6. CASE ProgramExits
    BY <1>0, <1>6 DEF ProgramExits, PipesBelongToReader
  <1>7. CASE UNCHANGED vars
    BY <1>0, <1>7 DEF vars, PipesBelongToReader
  <1> QED  BY <1>1, <1>2, <1>3, <1>4, <1>5, <1>6, <1>7 DEF Next

LEMMA Invariance ==
    ASSUME "read" \notin LeavePoints
    PROVE  Spec => []IInv
  <1>1. IInv /\ [Next]_vars => IInv'
    BY NextPipes, NextLock DEF IInv
  <1> QED  BY InitIInv, <1>1, PTL DEF Spec

\* The pipes never hold another request's line or answer: what a request
\* reads is the program's answer to what it wrote.
THEOREM PipesAreTheReaders ==
    ASSUME "read" \notin LeavePoints
    PROVE  Spec => []PipesBelongToReader
  BY Invariance, PTL DEF IInv

\* Each step of the engine decides at most one request, by its own verdict or
\* by "deny".
LEMMA StepRefines ==
    ASSUME IInv, [Next]_vars
    PROVE  [Abstract!Next]_decision
  <1>0. TypeOK /\ MutexHeld /\ Waiting /\ PipesBelongToReader
    BY DEF IInv, LockInv
  <1> USE DEF Abstract!Next, Abstract!Decide, Abstract!Pending, Pending
  <1>1. ASSUME NEW r \in Requests, Arrive(r) PROVE [Abstract!Next]_decision
    BY <1>0, <1>1 DEF Arrive, Waiting
  <1>2. ASSUME NEW r \in Requests, HolderStep(r) PROVE [Abstract!Next]_decision
    <2>1. CASE UNCHANGED decision
      BY <2>1
    <2>2. CASE Return(r, "deny") /\ pc[r] \in Inside
      BY <1>0, <2>2 DEF Return, Waiting, Inside
    <2>3. CASE ReadResponse(r)
      <3>1. lock = r /\ stdout # <<>>
        BY <1>0, <2>3 DEF ReadResponse, MutexHeld
      <3>2. Head(stdout).text \in {Policy[r], "empty"}
        BY <1>0, <3>1 DEF PipesBelongToReader, TypeOK
      <3>3. Return(r, Policy[r])
        BY <2>3, <3>2 DEF ReadResponse
      <3> QED  BY <1>0, <2>3, <3>3 DEF ReadResponse, Return, Waiting
    <2> QED
      BY <1>2, <2>1, <2>2, <2>3
      DEF HolderStep, KeepProcess, SpawnProcess, SpawnFails, WriteRequest,
          WriteFails, ReadFails, ReadTimeout, FailAttempt, Continue, Inside
  <1>3. ASSUME NEW r \in Requests, Acquire(r) \/ Cancel(r)
        PROVE  UNCHANGED decision
    BY <1>3 DEF Acquire, Cancel
  <1>4. CASE ProgramAnswers \/ ProgramExits \/ UNCHANGED vars
    BY <1>4 DEF ProgramAnswers, ProgramExits, vars
  <1> QED  BY <1>1, <1>2, <1>3, <1>4 DEF Next

\* ProcRuleEngine implements RuleEngine: every verdict is the program's on
\* that very request, or "deny".
THEOREM EngineImplementsRuleEngine ==
    ASSUME "read" \notin LeavePoints
    PROVE  Spec => ImplementsRuleEngine
  <1>1. Init => Abstract!Init
    BY DEF Init, Abstract!Init, Pending, Abstract!Pending
  <1>2. IInv /\ [Next]_vars => [Abstract!Next]_decision
    BY StepRefines
  <1> QED
    BY <1>1, <1>2, Invariance, PTL DEF Spec, ImplementsRuleEngine, Abstract!Spec
=============================================================================
