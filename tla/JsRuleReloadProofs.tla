------------------------- MODULE JsRuleReloadProofs -------------------------
(* Proofs about JsRuleReload, for any number of requests and edits.  The     *)
(* safety theorems take EditsDuringStartup = FALSE: the race between main's  *)
(* read and new_with_file's stat refutes them otherwise.                     *)
EXTENDS JsRuleReload, TLAPS

\* reload_lock is held by exactly the request that is inside its section.
Mutex ==
    \A r \in Requests : lock = r <=> pc[r] \in {"recheck", "read", "store"}

\* Until main serves, the file is as main read it and no request has begun.
Starting ==
    boot # "serving" =>
        /\ boot = "stat" => exists /\ code = file
        /\ \A r \in Requests : pc[r] = "idle"

\* The recorded mtime is never newer than the code recorded with it, and the
\* code, which compiles, is never newer than the file.
CacheBehind ==
    /\ boot = "serving" => mtime \in Nat /\ code \notin Invalid
    /\ mtime <= code /\ code <= file

\* What a request has seen is not newer than the file; what the holder of the
\* lock has read is not older than what it saw or what is in the cache.
RequestsBehind ==
    \A r \in Requests :
        /\ seen[r] <= file
        /\ pc[r] = "store" => /\ seen[r] <= fetched[r] /\ seen[r] # NoTime
                              /\ code <= fetched[r] /\ fetched[r] <= file
                              /\ fetched[r] \notin Invalid
        /\ pc[r] = "read" => seen[r] # NoTime

Current(r) == exists /\ seen[r] = file /\ file \notin Invalid

\* A request past its check whose file has not changed since finds the
\* file's content in the cache.
LoadsCurrent ==
    \A r \in Requests :
        /\ pc[r] = "load" /\ Current(r) => code = file
        /\ pc[r] = "run" /\ Current(r) => used[r] = file

IInv == TypeOK /\ Mutex /\ Starting /\ CacheBehind /\ RequestsBehind
        /\ LoadsCurrent

LEMMA InitType == Init => TypeOK
  BY ConstantsAssumption DEF Init, TypeOK, NoTime

\* Every step keeps the types.
LEMMA NextType == TypeOK /\ [Next]_vars => TypeOK'
  <1> SUFFICES ASSUME TypeOK, [Next]_vars PROVE TypeOK'  OBVIOUS
  <1> USE ConstantsAssumption DEF TypeOK, NoTime, cache, editor
  <1>1. CASE MainReadsFile  BY <1>1 DEF MainReadsFile
  <1>2. CASE NewWithFile  BY <1>2 DEF NewWithFile, Mtime
  <1>3. CASE Edit  BY <1>3 DEF Edit
  <1>4. CASE Remove  BY <1>4 DEF Remove
  <1>5. ASSUME NEW r \in Requests, RequestStep(r) \/ Cancel(r)
        PROVE  TypeOK'
    <2>1. CASE Stat(r)  BY <2>1 DEF Stat, Mtime, Goto
    <2>2. CASE FastCheck(r)  BY <2>2 DEF FastCheck, Goto
    <2>3. CASE AcquireLock(r)  BY <2>3 DEF AcquireLock, Goto
    <2>4. CASE DoubleCheck(r)  BY <2>4 DEF DoubleCheck, Goto
    <2>5. CASE ReadFile(r)  BY <2>5 DEF ReadFile, Goto
    <2>6. CASE Store(r)  BY <2>6 DEF Store, Goto
    <2>7. CASE LoadCode(r)  BY <2>7 DEF LoadCode, Goto
    <2>8. CASE Execute(r)  BY <2>8 DEF Execute, Goto
    <2>9. CASE Cancel(r)  BY <2>9 DEF Cancel, Goto
    <2> QED
      BY <1>5, <2>1, <2>2, <2>3, <2>4, <2>5, <2>6, <2>7, <2>8, <2>9
      DEF RequestStep
  <1>6. CASE UNCHANGED vars  BY <1>6 DEF vars
  <1> QED  BY <1>1, <1>2, <1>3, <1>4, <1>5, <1>6 DEF Next

\* The cache, the lock and the requests keep their types, edits during
\* startup or not.
THEOREM TypeCorrect == Spec => []TypeOK
  BY InitType, NextType, PTL DEF Spec

LEMMA InitIInv == Init => IInv
  <1> SUFFICES ASSUME Init PROVE IInv  OBVIOUS
  <1>1. TypeOK  BY InitType
  <1>2. Mutex /\ Starting /\ CacheBehind /\ RequestsBehind /\ LoadsCurrent
    BY ConstantsAssumption
    DEF Init, Mutex, Starting, CacheBehind, RequestsBehind, LoadsCurrent, NoTime
  <1> QED  BY <1>1, <1>2 DEF IInv

LEMMA NextIInv ==
    ASSUME EditsDuringStartup = FALSE, IInv, [Next]_vars
    PROVE  IInv'
  <1>0. TypeOK'  BY NextType DEF IInv
  <1> USE ConstantsAssumption DEF IInv, NoTime, cache, editor
  <1>1. CASE MainReadsFile
    BY <1>0, <1>1
    DEF MainReadsFile, TypeOK, Mutex, Starting, CacheBehind, RequestsBehind,
        LoadsCurrent, Current
  <1>2. CASE NewWithFile
    BY <1>0, <1>2
    DEF NewWithFile, Mtime, TypeOK, Mutex, Starting, CacheBehind,
        RequestsBehind, LoadsCurrent, Current
  <1>3. CASE Edit
    <2>1. boot = "serving" /\ file' = file + 1
          /\ UNCHANGED <<boot, code, mtime, lock, pc, seen, fetched, used>>
      BY <1>3 DEF Edit, EditorMayAct
    <2>2. \A r \in Requests : seen[r] < file'
      BY <2>1 DEF TypeOK, RequestsBehind
    <2>3. LoadsCurrent'
      BY <2>1, <2>2 DEF LoadsCurrent, Current, TypeOK
    <2> QED
      BY <1>0, <2>1, <2>3
      DEF TypeOK, Mutex, Starting, CacheBehind, RequestsBehind
  <1>4. CASE Remove
    BY <1>0, <1>4
    DEF Remove, EditorMayAct, TypeOK, Mutex, Starting, CacheBehind,
        RequestsBehind, LoadsCurrent, Current
  <1>5. ASSUME NEW r \in Requests, RequestStep(r) \/ Cancel(r)
        PROVE  IInv'
    <2>0. boot = "serving" /\ UNCHANGED <<file, exists, boot>>
      BY <1>5
      DEF RequestStep, Stat, FastCheck, AcquireLock, DoubleCheck, ReadFile,
          Store, LoadCode, Execute, Cancel, Starting
    <2>1. CASE Stat(r)
      BY <1>0, <2>0, <2>1
      DEF Stat, Mtime, Goto, TypeOK, Mutex, Starting, CacheBehind,
          RequestsBehind, LoadsCurrent, Current
    <2>2. CASE FastCheck(r)
      BY <1>0, <2>0, <2>2
      DEF FastCheck, Changed, Goto, TypeOK, Mutex, Starting, CacheBehind,
          RequestsBehind, LoadsCurrent, Current
    <2>3. CASE AcquireLock(r)
      BY <1>0, <2>0, <2>3
      DEF AcquireLock, Goto, TypeOK, Mutex, Starting, CacheBehind,
          RequestsBehind, LoadsCurrent, Current
    <2>4. CASE DoubleCheck(r)
      BY <1>0, <2>0, <2>4
      DEF DoubleCheck, Changed, Goto, TypeOK, Mutex, Starting, CacheBehind,
          RequestsBehind, LoadsCurrent, Current
    <2>5. CASE ReadFile(r)
      BY <1>0, <2>0, <2>5
      DEF ReadFile, Goto, TypeOK, Mutex, Starting, CacheBehind,
          RequestsBehind, LoadsCurrent, Current
    <2>6. CASE Store(r)
      BY <1>0, <2>0, <2>6
      DEF Store, Goto, TypeOK, Mutex, Starting, CacheBehind,
          RequestsBehind, LoadsCurrent, Current
    <2>7. CASE LoadCode(r)
      BY <1>0, <2>0, <2>7
      DEF LoadCode, Goto, TypeOK, Mutex, Starting, CacheBehind,
          RequestsBehind, LoadsCurrent, Current
    <2>8. CASE Execute(r)
      BY <1>0, <2>0, <2>8
      DEF Execute, Goto, TypeOK, Mutex, Starting, CacheBehind,
          RequestsBehind, LoadsCurrent, Current
    <2>9. CASE Cancel(r)
      BY <1>0, <2>0, <2>9
      DEF Cancel, Goto, TypeOK, Mutex, Starting, CacheBehind,
          RequestsBehind, LoadsCurrent, Current
    <2> QED
      BY <1>5, <2>1, <2>2, <2>3, <2>4, <2>5, <2>6, <2>7, <2>8, <2>9
      DEF RequestStep
  <1>6. CASE UNCHANGED vars
    BY <1>0, <1>6
    DEF vars, TypeOK, Mutex, Starting, CacheBehind, RequestsBehind,
        LoadsCurrent, Current
  <1> QED  BY <1>1, <1>2, <1>3, <1>4, <1>5, <1>6 DEF Next

LEMMA Invariance ==
    ASSUME EditsDuringStartup = FALSE
    PROVE  Spec => []IInv
  <1>1. IInv /\ [Next]_vars => IInv'
    BY NextIInv
  <1> QED  BY InitIInv, <1>1, PTL DEF Spec

LEMMA IInvCoherent == IInv => CacheCoherent
  BY ConstantsAssumption
  DEF IInv, TypeOK, CacheBehind, CacheCoherent, NoTime

\* check_and_reload_file never records an mtime with older code than the
\* file had at that mtime: no later request misses a change.
THEOREM CacheIsCoherent ==
    ASSUME EditsDuringStartup = FALSE
    PROVE  Spec => []CacheCoherent
  BY Invariance, IInvCoherent, PTL

LEMMA IInvCurrent == IInv => EvaluatesCurrentFile
  BY DEF IInv, LoadsCurrent, Current, EvaluatesCurrentFile

\* Every request is evaluated with the file it saw if the file stays as it
\* is, whatever reloads overlap.
THEOREM ChangesTakeEffect ==
    ASSUME EditsDuringStartup = FALSE
    PROVE  Spec => []EvaluatesCurrentFile
  BY Invariance, IInvCurrent, PTL

LEMMA NextNoRollBack == IInv /\ [Next]_vars => [NoRollBack]_vars
  <1> SUFFICES ASSUME IInv, Next, boot = "serving"
               PROVE  code' >= code /\ code' \notin Invalid
    BY DEF NoRollBack, vars
  <1> USE ConstantsAssumption DEF IInv, cache, editor
  <1>1. CASE \E r \in Requests : Store(r)
    BY <1>1 DEF Store, TypeOK, RequestsBehind
  <1>2. CASE code' = code
    BY <1>2 DEF TypeOK, CacheBehind
  <1> QED
    BY <1>1, <1>2
    DEF Next, RequestStep, MainReadsFile, NewWithFile, Stat, FastCheck,
        AcquireLock, DoubleCheck, ReadFile, LoadCode, Execute, Cancel, Edit,
        Remove

\* Overlapping reloads never put older or broken rules in force.
THEOREM RulesOnlyAdvance ==
    ASSUME EditsDuringStartup = FALSE
    PROVE  Spec => RulesNeverRollBack
  <1>1. IInv /\ [Next]_vars => [NoRollBack]_vars
    BY NextNoRollBack
  <1> QED  BY <1>1, Invariance, PTL DEF Spec, RulesNeverRollBack
=============================================================================
