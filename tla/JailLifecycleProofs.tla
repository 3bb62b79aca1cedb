------------------------ MODULE JailLifecycleProofs ------------------------
(* Proofs about JailLifecycle, for any number of jails and of --cleanup      *)
(* processes, any timeouts and any failures.                                 *)
EXTENDS JailLifecycle, TLAPS

LEMMA InitType == Init => TypeOK
  <1> SUFFICES ASSUME Init PROVE TypeOK  OBVIOUS
  <1>1. stop \in [Jails -> BOOLEAN]
    BY Zenon DEF Init
  <1>2. age \in [Jails -> 0..MaxAge]
    BY ConstantsAssumption DEF Init, MaxAge
  <1> QED
    BY <1>1, <1>2 DEF Init, TypeOK, PcValues

LEMMA EndProcessType ==
    ASSUME TypeOK, NEW j \in Jails, NEW how \in PcValues, EndProcess(j, how)
    PROVE  TypeOK'
  <1>1. stop' \in [Jails -> BOOLEAN]
    BY Zenon DEF EndProcess, TypeOK
  <1> QED
    BY <1>1 DEF EndProcess, EndMain, Goto, TypeOK, Procs, host

\* Every step keeps the types.
LEMMA NextType == TypeOK /\ [Next]_vars => TypeOK'
  <1> SUFFICES ASSUME TypeOK, [Next]_vars PROVE TypeOK'  OBVIOUS
  <1> USE ConstantsAssumption
      DEF TypeOK, PcValues, SetupSteps, Deleting, Procs, AllKinds, host,
          threads, Goto
  <1>0. MaxAge \in Nat /\ 0 \in 0..MaxAge
    BY DEF MaxAge
  <1>1. ASSUME NEW p \in Procs, ProcStep(p) PROVE TypeOK'
    <2>1. CASE StartScan(p)  BY <2>1 DEF StartScan
    <2>2. CASE SkipEntry(p)  BY <2>2 DEF SkipEntry
    <2>3. CASE FindOrphan(p)
      BY <2>3 DEF FindOrphan, StartDeleting, OrphanKinds
    <2>4. CASE ScanError(p)
      <3>1. CASE p \in Jails  BY <2>4, <3>1 DEF ScanError, StartDeleting
      <3>2. CASE p \notin Jails  BY <2>4, <3>2 DEF ScanError, EndMain
      <3> QED  BY <3>1, <3>2
    <2>5. CASE DeleteStep(p)
      BY <2>5 DEF DeleteStep, DeleteResource
    <2>6. CASE FinishOrphan(p)
      BY <1>0, <2>6 DEF FinishOrphan, RemoveCanary
    <2>7. CASE FinishScan(p)  BY <2>7 DEF FinishScan
    <2> QED
      BY <1>1, <2>1, <2>2, <2>3, <2>4, <2>5, <2>6, <2>7 DEF ProcStep
  <1>2. ASSUME NEW c \in Cleaners, NetnsEntry(c) \/ FinishNetns(c) \/ Rerun(c)
        PROVE  TypeOK'
    BY <1>2 DEF NetnsEntry, FinishNetns, Rerun
  <1>3. ASSUME NEW j \in Jails, MainStep(j) PROVE TypeOK'
    <2>0. Kinds(j) \subseteq AllKinds
      BY DEF Kinds
    <2>1. CASE ProcStep(j)  BY <1>1, <2>1
    <2>2. CASE CreateCanary(j)
      BY <1>0, <2>0, <2>2 DEF CreateCanary, WriteCanary
    <2>3. CASE ListNetworks(j)  BY <2>3 DEF ListNetworks
    <2>4. CASE KeepNetwork(j)  BY <2>4 DEF KeepNetwork
    <2>5. CASE FindOrphanNetwork(j)  BY <2>5 DEF FindOrphanNetwork
    <2>6. CASE RemoveNetwork(j)  BY <2>6 DEF RemoveNetwork, DeleteResource
    <2>7. CASE FinishNetScan(j)  BY <2>7 DEF FinishNetScan
    <2>8. CASE CreateResource(j)  BY <2>8 DEF CreateResource
    <2>9. CASE SetupFails(j)  BY <2>9 DEF SetupFails
    <2>10. CASE AbandonSetup(j)
      BY <1>0, <2>10 DEF AbandonSetup, RemoveCanary, StartDeleting
    <2>11. CASE CanaryFails(j)  BY <2>11 DEF CanaryFails, StartDeleting
    <2>12. CASE StartHeartbeat(j)
      BY <1>0, <2>12 DEF StartHeartbeat, WriteCanary
    <2>13. CASE FinishDrop(j)
      BY <1>0, <2>0, <2>13 DEF FinishDrop, RemoveCanary, StartDeleting
    <2>14. CASE DeleteCanary(j)
      BY <1>0, <2>14 DEF DeleteCanary, RemoveCanary
    <2>15. CASE FinishFields(j) \/ Exit(j)
      <3>1. EndProcess(j, "done")
        BY <2>15 DEF FinishFields, Exit
      <3> QED  BY <3>1, EndProcessType
    <2> QED
      BY <1>3, <2>1, <2>2, <2>3, <2>4, <2>5, <2>6, <2>7, <2>8, <2>9, <2>10,
         <2>11, <2>12, <2>13, <2>14, <2>15
      DEF MainStep
  <1>4. ASSUME NEW j \in Jails,
               HandlerStep(j) \/ HeartbeatStep(j) \/ CommandEnds(j)
                 \/ ExecuteFails(j) \/ LeaveWithoutCleanup(j) \/ Signal(j)
        PROVE  TypeOK'
    <2>1. CASE SigDelete(j)  BY <2>1 DEF SigDelete, DeleteResource
    <2>2. CASE SigDeleteCanary(j)
      BY <1>0, <2>2 DEF SigDeleteCanary, RemoveCanary
    <2>3. CASE SigExit(j)  BY <2>3, EndProcessType DEF SigExit
    <2>4. CASE HbCheck(j)  BY <2>4 DEF HbCheck
    <2>5. CASE HbTouch(j)  BY <1>0, <2>5 DEF HbTouch, WriteCanary
    <2>6. CASE CommandEnds(j)
      <3>1. stop' \in [Jails -> BOOLEAN]
        BY <2>6, Zenon DEF CommandEnds
      <3> QED  BY <2>6, <3>1 DEF CommandEnds, StartDeleting
    <2>7. CASE ExecuteFails(j) \/ LeaveWithoutCleanup(j)
      BY <2>7, EndProcessType DEF ExecuteFails, LeaveWithoutCleanup
    <2>8. CASE Signal(j)
      <3>1. stop' \in [Jails -> BOOLEAN]
        BY <2>8, Zenon DEF Signal
      <3> QED  BY <2>8, <3>1 DEF Signal
    <2> QED
      BY <1>4, <2>1, <2>2, <2>3, <2>4, <2>5, <2>6, <2>7, <2>8
      DEF HandlerStep, HeartbeatStep
  <1>5. ASSUME NEW p \in Procs, Crash(p) PROVE TypeOK'
    <2>1. CASE p \in Jails
      BY <1>5, <2>1, EndProcessType DEF Crash
    <2>2. CASE p \notin Jails
      BY <1>5, <2>2 DEF Crash, EndMain
    <2> QED  BY <2>1, <2>2
  <1>6. CASE Tick
    <2>1. age' \in [Jails -> 0..MaxAge]
      BY <1>0, <1>6 DEF Tick, Older
    <2> QED  BY <1>6, <2>1 DEF Tick
  <1>7. CASE UNCHANGED vars  BY <1>7 DEF vars
  <1> QED
    BY <1>1, <1>2, <1>3, <1>4, <1>5, <1>6, <1>7
    DEF Next, JailStep, CleanerStep

\* Canaries, resources and every thread's state keep their types.
THEOREM TypeCorrect == Spec => []TypeOK
  BY InitType, NextType, PTL DEF Spec

-----------------------------------------------------------------------------
(* No live jail loses a resource.                                            *)

\* A jail process that has not created its canary yet.
PreCanary == {"start", "scan", "reap", "canary"}

\* A jail process that will not use its resources any more.
Over(j) ==
    \/ pc[j] \in {"setupErr", "drop", "fields", "cleanup", "exit", "done",
                   "failed", "gone"}
    \/ pc[j] = "running" /\ stop[j]

\* Which states which process and its threads can be in.
Roles ==
    /\ \A c \in Cleaners : pc[c] \in {"start", "scan", "reap", "netns", "gone"}
    /\ \A j \in Jails :
        /\ pc[j] # "netns"
        /\ hb[j] # "off" \/ stop[j] => pc[j] \in {"running", "cleanup", "exit"}
        /\ sig[j] # "idle" => stop[j]

\* A jail in use has a canary, and the canary is young.
LiveCanary ==
    \A j \in Jails :
        /\ pc[j] \in SetupSteps => j \in canary /\ age[j] <= SetupDelay
        /\ pc[j] = "running" /\ ~stop[j] =>
             j \in canary /\ age[j] <= HeartbeatDelay /\ hb[j] # "off"

\* Before its canary, a jail has nothing.
NothingBeforeCanary ==
    \A j \in Jails : pc[j] \in PreCanary => j \notin canary /\ res[j] = {}

\* Whoever deletes, deletes what is its own or what is over.
TargetsOver ==
    /\ \A p \in Procs :
        /\ pc[p] = "reap" => target[p] \in Jails /\ Over(target[p])
        /\ pc[p] \in {"drop", "cleanup", "fields"} => target[p] = p
    /\ \A j \in Jails :
        /\ pc[j] = "netRm" => target[j] \in Jails /\ Over(target[j])
        /\ pc[j] \in {"netScan", "netRm"} =>
             \A k \in todo[j] : pc[k] \notin PreCanary

IInv == TypeOK /\ Roles /\ LiveCanary /\ NothingBeforeCanary /\ TargetsOver

LEMMA InitIInv == Init => IInv
  <1> SUFFICES ASSUME Init PROVE IInv  OBVIOUS
  <1>1. TypeOK  BY InitType
  <1>2. Roles /\ LiveCanary /\ NothingBeforeCanary /\ TargetsOver
    BY ConstantsAssumption
    DEF Init, Roles, LiveCanary, NothingBeforeCanary, TargetsOver, SetupSteps,
        Procs
  <1> QED  BY <1>1, <1>2 DEF IInv

LEMMA EndProcessRoles ==
    ASSUME TypeOK, Roles, NEW j \in Jails, NEW how \in {"done", "failed", "gone"},
           EndProcess(j, how)
    PROVE  Roles'
  <1>1. pc'[j] = how /\ hb'[j] = "off" /\ ~stop'[j] /\ sig'[j] = "idle"
    BY DEF EndProcess, EndMain, Goto, TypeOK, Procs
  <1>2. /\ \A p \in Procs : p # j => pc'[p] = pc[p]
        /\ \A k \in Jails : k # j => /\ hb'[k] = hb[k] /\ sig'[k] = sig[k]
                                   /\ stop'[k] = stop[k]
    BY DEF EndProcess, EndMain, Goto, TypeOK, Procs
  <1>3. j \notin Cleaners /\ Cleaners \subseteq Procs /\ Jails \subseteq Procs
    BY ConstantsAssumption DEF Procs
  <1> QED  BY <1>1, <1>2, <1>3 DEF Roles

LEMMA NextRoles == TypeOK /\ Roles /\ [Next]_vars => Roles'
  <1> SUFFICES ASSUME TypeOK, Roles, [Next]_vars PROVE Roles'  OBVIOUS
  <1> USE ConstantsAssumption
      DEF TypeOK, PcValues, SetupSteps, Deleting, Procs, host, threads,
          Goto, Roles
  <1>1. ASSUME NEW p \in Procs, ProcStep(p) PROVE Roles'
    BY <1>1
    DEF ProcStep, StartScan, SkipEntry, FindOrphan, ScanError, DeleteStep,
        FinishOrphan, FinishScan, StartDeleting, EndMain
  <1>2. ASSUME NEW c \in Cleaners, NetnsEntry(c) \/ FinishNetns(c) \/ Rerun(c)
        PROVE  Roles'
    BY <1>2 DEF NetnsEntry, FinishNetns, Rerun
  <1>3. ASSUME NEW j \in Jails, MainStep(j) PROVE Roles'
    <2>1. CASE ProcStep(j)  BY <1>1, <2>1
    <2>2. CASE FinishFields(j) \/ Exit(j)
      BY <2>2, EndProcessRoles DEF FinishFields, Exit
    <2>3. CASE StartHeartbeat(j)  BY <2>3 DEF StartHeartbeat
    <2> QED
      BY <1>3, <2>1, <2>2, <2>3
      DEF MainStep, CreateCanary, ListNetworks, KeepNetwork, FindOrphanNetwork,
          RemoveNetwork, FinishNetScan, CreateResource, SetupFails,
          AbandonSetup, CanaryFails, FinishDrop, DeleteCanary, StartDeleting
  <1>4. ASSUME NEW j \in Jails,
               HandlerStep(j) \/ HeartbeatStep(j) \/ CommandEnds(j)
                 \/ ExecuteFails(j) \/ LeaveWithoutCleanup(j) \/ Signal(j)
        PROVE  Roles'
    <2>1. CASE SigDelete(j) \/ SigDeleteCanary(j)
      BY <2>1 DEF SigDelete, SigDeleteCanary
    <2>2. CASE SigExit(j) \/ ExecuteFails(j) \/ LeaveWithoutCleanup(j)
      BY <2>2, EndProcessRoles DEF SigExit, ExecuteFails, LeaveWithoutCleanup
    <2>3. CASE HbCheck(j) \/ HbTouch(j)
      BY <2>3 DEF HbCheck, HbTouch
    <2>4. CASE CommandEnds(j)
      BY <2>4 DEF CommandEnds, StartDeleting
    <2>5. CASE Signal(j)
      BY <2>5 DEF Signal
    <2> QED
      BY <1>4, <2>1, <2>2, <2>3, <2>4, <2>5 DEF HandlerStep, HeartbeatStep
  <1>5. ASSUME NEW p \in Procs, Crash(p) PROVE Roles'
    <2>1. CASE p \in Jails
      BY <1>5, <2>1, EndProcessRoles DEF Crash
    <2>2. CASE p \notin Jails
      BY <1>5, <2>2 DEF Crash, EndMain
    <2> QED  BY <2>1, <2>2
  <1>6. CASE Tick  BY <1>6 DEF Tick
  <1>7. CASE UNCHANGED vars  BY <1>7 DEF vars
  <1> QED
    BY <1>1, <1>2, <1>3, <1>4, <1>5, <1>6, <1>7
    DEF Next, JailStep, CleanerStep

\* What is over stays over, and no jail goes back to where it has no canary.
LEMMA OverIsForGood ==
    ASSUME IInv, [Next]_vars, NEW k \in Jails
    PROVE  /\ Over(k) => Over(k)'
           /\ pc[k] \notin PreCanary => pc'[k] \notin PreCanary
  <1> DEFINE Goal == /\ Over(k) => Over(k)'
                     /\ pc[k] \notin PreCanary => pc'[k] \notin PreCanary
  <1> USE ConstantsAssumption
      DEF IInv, TypeOK, PcValues, SetupSteps, Deleting, Procs, host, threads,
          Goto, Over, PreCanary
  <1>1. ASSUME NEW p \in Procs, ProcStep(p) PROVE Goal
    BY <1>1
    DEF ProcStep, StartScan, SkipEntry, FindOrphan, ScanError, DeleteStep,
        FinishOrphan, FinishScan, StartDeleting, EndMain
  <1>2. ASSUME NEW c \in Cleaners, NetnsEntry(c) \/ FinishNetns(c) \/ Rerun(c)
        PROVE  Goal
    BY <1>2 DEF NetnsEntry, FinishNetns, Rerun
  <1>3. ASSUME NEW j \in Jails, MainStep(j) PROVE Goal
    <2>1. CASE ProcStep(j)  BY <1>1, <2>1
    <2>2. CASE FinishFields(j) \/ Exit(j)
      BY <2>2 DEF FinishFields, Exit, EndProcess, EndMain
    <2> QED
      BY <1>3, <2>1, <2>2
      DEF MainStep, CreateCanary, ListNetworks, KeepNetwork, FindOrphanNetwork,
          RemoveNetwork, FinishNetScan, CreateResource, SetupFails,
          AbandonSetup, CanaryFails, StartHeartbeat, FinishDrop, DeleteCanary,
          StartDeleting
  <1>4. ASSUME NEW j \in Jails,
               HandlerStep(j) \/ HeartbeatStep(j) \/ CommandEnds(j)
                 \/ ExecuteFails(j) \/ LeaveWithoutCleanup(j) \/ Signal(j)
        PROVE  Goal
    <2>1. CASE SigDelete(j) \/ SigDeleteCanary(j) \/ HbCheck(j) \/ HbTouch(j)
      BY <2>1 DEF SigDelete, SigDeleteCanary, HbCheck, HbTouch
    <2>2. CASE SigExit(j) \/ ExecuteFails(j) \/ LeaveWithoutCleanup(j)
      BY <2>2 DEF SigExit, ExecuteFails,
      LeaveWithoutCleanup, EndProcess, EndMain
    <2>3. CASE CommandEnds(j) \/ Signal(j)
      BY <2>3 DEF CommandEnds, StartDeleting, Signal
    <2> QED
      BY <1>4, <2>1, <2>2, <2>3 DEF HandlerStep, HeartbeatStep
  <1>5. ASSUME NEW p \in Procs, Crash(p) PROVE Goal
    <2>1. CASE p \in Jails
      BY <1>5, <2>1 DEF Crash, EndProcess, EndMain
    <2>2. CASE p \notin Jails
      BY <1>5, <2>2 DEF Crash, EndMain
    <2> QED  BY <2>1, <2>2
  <1>6. CASE Tick  BY <1>6 DEF Tick
  <1>7. CASE UNCHANGED vars  BY <1>7 DEF vars
  <1> QED
    BY <1>1, <1>2, <1>3, <1>4, <1>5, <1>6, <1>7
    DEF Next, JailStep, CleanerStep

LEMMA NextLiveCanary == IInv /\ [Next]_vars => LiveCanary'
  <1> SUFFICES ASSUME IInv, [Next]_vars PROVE LiveCanary'  OBVIOUS
  <1> USE ConstantsAssumption
      DEF IInv, TypeOK, PcValues, SetupSteps, Deleting, Procs, host, threads,
          Goto, LiveCanary
  <1>1. ASSUME NEW p \in Procs, ProcStep(p) PROVE LiveCanary'
    <2>1. CASE FinishOrphan(p)
      <3>1. target[p] \in Jails /\ Over(target[p])
        BY <2>1 DEF FinishOrphan, TargetsOver
      <3>2. ~(pc[target[p]] \in SetupSteps)
            /\ ~(pc[target[p]] = "running" /\ ~stop[target[p]])
        BY <3>1 DEF Over
      <3> QED  BY <2>1, <3>1, <3>2 DEF FinishOrphan, RemoveCanary
    <2> QED
      BY <1>1, <2>1
      DEF ProcStep, StartScan, SkipEntry, FindOrphan, ScanError, DeleteStep,
          FinishScan, StartDeleting, EndMain
  <1>2. ASSUME NEW c \in Cleaners, NetnsEntry(c) \/ FinishNetns(c) \/ Rerun(c)
        PROVE  LiveCanary'
    BY <1>2 DEF NetnsEntry, FinishNetns, Rerun
  <1>3. ASSUME NEW j \in Jails, MainStep(j) PROVE LiveCanary'
    <2>1. CASE ProcStep(j)  BY <1>1, <2>1
    <2>2. CASE FinishFields(j) \/ Exit(j)
      BY <2>2 DEF FinishFields, Exit, EndProcess, EndMain
    <2>3. CASE CreateCanary(j)
      BY <2>3 DEF CreateCanary, WriteCanary
    <2>4. CASE StartHeartbeat(j)
      BY <2>4 DEF StartHeartbeat, WriteCanary
    <2>5. CASE AbandonSetup(j) \/ FinishDrop(j) \/ DeleteCanary(j)
      BY <2>5
      DEF AbandonSetup, FinishDrop, DeleteCanary, RemoveCanary, StartDeleting
    <2> QED
      BY <1>3, <2>1, <2>2, <2>3, <2>4, <2>5
      DEF MainStep, ListNetworks, KeepNetwork, FindOrphanNetwork,
          RemoveNetwork, FinishNetScan, CreateResource, SetupFails,
          CanaryFails, StartDeleting
  <1>4. ASSUME NEW j \in Jails,
               HandlerStep(j) \/ HeartbeatStep(j) \/ CommandEnds(j)
                 \/ ExecuteFails(j) \/ LeaveWithoutCleanup(j) \/ Signal(j)
        PROVE  LiveCanary'
    <2>1. CASE SigDelete(j)
      BY <2>1 DEF SigDelete
    <2>2. CASE SigDeleteCanary(j)
      <3>1. stop[j] /\ pc[j] \in {"running", "cleanup", "exit"}
        BY <2>2 DEF SigDeleteCanary, Roles
      <3> QED  BY <2>2, <3>1 DEF SigDeleteCanary, RemoveCanary
    <2>3. CASE SigExit(j) \/ ExecuteFails(j) \/ LeaveWithoutCleanup(j)
      BY <2>3 DEF SigExit, ExecuteFails,
      LeaveWithoutCleanup, EndProcess, EndMain
    <2>4. CASE HbCheck(j)
      BY <2>4 DEF HbCheck
    <2>5. CASE HbTouch(j)
      BY <2>5 DEF HbTouch, WriteCanary
    <2>6. CASE CommandEnds(j)
      BY <2>6 DEF CommandEnds, StartDeleting
    <2>7. CASE Signal(j)
      BY <2>7 DEF Signal
    <2> QED
      BY <1>4, <2>1, <2>2, <2>3, <2>4, <2>5, <2>6, <2>7
      DEF HandlerStep, HeartbeatStep
  <1>5. ASSUME NEW p \in Procs, Crash(p) PROVE LiveCanary'
    <2>1. CASE p \in Jails
      BY <1>5, <2>1 DEF Crash, EndProcess, EndMain
    <2>2. CASE p \notin Jails
      BY <1>5, <2>2 DEF Crash, EndMain
    <2> QED  BY <2>1, <2>2
  <1>6. CASE Tick
    <2>1. ASSUME NEW j \in Jails, j \in canary, age[j] \in Nat
          PROVE  age'[j] \in Nat /\ age'[j] <= age[j] + 1
      BY <1>6, <2>1 DEF Tick, Older
    <2>2. \A j \in canary : Punctual(j)
      BY <1>6 DEF Tick
    <2> QED
      BY <1>6, <2>1, <2>2 DEF Tick, Punctual
  <1>7. CASE UNCHANGED vars  BY <1>7 DEF vars
  <1> QED
    BY <1>1, <1>2, <1>3, <1>4, <1>5, <1>6, <1>7
    DEF Next, JailStep, CleanerStep

\* Canaries and resources come into being only for jails that have one.
LEMMA NextNothingBeforeCanary == IInv /\ [Next]_vars => NothingBeforeCanary'
  <1> SUFFICES ASSUME IInv, [Next]_vars, NEW k \in Jails, pc'[k] \in PreCanary
               PROVE  k \notin canary' /\ res'[k] = {}
    BY DEF NothingBeforeCanary
  <1>0. k \notin canary /\ res[k] = {} /\ pc[k] \in PreCanary
    BY OverIsForGood DEF IInv, NothingBeforeCanary
  <1>1. CASE /\ canary' \subseteq canary
             /\ res'[k] \subseteq res[k]
    BY <1>0, <1>1
  <1>2. ASSUME NEW j \in Jails,
               CreateCanary(j) \/ StartHeartbeat(j) \/ CreateResource(j)
                 \/ HbTouch(j)
        PROVE  k \notin canary' /\ res'[k] = {}
    <2>1. pc'[j] \notin PreCanary
      BY <1>2
      DEF IInv, TypeOK, Roles, Procs, CreateCanary, StartHeartbeat,
          CreateResource, HbTouch, Goto, PreCanary
    <2>2. k # j  BY <2>1
    <2> QED
      BY <1>0, <1>2, <2>2
      DEF IInv, TypeOK, CreateCanary, StartHeartbeat, CreateResource, HbTouch,
          WriteCanary
  <1> USE DEF IInv, TypeOK, host, RemoveCanary, DeleteResource
  <1>3. ASSUME NEW p \in Procs, ProcStep(p)
        PROVE  canary' \subseteq canary /\ res'[k] \subseteq res[k]
    BY <1>3
    DEF ProcStep, StartScan, SkipEntry, FindOrphan, ScanError, DeleteStep,
        FinishOrphan, FinishScan
  <1>4. ASSUME NEW c \in Cleaners, NetnsEntry(c) \/ FinishNetns(c) \/ Rerun(c)
        PROVE  canary' \subseteq canary /\ res'[k] \subseteq res[k]
    BY <1>4 DEF NetnsEntry, FinishNetns, Rerun
  <1>5. ASSUME NEW j \in Jails, MainStep(j),
               ~(CreateCanary(j) \/ StartHeartbeat(j) \/ CreateResource(j))
        PROVE  canary' \subseteq canary /\ res'[k] \subseteq res[k]
    <2>1. CASE ProcStep(j)  BY <1>3, <2>1 DEF Procs
    <2> QED
      BY <1>5, <2>1
      DEF MainStep, ListNetworks, KeepNetwork, FindOrphanNetwork,
          RemoveNetwork, FinishNetScan, SetupFails, AbandonSetup, CanaryFails,
          FinishDrop, DeleteCanary, FinishFields, Exit, EndProcess
  <1>6. ASSUME NEW j \in Jails,
               HandlerStep(j) \/ HbCheck(j) \/ CommandEnds(j)
                 \/ ExecuteFails(j) \/ LeaveWithoutCleanup(j) \/ Signal(j)
        PROVE  canary' \subseteq canary /\ res'[k] \subseteq res[k]
    BY <1>6
    DEF HandlerStep, SigDelete, SigDeleteCanary, SigExit, HbCheck,
        CommandEnds, ExecuteFails, LeaveWithoutCleanup, Signal, EndProcess
  <1>7. ASSUME NEW p \in Procs, Crash(p)
        PROVE  canary' \subseteq canary /\ res'[k] \subseteq res[k]
    BY <1>7 DEF Crash, EndProcess
  <1>8. CASE Tick \/ UNCHANGED vars
    BY <1>1, <1>8 DEF Tick, vars
  <1>9. ASSUME NEW j \in Jails, JailStep(j)
        PROVE  k \notin canary' /\ res'[k] = {}
    <2>1. CASE CreateCanary(j) \/ StartHeartbeat(j) \/ CreateResource(j)
                 \/ HbTouch(j)
      BY <1>2, <2>1
    <2>2. CASE MainStep(j)
      BY <1>1, <1>5, <2>1, <2>2
    <2>3. CASE HandlerStep(j) \/ HbCheck(j) \/ CommandEnds(j)
                 \/ ExecuteFails(j) \/ LeaveWithoutCleanup(j) \/ Signal(j)
      BY <1>1, <1>6, <2>3
    <2> QED  BY <1>9, <2>1, <2>2, <2>3 DEF JailStep, HeartbeatStep
  <1>10. ASSUME NEW c \in Cleaners, CleanerStep(c) \/ Rerun(c)
         PROVE  k \notin canary' /\ res'[k] = {}
    BY <1>1, <1>3, <1>4, <1>10 DEF CleanerStep, Procs
  <1>11. ASSUME NEW p \in Procs, Crash(p)
         PROVE  k \notin canary' /\ res'[k] = {}
    BY <1>1, <1>7, <1>11
  <1> QED
    BY <1>8, <1>9, <1>10, <1>11 DEF Next

\* An expired canary belongs to a jail that is over.
LEMMA ExpiredIsOver ==
    ASSUME IInv, SetupDelay <= CleanupTimeout,
           NEW p \in Procs, NEW k \in canary, age[k] > Timeout(p)
    PROVE  k \in Jails /\ Over(k)
  <1>0. k \in Jails /\ age[k] \in Nat
    BY DEF IInv, TypeOK
  <1>1. age[k] > SetupDelay /\ age[k] > HeartbeatDelay
    BY <1>0, ConstantsAssumption DEF Timeout
  <1>2. pc[k] \notin SetupSteps /\ ~(pc[k] = "running" /\ ~stop[k])
    BY <1>0, <1>1, ConstantsAssumption DEF IInv, LiveCanary
  <1>3. pc[k] \notin PreCanary /\ pc[k] # "netns"
    BY <1>0 DEF IInv, NothingBeforeCanary, Roles
  <1>4. pc[k] \in PcValues
    BY <1>0 DEF IInv, TypeOK, Procs
  <1> QED
    BY <1>0, <1>2, <1>3, <1>4 DEF Over, PcValues, PreCanary, Deleting

\* A network without canary that is older than its listing is over.
LEMMA UnmarkedIsOver ==
    ASSUME IInv, NEW k \in Jails, k \notin canary, pc[k] \notin PreCanary
    PROVE  Over(k)
  <1>1. pc[k] \notin SetupSteps /\ ~(pc[k] = "running" /\ ~stop[k])
    BY DEF IInv, LiveCanary
  <1>2. pc[k] # "netns" /\ pc[k] \in PcValues
    BY DEF IInv, TypeOK, Roles, Procs
  <1> QED
    BY <1>1, <1>2 DEF Over, PcValues, PreCanary, Deleting

LEMMA NextTargetsOver ==
    ASSUME SetupDelay <= CleanupTimeout, IInv, [Next]_vars
    PROVE  TargetsOver'
  <1>0. \A k \in Jails : /\ Over(k) => Over(k)'
                         /\ pc[k] \notin PreCanary => pc'[k] \notin PreCanary
    BY OverIsForGood
  <1> USE ConstantsAssumption
      DEF IInv, TypeOK, PcValues, SetupSteps, Deleting, Procs, host, threads,
          Goto, TargetsOver
  <1>e. ASSUME NEW j \in Jails, NEW how \in {"done", "failed", "gone"},
               EndProcess(j, how)
        PROVE  TargetsOver'
    <2>1. /\ pc' = [pc EXCEPT ![j] = how] /\ todo' = [todo EXCEPT ![j] = {}]
          /\ target' = [target EXCEPT ![j] = None]
      BY <1>e DEF EndProcess, EndMain
    <2> QED  BY <1>0, <2>1
  <1>1. ASSUME NEW p \in Procs, ProcStep(p) PROVE TargetsOver'
    <2>1. CASE FindOrphan(p)
      <3>1. PICK k \in todo[p] :
               /\ k \in canary /\ age[k] > Timeout(p)
               /\ StartDeleting(p, "reap", k, OrphanKinds(p))
        BY <2>1 DEF FindOrphan
      <3>2. k \in Jails /\ Over(k)'
        BY <1>0, <3>1, ExpiredIsOver
      <3> QED
        BY <1>0, <2>1, <3>1, <3>2 DEF FindOrphan, StartDeleting
    <2>2. CASE ScanError(p)
      BY <1>0, <2>2 DEF ScanError, StartDeleting, EndMain
    <2>3. CASE FinishOrphan(p)
      BY <1>0, <2>3 DEF FinishOrphan
    <2>4. CASE FinishScan(p)
      BY <1>0, <2>4 DEF FinishScan
    <2>5. CASE StartScan(p) \/ SkipEntry(p) \/ DeleteStep(p)
      BY <1>0, <2>5 DEF StartScan, SkipEntry, DeleteStep
    <2> QED
      BY <1>1, <2>1, <2>2, <2>3, <2>4, <2>5 DEF ProcStep
  <1>2. ASSUME NEW c \in Cleaners, NetnsEntry(c) \/ FinishNetns(c) \/ Rerun(c)
        PROVE  TargetsOver'
    BY <1>0, <1>2 DEF NetnsEntry, FinishNetns, Rerun
  <1>3. ASSUME NEW j \in Jails, MainStep(j) PROVE TargetsOver'
    <2>1. CASE ProcStep(j)  BY <1>1, <2>1
    <2>2. CASE FinishFields(j) \/ Exit(j)
      BY <1>e, <2>2 DEF FinishFields, Exit
    <2>3. CASE ListNetworks(j)
      <3>1. \A k \in Jails : "network" \in res[k] => pc'[k] \notin PreCanary
        BY <1>0 DEF NothingBeforeCanary
      <3> QED  BY <1>0, <2>3, <3>1 DEF ListNetworks
    <2>4. CASE FindOrphanNetwork(j)
      <3>1. PICK k \in todo[j] \ canary : target' = [target EXCEPT ![j] = k]
        BY <2>4 DEF FindOrphanNetwork
      <3>2. k \in Jails /\ Over(k)'
        BY <1>0, <2>4, <3>1, UnmarkedIsOver DEF FindOrphanNetwork
      <3> QED  BY <1>0, <2>4, <3>1, <3>2 DEF FindOrphanNetwork
    <2>5. CASE KeepNetwork(j) \/ RemoveNetwork(j) \/ FinishNetScan(j)
      <3>1. CASE KeepNetwork(j)  BY <1>0, <3>1 DEF KeepNetwork
      <3>2. CASE RemoveNetwork(j)
        BY <1>0, <3>2 DEF RemoveNetwork
      <3>3. CASE FinishNetScan(j)  BY <1>0, <3>3 DEF FinishNetScan
      <3> QED  BY <2>5, <3>1, <3>2, <3>3
    <2>6. CASE CreateCanary(j) \/ CreateResource(j) \/ SetupFails(j)
               \/ StartHeartbeat(j) \/ DeleteCanary(j)
      BY <1>0, <2>6
      DEF CreateCanary, CreateResource, SetupFails, StartHeartbeat,
          DeleteCanary
    <2>7. CASE AbandonSetup(j) \/ CanaryFails(j) \/ FinishDrop(j)
      BY <1>0, <2>7 DEF AbandonSetup, CanaryFails, FinishDrop, StartDeleting
    <2> QED
      BY <1>3, <2>1, <2>2, <2>3, <2>4, <2>5, <2>6, <2>7 DEF MainStep
  <1>4. ASSUME NEW j \in Jails,
               HandlerStep(j) \/ HeartbeatStep(j) \/ CommandEnds(j)
                 \/ ExecuteFails(j) \/ LeaveWithoutCleanup(j) \/ Signal(j)
        PROVE  TargetsOver'
    <2>1. CASE SigDelete(j) \/ SigDeleteCanary(j) \/ HbCheck(j) \/ HbTouch(j)
               \/ Signal(j)
      BY <1>0, <2>1 DEF SigDelete, SigDeleteCanary, HbCheck, HbTouch, Signal
    <2>2. CASE SigExit(j) \/ ExecuteFails(j) \/ LeaveWithoutCleanup(j)
      BY <1>e, <2>2 DEF SigExit, ExecuteFails, LeaveWithoutCleanup
    <2>3. CASE CommandEnds(j)
      BY <1>0, <2>3 DEF CommandEnds, StartDeleting
    <2> QED
      BY <1>4, <2>1, <2>2, <2>3 DEF HandlerStep, HeartbeatStep
  <1>5. ASSUME NEW p \in Procs, Crash(p) PROVE TargetsOver'
    <2>1. CASE p \in Jails
      BY <1>e, <1>5, <2>1 DEF Crash
    <2>2. CASE p \notin Jails
      BY <1>0, <1>5, <2>2 DEF Crash, EndMain
    <2> QED  BY <2>1, <2>2
  <1>6. CASE Tick  BY <1>0, <1>6 DEF Tick
  <1>7. CASE UNCHANGED vars  BY <1>0, <1>7 DEF vars
  <1> QED
    BY <1>1, <1>2, <1>3, <1>4, <1>5, <1>6, <1>7
    DEF Next, JailStep, CleanerStep

LEMMA NextIInv ==
    ASSUME SetupDelay <= CleanupTimeout, IInv, [Next]_vars
    PROVE  IInv'
  BY NextType, NextRoles, NextLiveCanary, NextNothingBeforeCanary,
     NextTargetsOver
  DEF IInv

LEMMA Invariance ==
    ASSUME SetupDelay <= CleanupTimeout
    PROVE  Spec => []IInv
  <1>1. IInv /\ [Next]_vars => IInv'  BY NextIInv
  <1> QED  BY InitIInv, <1>1, PTL DEF Spec

\* A resource goes only by the hand of its own process, once it is over, or
\* of a scan whose target is over.
LEMMA NextKeeps == IInv /\ [Next]_vars => [KeepsLiveResources]_vars
  <1> SUFFICES ASSUME IInv, Next, NEW k \in Jails, InUse(k)
               PROVE  res[k] \subseteq res'[k]
    BY DEF KeepsLiveResources, vars
  <1>0. ~Over(k) /\ sig[k] = "idle"
    BY DEF IInv, TypeOK, Roles, InUse, Over, SetupSteps
  <1> USE DEF IInv, TypeOK, host
  <1>1. CASE res' = res
    BY <1>1
  <1>2. ASSUME NEW p \in Procs, DeleteStep(p)
        PROVE  res[k] \subseteq res'[k]
    <2>1. target[p] \in Jails => Over(target[p])
      BY <1>2, ConstantsAssumption
      DEF DeleteStep, Deleting, TargetsOver, Over, Roles, Procs
    <2>2. target[p] # k
      BY <1>0, <2>1
    <2> QED  BY <1>2, <2>2 DEF DeleteStep, DeleteResource
  <1>3. ASSUME NEW c \in Cleaners, NetnsEntry(c)
        PROVE  res[k] \subseteq res'[k]
    <2>1. \A i \in Jails : k \notin JailsNamed(NetnsCleanupId(NetnsName(i)))
      BY NamesAssumption DEF JailsNamed, NetnsCleanupId, NetnsName
    <2> QED  BY <1>3, <2>1 DEF NetnsEntry, Procs
  <1>4. ASSUME NEW j \in Jails, RemoveNetwork(j)
        PROVE  res[k] \subseteq res'[k]
    <2>1. target[j] # k
      BY <1>0, <1>4 DEF RemoveNetwork, TargetsOver
    <2> QED  BY <1>4, <2>1 DEF RemoveNetwork, DeleteResource
  <1>5. ASSUME NEW j \in Jails, SigDelete(j)
        PROVE  res[k] \subseteq res'[k]
    BY <1>0, <1>5 DEF SigDelete, DeleteResource
  <1>6. ASSUME NEW j \in Jails, CreateResource(j)
        PROVE  res[k] \subseteq res'[k]
    BY <1>6 DEF CreateResource
  <1>7. ASSUME NEW p \in Procs, ProcStep(p) PROVE res[k] \subseteq res'[k]
    BY <1>1, <1>2, <1>7
    DEF ProcStep, StartScan, SkipEntry, FindOrphan, ScanError, FinishOrphan,
        FinishScan
  <1>8. ASSUME NEW j \in Jails, JailStep(j) PROVE res[k] \subseteq res'[k]
    <2>1. CASE ProcStep(j)  BY <1>7, <2>1 DEF Procs
    <2> QED
      BY <1>1, <1>4, <1>5, <1>6, <1>8, <2>1
      DEF JailStep, MainStep, CreateCanary, ListNetworks, KeepNetwork,
          FindOrphanNetwork, FinishNetScan, SetupFails, AbandonSetup,
          CanaryFails, StartHeartbeat, FinishDrop, FinishFields, DeleteCanary,
          Exit, EndProcess, HandlerStep, SigDeleteCanary, SigExit,
          HeartbeatStep, HbCheck, HbTouch, CommandEnds, ExecuteFails,
          LeaveWithoutCleanup,
          Signal
  <1>9. CASE (\E c \in Cleaners : FinishNetns(c) \/ Rerun(c))
             \/ (\E p \in Procs : Crash(p)) \/ Tick
    BY <1>1, <1>9 DEF FinishNetns, Rerun, Crash, EndProcess, Tick
  <1> QED
    BY <1>3, <1>7, <1>8, <1>9 DEF Next, CleanerStep, Procs

\* With canaries created before the resources, and a setup no longer than the
\* shortest orphan timeout, no scan of any process ever takes a resource from
\* a jail in use, whatever crashes and failures there are.
THEOREM LiveJailsKeepTheirResources ==
    ASSUME SetupDelay <= CleanupTimeout
    PROVE  Spec => LiveJailKeepsResources
  <1>1. IInv /\ [Next]_vars => [KeepsLiveResources]_vars
    BY NextKeeps
  <1> QED  BY <1>1, Invariance, PTL DEF Spec, LiveJailKeepsResources

-----------------------------------------------------------------------------
(* What a jail process leaves behind.                                        *)

\* Resources come into being only while their own jail sets up.
LEMMA OnlySetupCreates ==
    ASSUME TypeOK, [Next]_vars, NEW k \in Jails
    PROVE  res'[k] \subseteq res[k] \/ CreateResource(k)
  <1> USE DEF TypeOK, host, DeleteResource
  <1>1. ASSUME NEW p \in Procs, ProcStep(p) PROVE res'[k] \subseteq res[k]
    BY <1>1
    DEF ProcStep, StartScan, SkipEntry, FindOrphan, ScanError, DeleteStep,
        FinishOrphan, FinishScan
  <1>2. ASSUME NEW c \in Cleaners, CleanerStep(c) \/ Rerun(c)
        PROVE  res'[k] \subseteq res[k]
    BY <1>1, <1>2 DEF CleanerStep, NetnsEntry, FinishNetns, Rerun, Procs
  <1>3. ASSUME NEW j \in Jails, CreateResource(j)
        PROVE  res'[k] \subseteq res[k] \/ CreateResource(k)
    <2>1. CASE j = k  BY <1>3, <2>1
    <2>2. CASE j # k  BY <1>3, <2>2 DEF CreateResource
    <2> QED  BY <2>1, <2>2
  <1>4. ASSUME NEW j \in Jails, MainStep(j), ~CreateResource(j)
        PROVE  res'[k] \subseteq res[k]
    <2>1. CASE ProcStep(j)  BY <1>1, <2>1 DEF Procs
    <2> QED
      BY <1>4, <2>1
      DEF MainStep, CreateCanary, ListNetworks, KeepNetwork,
          FindOrphanNetwork, RemoveNetwork, FinishNetScan, SetupFails,
          AbandonSetup, CanaryFails, StartHeartbeat, FinishDrop, DeleteCanary,
          FinishFields, Exit, EndProcess
  <1>5. ASSUME NEW j \in Jails,
               HandlerStep(j) \/ HeartbeatStep(j) \/ CommandEnds(j)
                 \/ ExecuteFails(j) \/ LeaveWithoutCleanup(j) \/ Signal(j)
        PROVE  res'[k] \subseteq res[k]
    BY <1>5
    DEF HandlerStep, SigDelete, SigDeleteCanary, SigExit, HeartbeatStep,
        HbCheck, HbTouch, CommandEnds, ExecuteFails,
        LeaveWithoutCleanup, Signal, EndProcess
  <1>6. ASSUME NEW p \in Procs, Crash(p) PROVE res'[k] \subseteq res[k]
    BY <1>6 DEF Crash, EndProcess
  <1>7. CASE Tick \/ UNCHANGED vars  BY <1>7 DEF Tick, vars
  <1> QED
    BY <1>2, <1>3, <1>4, <1>5, <1>6, <1>7 DEF Next, JailStep

\* The main thread and the signal handler each go through the Linux resources
\* of their own jail, and come to their end only when none is left.
OwnCleanup ==
    \A j \in Jails :
        /\ pc[j] \in {"drop", "cleanup"} =>
             target[j] = j /\ LinuxLeft(j) \subseteq left[j]
        /\ pc[j] \in {"exit", "fields", "done"} => LinuxLeft(j) = {}
        /\ sig[j] = "cleanup" => LinuxLeft(j) \subseteq sigLeft[j]
        /\ sig[j] = "exit" => LinuxLeft(j) = {}

LEMMA InitOwnCleanup == Init => OwnCleanup
  BY ConstantsAssumption DEF Init, OwnCleanup, Procs

\* Without failures a deletion takes the resource away.
LEMMA DeletesForGood ==
    ASSUME DeleteMayFail = FALSE, TypeOK, NEW j \in Jails, NEW k,
           DeleteResource(j, k)
    PROVE  res'[j] = res[j] \ {k}
  BY DEF DeleteResource, TypeOK

LEMMA NextOwnCleanup ==
    ASSUME DeleteMayFail = FALSE, TypeOK, Roles, OwnCleanup, [Next]_vars
    PROVE  OwnCleanup'
  <1> SUFFICES ASSUME NEW k \in Jails
               PROVE  (/\ pc[k] \in {"drop", "cleanup"} =>
                            target[k] = k /\ LinuxLeft(k) \subseteq left[k]
                       /\ pc[k] \in {"exit", "fields", "done"} =>
                            LinuxLeft(k) = {}
                       /\ sig[k] = "cleanup" => LinuxLeft(k) \subseteq sigLeft[k]
                       /\ sig[k] = "exit" => LinuxLeft(k) = {})'
    BY DEF OwnCleanup
  <1> DEFINE Goal == (/\ pc[k] \in {"drop", "cleanup"} =>
                            target[k] = k /\ LinuxLeft(k) \subseteq left[k]
                      /\ pc[k] \in {"exit", "fields", "done"} =>
                            LinuxLeft(k) = {}
                      /\ sig[k] = "cleanup" => LinuxLeft(k) \subseteq sigLeft[k]
                      /\ sig[k] = "exit" => LinuxLeft(k) = {})'
  <1>0. /\ pc[k] \in {"drop", "cleanup"} =>
             target[k] = k /\ LinuxLeft(k) \subseteq left[k]
        /\ pc[k] \in {"exit", "fields", "done"} => LinuxLeft(k) = {}
        /\ sig[k] = "cleanup" => LinuxLeft(k) \subseteq sigLeft[k]
        /\ sig[k] = "exit" => LinuxLeft(k) = {}
    BY DEF OwnCleanup
  <1>t. k \in Procs  BY DEF Procs
  <1>1. CASE CreateResource(k)
    <2>1. pc[k] = "setup" /\ pc'[k] = "setup" /\ sig'[k] = sig[k]
      BY <1>1 DEF CreateResource, threads
    <2>2. sig[k] = "idle"
      BY <2>1 DEF Roles, TypeOK
    <2> QED  BY <2>1, <2>2
  <1> SUFFICES ASSUME LinuxLeft(k)' \subseteq LinuxLeft(k) PROVE Goal
    BY <1>1, OnlySetupCreates DEF LinuxLeft
  <1> HIDE DEF Goal
  <1>2. CASE UNCHANGED <<pc[k], target[k], left[k], sig[k], sigLeft[k]>>
    BY <1>0, <1>2 DEF Goal
  <1> USE DEF Goto, threads, host, TypeOK
  <1>3. ASSUME ProcStep(k) PROVE Goal
    <2>1. CASE DeleteStep(k)
      <3>1. PICK r \in left[k] : /\ left' = [left EXCEPT ![k] = @ \ {r}]
                                 /\ DeleteResource(target[k], r)
        BY <2>1 DEF DeleteStep
      <3>2. UNCHANGED <<pc, target, sig, sigLeft>>  BY <2>1 DEF DeleteStep
      <3>3. pc[k] \in {"drop", "cleanup"} => res'[k] = res[k] \ {r}
        BY <1>0, <3>1 DEF DeleteResource
      <3>4. pc[k] \in {"drop", "cleanup"} =>
              target[k] = k /\ LinuxLeft(k)' \subseteq left'[k]
        BY <1>0, <1>t, <3>1, <3>3 DEF LinuxLeft
      <3> QED  BY <1>0, <3>2, <3>4 DEF Goal
    <2>2. CASE ScanError(k)
      <3>1. pc'[k] = "drop" /\ target'[k] = k /\ left'[k] = LinuxKinds
        BY <1>t, <2>2 DEF ScanError, StartDeleting
      <3>2. UNCHANGED <<sig, sigLeft>>  BY <2>2 DEF ScanError
      <3> QED  BY <1>0, <3>1, <3>2 DEF Goal, LinuxLeft
    <2>3. CASE \/ StartScan(k) \/ SkipEntry(k) \/ FindOrphan(k)
               \/ FinishOrphan(k) \/ FinishScan(k)
      <3>1. pc'[k] \in {"scan", "reap", "canary"} /\ UNCHANGED <<sig, sigLeft>>
        BY <1>t, <2>3
        DEF StartScan, SkipEntry, FindOrphan, FinishOrphan, FinishScan,
            StartDeleting
      <3> QED  BY <1>0, <3>1 DEF Goal
    <2> QED  BY <1>3, <2>1, <2>2, <2>3 DEF ProcStep
  <1>4. ASSUME MainStep(k) PROVE Goal
    <2>1. CASE ProcStep(k)  BY <1>3, <2>1
    <2>2. CASE \/ CreateCanary(k) \/ ListNetworks(k) \/ KeepNetwork(k)
               \/ FindOrphanNetwork(k) \/ RemoveNetwork(k) \/ FinishNetScan(k)
               \/ CreateResource(k) \/ SetupFails(k) \/ StartHeartbeat(k)
      <3>1. pc'[k] \in {"listNets", "netScan", "netRm", "setup", "setupErr",
                        "running"}
        BY <1>t, <2>2
        DEF CreateCanary, ListNetworks, KeepNetwork, FindOrphanNetwork,
            RemoveNetwork, FinishNetScan, CreateResource, SetupFails,
            StartHeartbeat
      <3>2. UNCHANGED <<sig, sigLeft>>
        BY <2>2
        DEF CreateCanary, ListNetworks, KeepNetwork, FindOrphanNetwork,
            RemoveNetwork, FinishNetScan, CreateResource, SetupFails,
            StartHeartbeat
      <3> QED  BY <1>0, <3>1, <3>2 DEF Goal
    <2>3. CASE AbandonSetup(k) \/ CanaryFails(k)
      <3>1. pc'[k] = "drop" /\ target'[k] = k /\ left'[k] = LinuxKinds
        BY <1>t, <2>3 DEF AbandonSetup, CanaryFails, StartDeleting
      <3>2. UNCHANGED <<sig, sigLeft>>
        BY <2>3 DEF AbandonSetup, CanaryFails
      <3> QED  BY <1>0, <3>1, <3>2 DEF Goal, LinuxLeft
    <2>4. CASE FinishDrop(k) \/ DeleteCanary(k)
      <3>1. pc[k] \in {"drop", "cleanup"} /\ left[k] = {}
            /\ pc'[k] \in {"fields", "exit"} /\ UNCHANGED <<sig, sigLeft>>
        BY <1>t, <2>4 DEF FinishDrop, DeleteCanary, StartDeleting
      <3> QED  BY <1>0, <3>1 DEF Goal
    <2>5. CASE FinishFields(k) \/ Exit(k)
      <3>1. pc[k] \in {"fields", "exit"} /\ pc'[k] = "done" /\ sig'[k] = "idle"
        BY <1>t, <2>5 DEF FinishFields, Exit, EndProcess, EndMain
      <3> QED  BY <1>0, <3>1 DEF Goal
    <2> QED
      BY <1>4, <2>1, <2>2, <2>3, <2>4, <2>5 DEF MainStep
  <1>5. ASSUME HandlerStep(k) PROVE Goal
    <2>1. CASE SigDelete(k)
      <3>1. PICK r \in sigLeft[k] : /\ sigLeft' = [sigLeft EXCEPT ![k] = @ \ {r}]
                                    /\ DeleteResource(k, r)
        BY <2>1 DEF SigDelete
      <3>2. UNCHANGED <<pc, target, left, sig>>  BY <2>1 DEF SigDelete
      <3>3. res'[k] = res[k] \ {r}  BY <3>1, DeletesForGood
      <3> QED  BY <1>0, <3>1, <3>2, <3>3 DEF Goal, LinuxLeft
    <2>2. CASE SigDeleteCanary(k)
      <3>1. UNCHANGED <<pc, target, left>> /\ sig'[k] = "exit"
            /\ sig[k] = "cleanup" /\ sigLeft[k] = {}
        BY <2>2 DEF SigDeleteCanary
      <3> QED  BY <1>0, <3>1 DEF Goal
    <2>3. CASE SigExit(k)
      <3>1. sig[k] = "exit" /\ pc'[k] = "done" /\ sig'[k] = "idle"
        BY <1>t, <2>3 DEF SigExit, EndProcess, EndMain
      <3> QED  BY <1>0, <3>1 DEF Goal
    <2> QED  BY <1>5, <2>1, <2>2, <2>3 DEF HandlerStep
  <1>6. ASSUME HeartbeatStep(k) \/ CommandEnds(k) \/ ExecuteFails(k)
                 \/ LeaveWithoutCleanup(k) \/ Signal(k) \/ Crash(k)
        PROVE  Goal
    <2>1. CASE HbCheck(k) \/ HbTouch(k)
      BY <1>2, <2>1 DEF HbCheck, HbTouch
    <2>2. CASE CommandEnds(k)
      <3>1. pc'[k] = "cleanup" /\ target'[k] = k /\ left'[k] = LinuxKinds
        BY <1>t, <2>2 DEF CommandEnds, StartDeleting
      <3>2. UNCHANGED <<sig, sigLeft>>  BY <2>2 DEF CommandEnds
      <3> QED  BY <1>0, <3>1, <3>2 DEF Goal, LinuxLeft
    <2>3. CASE ExecuteFails(k) \/ LeaveWithoutCleanup(k) \/ Crash(k)
      <3>1. pc'[k] \in {"failed", "gone"} /\ sig'[k] = "idle"
        BY <1>t, <2>3
        DEF ExecuteFails, LeaveWithoutCleanup, Crash, EndProcess, EndMain
      <3> QED  BY <3>1 DEF Goal
    <2>4. CASE Signal(k)
      <3>1. UNCHANGED <<pc, target, left>> /\ sig'[k] = "cleanup"
            /\ sigLeft'[k] = LinuxKinds
        BY <2>4 DEF Signal
      <3> QED  BY <1>0, <3>1 DEF Goal, LinuxLeft
    <2> QED  BY <1>6, <2>1, <2>2, <2>3, <2>4 DEF HeartbeatStep
  <1>7. ASSUME NEW p \in Procs, p # k, ProcStep(p) \/ Crash(p) PROVE Goal
    <2>1. UNCHANGED <<pc[k], target[k], left[k], sig[k], sigLeft[k]>>
      BY <1>7, <1>t
      DEF ProcStep, StartScan, SkipEntry, FindOrphan, ScanError, DeleteStep,
          FinishOrphan, FinishScan, StartDeleting, Crash, EndProcess, EndMain
    <2> QED  BY <1>2, <2>1
  <1>8. ASSUME NEW j \in Jails, j # k, JailStep(j) PROVE Goal
    <2>1. CASE ProcStep(j)  BY <1>7, <1>8, <2>1 DEF Procs
    <2>2. CASE MainStep(j) /\ ~ProcStep(j)
      <3>1. UNCHANGED <<pc[k], target[k], left[k], sig[k], sigLeft[k]>>
        BY <1>8, <1>t, <2>2
        DEF MainStep, CreateCanary, ListNetworks, KeepNetwork,
            FindOrphanNetwork, RemoveNetwork, FinishNetScan, CreateResource,
            SetupFails, AbandonSetup, CanaryFails, StartHeartbeat, FinishDrop,
            DeleteCanary, FinishFields, Exit, EndProcess, EndMain,
            StartDeleting
      <3> QED  BY <1>2, <3>1
    <2>3. CASE HandlerStep(j) \/ HeartbeatStep(j) \/ CommandEnds(j)
               \/ ExecuteFails(j) \/ LeaveWithoutCleanup(j) \/ Signal(j)
      <3>1. UNCHANGED <<pc[k], target[k], left[k], sig[k], sigLeft[k]>>
        BY <1>8, <1>t, <2>3
        DEF HandlerStep, SigDelete, SigDeleteCanary, SigExit, HeartbeatStep,
            HbCheck, HbTouch, CommandEnds, ExecuteFails,
            LeaveWithoutCleanup, Signal,
            EndProcess, EndMain, StartDeleting
      <3> QED  BY <1>2, <3>1
    <2> QED  BY <1>8, <2>1, <2>2, <2>3 DEF JailStep
  <1>9. ASSUME NEW c \in Cleaners, CleanerStep(c) \/ Rerun(c) PROVE Goal
    <2>1. c # k /\ c \in Procs  BY ConstantsAssumption DEF Procs
    <2>2. CASE ProcStep(c)  BY <1>7, <2>1, <2>2
    <2>3. CASE NetnsEntry(c) \/ FinishNetns(c) \/ Rerun(c)
      BY <1>2, <1>t, <2>1, <2>3 DEF NetnsEntry, FinishNetns, Rerun
    <2> QED  BY <1>9, <2>2, <2>3 DEF CleanerStep
  <1>10. CASE Tick \/ UNCHANGED vars  BY <1>2, <1>10 DEF Tick, vars
  <1> QED
    BY <1>4, <1>5, <1>6, <1>7, <1>8, <1>9, <1>10 DEF Next, JailStep

\* A jail process that comes to the end of main's cleanup, of the cleanup of
\* its signal handler or of its Drop after a failed setup has deleted its
\* namespace, veth pair, nftables table and resolv.conf, whatever its setup,
\* other processes and the other threads did, if no deletion fails.  A process
\* whose execute failed never comes there; see EveryExitCleansUp.
THEOREM ExitsLeaveNoResources ==
    ASSUME DeleteMayFail = FALSE
    PROVE  Spec => []ExitLeavesNoResources
  <1> DEFINE Inv == TypeOK /\ Roles /\ OwnCleanup
  <1>1. Init => Inv  BY InitIInv, InitOwnCleanup DEF IInv
  <1>2. Inv /\ [Next]_vars => Inv'  BY NextType, NextRoles, NextOwnCleanup
  <1>3. Inv => ExitLeavesNoResources  BY DEF OwnCleanup, ExitLeavesNoResources
  <1> QED  BY <1>1, <1>2, <1>3, PTL DEF Spec

\* Whoever reaps a jail has its remaining Linux resources still on its list, no
\* setup fails, and every resource has its canary.
Discovery ==
    /\ \A p \in Procs : pc[p] = "reap" => LinuxLeft(target[p]) \subseteq left[p]
    /\ \A j \in Jails : pc[j] # "setupErr"
    /\ OrphansDiscoverable

LEMMA InitDiscovery == Init => Discovery
  BY ConstantsAssumption DEF Init, Discovery, OrphansDiscoverable, LinuxLeft, Procs

LEMMA ReapSteps ==
    ASSUME TypeOK, [Next]_vars, NEW p \in Procs, pc'[p] = "reap"
    PROVE  \/ DeleteStep(p) \/ FindOrphan(p)
           \/ UNCHANGED <<pc[p], target[p], left[p]>>
  <1> DEFINE Goal == \/ DeleteStep(p) \/ FindOrphan(p)
                     \/ UNCHANGED <<pc[p], target[p], left[p]>>
  <1> USE DEF TypeOK, Goto, threads, host
  <1>0. Jails \subseteq Procs /\ Cleaners \subseteq Procs  BY DEF Procs
  <1>1. ASSUME NEW q \in Procs, ProcStep(q) PROVE Goal
    <2>1. CASE q = p
      BY <1>1, <2>1
      DEF ProcStep, StartScan, SkipEntry, ScanError, FinishOrphan, FinishScan,
          StartDeleting, EndMain
    <2>2. CASE q # p
      BY <1>1, <2>2
      DEF ProcStep, StartScan, SkipEntry, FindOrphan, ScanError, DeleteStep,
          FinishOrphan, FinishScan, StartDeleting, EndMain
    <2> QED  BY <2>1, <2>2
  <1>2. ASSUME NEW c \in Cleaners, CleanerStep(c) \/ Rerun(c) PROVE Goal
    BY <1>0, <1>1, <1>2 DEF CleanerStep, NetnsEntry, FinishNetns, Rerun
  <1>3. ASSUME NEW j \in Jails, MainStep(j) PROVE Goal
    <2>1. CASE ProcStep(j)  BY <1>0, <1>1, <2>1
    <2>2. CASE \/ CreateCanary(j) \/ ListNetworks(j) \/ KeepNetwork(j)
               \/ FindOrphanNetwork(j) \/ RemoveNetwork(j) \/ FinishNetScan(j)
               \/ CreateResource(j) \/ SetupFails(j) \/ StartHeartbeat(j)
      BY <1>0, <2>2
      DEF CreateCanary, ListNetworks, KeepNetwork, FindOrphanNetwork,
          RemoveNetwork, FinishNetScan, CreateResource, SetupFails,
          StartHeartbeat
    <2>3. CASE \/ AbandonSetup(j) \/ CanaryFails(j) \/ FinishDrop(j)
               \/ DeleteCanary(j) \/ FinishFields(j) \/ Exit(j)
      BY <1>0, <2>3
      DEF AbandonSetup, CanaryFails, FinishDrop, DeleteCanary, FinishFields,
          Exit, EndProcess, EndMain, StartDeleting
    <2> QED  BY <1>3, <2>1, <2>2, <2>3 DEF MainStep
  <1>4. ASSUME NEW j \in Jails,
               HandlerStep(j) \/ HeartbeatStep(j) \/ CommandEnds(j)
                 \/ ExecuteFails(j) \/ LeaveWithoutCleanup(j) \/ Signal(j)
        PROVE  Goal
    BY <1>0, <1>4
    DEF HandlerStep, SigDelete, SigDeleteCanary, SigExit, HeartbeatStep,
        HbCheck, HbTouch, CommandEnds, ExecuteFails,
        LeaveWithoutCleanup, Signal, EndProcess,
        EndMain, StartDeleting
  <1>5. ASSUME NEW q \in Procs, Crash(q) PROVE Goal
    BY <1>5 DEF Crash, EndProcess, EndMain
  <1>6. CASE Tick \/ UNCHANGED vars  BY <1>6 DEF Tick, vars
  <1> QED  BY <1>2, <1>3, <1>4, <1>5, <1>6 DEF Next, JailStep

\* What is being reaped belongs to a jail that is over and creates nothing.
LEMMA NextReaps ==
    ASSUME DeleteMayFail = FALSE, IInv, [Next]_vars, NEW p \in Procs,
           pc[p] = "reap" => LinuxLeft(target[p]) \subseteq left[p],
           pc'[p] = "reap"
    PROVE  LinuxLeft(target[p])' \subseteq left'[p]
  <1>0. TypeOK  BY DEF IInv
  <1>1. CASE FindOrphan(p)
    <2>1. left'[p] = OrphanKinds(p)
      BY <1>0, <1>1 DEF FindOrphan, StartDeleting, TypeOK
    <2> QED  BY <2>1 DEF OrphanKinds, AllKinds, LinuxLeft
  <1>2. CASE pc[p] = "reap" /\ ~FindOrphan(p)
    <2>1. target[p] \in Jails /\ Over(target[p])
      BY <1>2 DEF IInv, TargetsOver
    <2>2. PICK k \in Jails : k = target[p]  BY <2>1
    <2>3. res'[k] \subseteq res[k]
      <3>1. ~CreateResource(k)  BY <2>1, <2>2 DEF Over, CreateResource
      <3> QED  BY <1>0, <3>1, OnlySetupCreates
    <2>4. LinuxLeft(k) \subseteq left[p]  BY <1>2, <2>2 DEF LinuxLeft
    <2>5. CASE DeleteStep(p)
      <3>1. PICK r \in left[p] : /\ left' = [left EXCEPT ![p] = @ \ {r}]
                                 /\ DeleteResource(target[p], r)
        BY <2>5 DEF DeleteStep
      <3>2. target'[p] = k  BY <2>2, <2>5 DEF DeleteStep
      <3>3. res'[k] = res[k] \ {r}
        BY <1>0, <2>2, <3>1 DEF DeleteResource, TypeOK
      <3>4. left'[p] = left[p] \ {r}  BY <1>0, <3>1 DEF TypeOK
      <3> QED  BY <2>4, <3>2, <3>3, <3>4 DEF LinuxLeft
    <2>6. CASE UNCHANGED <<pc[p], target[p], left[p]>>
      BY <2>2, <2>3, <2>4, <2>6 DEF LinuxLeft
    <2> QED  BY <1>0, <1>2, <2>5, <2>6, ReapSteps
  <1>3. CASE pc[p] # "reap" /\ ~FindOrphan(p)
    <2>1. DeleteStep(p) \/ pc'[p] = pc[p]  BY <1>0, <1>3, ReapSteps
    <2> QED  BY <1>3, <2>1 DEF DeleteStep
  <1> QED  BY <1>1, <1>2, <1>3

\* Who deletes a canary, and what it has deleted before.
LEMMA CanaryDeleted ==
    ASSUME TypeOK, [Next]_vars, NEW k \in Jails, k \in canary, k \notin canary'
    PROVE  \/ \E p \in Procs : pc[p] = "reap" /\ target[p] = k /\ left[p] = {}
           \/ pc[k] = "setupErr"
           \/ pc[k] \in {"drop", "cleanup"} /\ left[k] = {}
           \/ sig[k] = "cleanup" /\ sigLeft[k] = {}
  <1> DEFINE Goal ==
        \/ \E p \in Procs : pc[p] = "reap" /\ target[p] = k /\ left[p] = {}
        \/ pc[k] = "setupErr"
        \/ pc[k] \in {"drop", "cleanup"} /\ left[k] = {}
        \/ sig[k] = "cleanup" /\ sigLeft[k] = {}
  <1> USE DEF host
  <1>1. ASSUME NEW p \in Procs, ProcStep(p) PROVE Goal
    <2>1. FinishOrphan(p)
      BY <1>1
      DEF ProcStep, StartScan, SkipEntry, FindOrphan, ScanError, DeleteStep,
          FinishScan
    <2>2. pc[p] = "reap" /\ target[p] = k /\ left[p] = {}
      BY <2>1 DEF FinishOrphan, RemoveCanary
    <2> QED  BY <2>2
  <1>2. ASSUME NEW c \in Cleaners, CleanerStep(c) \/ Rerun(c) PROVE Goal
    BY <1>1, <1>2 DEF CleanerStep, NetnsEntry, FinishNetns, Rerun, Procs
  <1>3. ASSUME NEW j \in Jails, MainStep(j) PROVE Goal
    <2>1. CASE ProcStep(j)  BY <1>1, <2>1 DEF Procs
    <2>2. CASE AbandonSetup(j) \/ FinishDrop(j) \/ DeleteCanary(j)
      BY <2>2 DEF AbandonSetup, FinishDrop, DeleteCanary, RemoveCanary
    <2> QED
      BY <1>3, <2>1, <2>2
      DEF MainStep, CreateCanary, ListNetworks, KeepNetwork,
          FindOrphanNetwork, RemoveNetwork, FinishNetScan, CreateResource,
          SetupFails, CanaryFails, StartHeartbeat, FinishFields, Exit,
          EndProcess, WriteCanary
  <1>4. ASSUME NEW j \in Jails,
               HandlerStep(j) \/ HeartbeatStep(j) \/ CommandEnds(j)
                 \/ ExecuteFails(j) \/ LeaveWithoutCleanup(j) \/ Signal(j)
        PROVE  Goal
    BY <1>4
    DEF HandlerStep, SigDelete, SigDeleteCanary, SigExit, HeartbeatStep,
        HbCheck, HbTouch, CommandEnds, ExecuteFails,
        LeaveWithoutCleanup, Signal, EndProcess,
        RemoveCanary, WriteCanary
  <1>5. ASSUME NEW p \in Procs, Crash(p) PROVE Goal
    BY <1>5 DEF Crash, EndProcess
  <1>6. CASE Tick \/ UNCHANGED vars  BY <1>6 DEF Tick, vars
  <1> QED  BY <1>2, <1>3, <1>4, <1>5, <1>6 DEF Next, JailStep

\* Setups that cannot fail do not.
LEMMA NextSetsUp ==
    ASSUME SetupMayFail = FALSE, TypeOK, [Next]_vars, NEW k \in Jails,
           pc[k] # "setupErr"
    PROVE  pc'[k] # "setupErr"
  <1> USE DEF TypeOK, Goto, host, threads
  <1>0. Jails \subseteq Procs /\ Cleaners \subseteq Procs  BY DEF Procs
  <1>1. ASSUME NEW p \in Procs, ProcStep(p) PROVE pc'[k] # "setupErr"
    BY <1>0, <1>1
    DEF ProcStep, StartScan, SkipEntry, FindOrphan, ScanError, DeleteStep,
        FinishOrphan, FinishScan, StartDeleting, EndMain
  <1>2. ASSUME NEW c \in Cleaners, CleanerStep(c) \/ Rerun(c)
        PROVE  pc'[k] # "setupErr"
    BY <1>0, <1>1, <1>2 DEF CleanerStep, NetnsEntry, FinishNetns, Rerun
  <1>3. ASSUME NEW j \in Jails, MainStep(j) PROVE pc'[k] # "setupErr"
    <2>1. CASE ProcStep(j)  BY <1>0, <1>1, <2>1
    <2> QED
      BY <1>0, <1>3, <2>1
      DEF MainStep, CreateCanary, ListNetworks, KeepNetwork,
          FindOrphanNetwork, RemoveNetwork, FinishNetScan, CreateResource,
          SetupFails, AbandonSetup, CanaryFails, StartHeartbeat, FinishDrop,
          DeleteCanary, FinishFields, Exit, EndProcess, EndMain, StartDeleting
  <1>4. ASSUME NEW j \in Jails,
               HandlerStep(j) \/ HeartbeatStep(j) \/ CommandEnds(j)
                 \/ ExecuteFails(j) \/ LeaveWithoutCleanup(j) \/ Signal(j)
        PROVE  pc'[k] # "setupErr"
    BY <1>0, <1>4
    DEF HandlerStep, SigDelete, SigDeleteCanary, SigExit, HeartbeatStep,
        HbCheck, HbTouch, CommandEnds, ExecuteFails,
        LeaveWithoutCleanup, Signal, EndProcess,
        EndMain, StartDeleting
  <1>5. ASSUME NEW p \in Procs, Crash(p) PROVE pc'[k] # "setupErr"
    BY <1>0, <1>5 DEF Crash, EndProcess, EndMain
  <1>6. CASE Tick \/ UNCHANGED vars  BY <1>6 DEF Tick, vars
  <1> QED  BY <1>2, <1>3, <1>4, <1>5, <1>6 DEF Next, JailStep

LEMMA NextDiscovery ==
    ASSUME SetupMayFail = FALSE, DeleteMayFail = FALSE,
           IInv, OwnCleanup, Discovery, [Next]_vars
    PROVE  Discovery'
  <1>0. TypeOK  BY DEF IInv
  <1>1. ASSUME NEW p \in Procs, pc'[p] = "reap"
        PROVE  LinuxLeft(target[p])' \subseteq left'[p]
    BY <1>1, NextReaps DEF Discovery
  <1>2. \A j \in Jails : pc'[j] # "setupErr"
    BY <1>0, NextSetsUp DEF Discovery
  <1>3. ASSUME NEW k \in Jails, LinuxLeft(k)' # {} PROVE k \in canary'
    <2>1. CASE CreateResource(k)
      <3>1. k \in canary  BY <2>1 DEF CreateResource, IInv, LiveCanary, SetupSteps
      <3> QED  BY <2>1, <3>1 DEF CreateResource
    <2>2. CASE ~CreateResource(k)
      <3>1. LinuxLeft(k) # {}
        BY <1>0, <1>3, <2>2, OnlySetupCreates DEF LinuxLeft
      <3>2. k \in canary  BY <3>1 DEF Discovery, OrphansDiscoverable
      <3>3. /\ \A p \in Procs :
                 pc[p] = "reap" => LinuxLeft(target[p]) \subseteq left[p]
            /\ pc[k] # "setupErr"
        BY DEF Discovery
      <3>4. /\ pc[k] \in {"drop", "cleanup"} => LinuxLeft(k) \subseteq left[k]
            /\ sig[k] = "cleanup" => LinuxLeft(k) \subseteq sigLeft[k]
        BY DEF OwnCleanup
      <3>5. ASSUME NEW p \in Procs, pc[p] = "reap", target[p] = k
            PROVE  left[p] # {}
        BY <3>1, <3>3, <3>5 DEF LinuxLeft
      <3> QED  BY <1>0, <3>1, <3>2, <3>3, <3>4, <3>5, CanaryDeleted
    <2> QED  BY <2>1, <2>2
  <1> QED  BY <1>1, <1>2, <1>3 DEF Discovery, OrphansDiscoverable

\* Whatever crashes, a jail or the process that reaps it, and whatever the
\* signal handler, the heartbeat and other processes' scans do meanwhile: the
\* canary outlives the Linux resources of its jail, if setup is no slower than
\* the timeout of --cleanup and no command fails.
THEOREM OrphansStayDiscoverable ==
    ASSUME SetupDelay <= CleanupTimeout, SetupMayFail = FALSE,
           DeleteMayFail = FALSE
    PROVE  Spec => []OrphansDiscoverable
  <1> DEFINE Inv == IInv /\ OwnCleanup /\ Discovery
  <1>1. Init => Inv  BY InitIInv, InitOwnCleanup, InitDiscovery
  <1>2. Inv /\ [Next]_vars => Inv'
    BY NextIInv, NextOwnCleanup, NextDiscovery DEF IInv
  <1>3. Inv => OrphansDiscoverable  BY DEF Discovery
  <1> QED  BY <1>1, <1>2, <1>3, PTL DEF Spec
=============================================================================
