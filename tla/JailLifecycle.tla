--------------------------- MODULE JailLifecycle ---------------------------
(***************************************************************************)
(* The life of the strong jails of one host: every `httpjail CMD` process  *)
(* wraps a LinuxJail or a DockerLinux in a ManagedJail                      *)
(* (jail/managed.rs), `httpjail --cleanup` processes (main.rs) reap what    *)
(* others left behind, and all of them share the canary directory and the  *)
(* host's network resources.  A jail process has up to three threads: the  *)
(* main thread (pc), the signal handler (sig) and the heartbeat (hb).      *)
(*                                                                         *)
(* A canary's age stands for now - mtime; Tick lets a unit of time pass.   *)
(***************************************************************************)
EXTENDS Integers, FiniteSets

CONSTANTS
    Jails,          \* ids of the jail processes (random, never reused)
    Docker,         \* the jails started with --docker-run
    LinuxKinds,     \* the kinds of resource of a LinuxJail
    Cleaners,       \* `httpjail --cleanup` processes
    None,           \* "no jail"
    OrphanTimeout,  \* JailConfig.orphan_timeout_secs, in ticks
    CleanupTimeout, \* the shorter timeout of --cleanup
    HeartbeatDelay, \* the longest time between two touches of a live canary
    SetupDelay,     \* the longest time the inner jail's setup takes
    SetupMayFail,   \* a command that creates a resource may fail
    DeleteMayFail   \* a command that deletes a resource may fail

ASSUME ConstantsAssumption ==
    /\ Docker \subseteq Jails
    /\ LinuxKinds \subseteq {"netns", "veth", "resolv", "nft"}
    /\ Jails \cap Cleaners = {}
    /\ None \notin Jails
    /\ OrphanTimeout \in Nat /\ CleanupTimeout \in Nat
    /\ HeartbeatDelay \in Nat /\ SetupDelay \in Nat
    /\ CleanupTimeout <= OrphanTimeout
    /\ HeartbeatDelay <= CleanupTimeout
    /\ SetupMayFail \in BOOLEAN /\ DeleteMayFail \in BOOLEAN

\* The directory /etc/netns holds one entry httpjail_<id> per jail.
NetnsName(id) == <<"httpjail_", id>>

\* Ids are base36, without underscore: no id is the name of an entry.
ASSUME NamesAssumption == \A j, k \in Jails : j # NetnsName(k)

Procs == Jails \cup Cleaners

DockerKinds == {"network", "routing"}
AllKinds == LinuxKinds \cup DockerKinds

\* The resources that the setup of jail j creates.
Kinds(j) == IF j \in Docker THEN AllKinds ELSE LinuxKinds

\* Mutant: cleanup_orphaned forgets everything but the namespace.
OrphanKindsNetnsOnly(p) == {"netns"}

\* The resources that J::cleanup_orphaned of process p deletes: --cleanup
\* always calls the one of LinuxJail.
OrphanKinds(p) == IF p \in Docker THEN AllKinds ELSE LinuxKinds

Timeout(p) == IF p \in Cleaners THEN CleanupTimeout ELSE OrphanTimeout

\* The order in which setup creates the resources.
CreateRank == [netns |-> 1, veth |-> 2, resolv |-> 3, nft |-> 4,
               network |-> 5, routing |-> 6]

\* The order in which the handles of cleanup_orphaned go out of scope.
DeleteRank == [resolv |-> 1, nft |-> 2, veth |-> 3, netns |-> 4,
               routing |-> 5, network |-> 6]

\* The order in which the fields of a dropped jail are dropped.
FieldRank == [resolv |-> 1, nft |-> 2, veth |-> 3, netns |-> 4,
              network |-> 5, routing |-> 6]

IsFirst(k, S, rank) == k \in S /\ \A m \in S : rank[k] <= rank[m]

MaxAge == OrphanTimeout + 1
Older(a) == IF a < MaxAge THEN a + 1 ELSE a

VARIABLES
    canary,   \* the canary files that exist
    age,      \* the age of each canary's mtime
    res,      \* the resources of each jail that exist on the host
    pc,       \* where each process's main thread is
    todo,     \* the entries of a listing it has still to look at
    target,   \* the jail whose resources it is deleting
    left,     \* the resources it has still to create or to delete
    sig,      \* the signal handler of each jail process
    sigLeft,  \* the resources the handler has still to delete
    hb,       \* the heartbeat thread of each jail process
    stop      \* the stop_heartbeat flag

vars == <<canary, age, res, pc, todo, target, left, sig, sigLeft, hb, stop>>
host == <<canary, age, res>>
threads == <<sig, sigLeft, hb, stop>>

SetupSteps == {"listNets", "netScan", "netRm", "setup"}
Deleting == {"reap", "drop", "cleanup", "fields"}
PcValues == {"start", "scan", "canary", "setupErr", "running", "exit",
             "netns", "done", "failed", "gone"} \cup SetupSteps \cup Deleting

TypeOK ==
    /\ canary \subseteq Jails
    /\ age \in [Jails -> 0..MaxAge]
    /\ res \in [Jails -> SUBSET AllKinds]
    /\ pc \in [Procs -> PcValues]
    /\ todo \in [Procs -> SUBSET Jails]
    /\ target \in [Procs -> Jails \cup {None}]
    /\ left \in [Procs -> SUBSET AllKinds]
    /\ sig \in [Jails -> {"idle", "cleanup", "exit"}]
    /\ sigLeft \in [Jails -> SUBSET LinuxKinds]
    /\ hb \in [Jails -> {"off", "check", "touch"}]
    /\ stop \in [Jails -> BOOLEAN]

\* No httpjail has run yet.  `gone` processes come back as new ones only in
\* the form of other members of Jails, for ids are random.
Init ==
    /\ canary = {}
    /\ age = [j \in Jails |-> 0]
    /\ res = [j \in Jails |-> {}]
    /\ pc = [p \in Procs |-> "start"]
    /\ todo = [p \in Procs |-> {}]
    /\ target = [p \in Procs |-> None]
    /\ left = [p \in Procs |-> {}]
    /\ sig = [j \in Jails |-> "idle"]
    /\ sigLeft = [j \in Jails |-> {}]
    /\ hb = [j \in Jails |-> "off"]
    /\ stop = [j \in Jails |-> FALSE]

-----------------------------------------------------------------------------
(* Moving the main thread, writing and removing canary files.              *)

Goto(p, to) == pc' = [pc EXCEPT ![p] = to]

\* fs::write of the empty canary: creates it, or truncates it; mtime is now.
WriteCanary(j) ==
    /\ canary' = canary \cup {j}
    /\ age' = [age EXCEPT ![j] = 0]

\* Removing an absent file is an error nobody acts on.
RemoveCanary(j) ==
    /\ canary' = canary \ {j}
    /\ age' = [age EXCEPT ![j] = 0]

\* Main thread p goes on to delete the resources K of jail j.
StartDeleting(p, to, j, K) ==
    /\ Goto(p, to)
    /\ target' = [target EXCEPT ![p] = j]
    /\ left' = [left EXCEPT ![p] = K]

\* The process ends, every thread of it, and what its memory held.
EndMain(p, how) ==
    /\ Goto(p, how)
    /\ todo' = [todo EXCEPT ![p] = {}]
    /\ target' = [target EXCEPT ![p] = None]
    /\ left' = [left EXCEPT ![p] = {}]

EndProcess(j, how) ==
    /\ EndMain(j, how)
    /\ sig' = [sig EXCEPT ![j] = "idle"]
    /\ sigLeft' = [sigLeft EXCEPT ![j] = {}]
    /\ hb' = [hb EXCEPT ![j] = "off"]
    /\ stop' = [stop EXCEPT ![j] = FALSE]
    /\ UNCHANGED host

\* A resource's cleanup: a failure of the command is logged or ignored.
DeleteResource(j, k) ==
    \/ res' = [res EXCEPT ![j] = @ \ {k}]
    \/ DeleteMayFail /\ UNCHANGED res

-----------------------------------------------------------------------------
(* The scan of the canary directory: cleanup_orphans of ManagedJail (the   *)
(* first step of setup) and of main.rs (--cleanup).                        *)

StartScan(p) ==
    /\ pc[p] = "start"
    /\ todo' = [todo EXCEPT ![p] = canary]
    /\ Goto(p, "scan")
    /\ UNCHANGED <<host, target, left, threads>>

\* The entry is young enough, or is_file() finds it gone.
SkipEntry(p) ==
    /\ pc[p] = "scan"
    /\ \E k \in todo[p] :
        /\ k \in canary => age[k] <= Timeout(p)
        /\ todo' = [todo EXCEPT ![p] = @ \ {k}]
    /\ UNCHANGED <<host, pc, target, left, threads>>

\* Mutant: a canary counts as an orphan's as soon as it reaches the timeout.
FindOrphanInclusive(p) ==
    /\ pc[p] = "scan"
    /\ \E k \in todo[p] :
        /\ k \in canary /\ age[k] >= Timeout(p)
        /\ todo' = [todo EXCEPT ![p] = @ \ {k}]
        /\ StartDeleting(p, "reap", k, OrphanKinds(p))
    /\ UNCHANGED <<host, threads>>

FindOrphan(p) ==
    /\ pc[p] = "scan"
    /\ \E k \in todo[p] :
        /\ k \in canary /\ age[k] > Timeout(p)
        /\ todo' = [todo EXCEPT ![p] = @ \ {k}]
        /\ StartDeleting(p, "reap", k, OrphanKinds(p))
    /\ UNCHANGED <<host, threads>>

\* The file vanishes between is_file() and metadata(): the scan fails, and
\* setup with it; main then drops the jail.
ScanError(p) ==
    /\ pc[p] = "scan"
    /\ \E k \in todo[p] : k \notin canary
    /\ IF p \in Jails
       THEN /\ StartDeleting(p, "drop", p, LinuxKinds)
            /\ todo' = [todo EXCEPT ![p] = {}]
       ELSE EndMain(p, "gone")
    /\ UNCHANGED <<host, threads>>

\* One handle of the thread's list is dropped, in the order rank gives.
DeleteStep(p) ==
    /\ pc[p] \in Deleting
    /\ \E k \in left[p] :
        /\ IsFirst(k, left[p],
                   IF pc[p] = "fields" THEN FieldRank ELSE DeleteRank)
        /\ left' = [left EXCEPT ![p] = @ \ {k}]
        /\ DeleteResource(target[p], k)
    /\ UNCHANGED <<canary, age, pc, todo, target, threads>>

\* cleanup_orphaned returned, always Ok: the orphan's canary goes.
FinishOrphan(p) ==
    /\ pc[p] = "reap" /\ left[p] = {}
    /\ RemoveCanary(target[p])
    /\ Goto(p, "scan")
    /\ target' = [target EXCEPT ![p] = None]
    /\ UNCHANGED <<res, todo, left, threads>>

FinishScan(p) ==
    /\ pc[p] = "scan" /\ todo[p] = {}
    /\ IF p \in Jails
       THEN Goto(p, "canary") /\ UNCHANGED todo
       ELSE /\ Goto(p, "netns")
            /\ todo' = [todo EXCEPT
                          ![p] = {j \in Jails : "resolv" \in res[j]}]
    /\ UNCHANGED <<host, target, left, threads>>

\* The jails whose resources LinuxJail::cleanup_orphaned(id) addresses.
JailsNamed(id) == {j \in Jails : NetnsName(j) = NetnsName(id)}

\* Mutant: the prefix is stripped from the name, as the ids of canaries have
\* none.
NetnsCleanupIdStripped(name) == name[2]

\* The id that --cleanup passes for an entry of /etc/netns: its whole name.
NetnsCleanupId(name) == name

\* --cleanup looks at an entry of /etc/netns.  cleaned_jails holds ids, never
\* names, so that no entry is skipped.
NetnsEntry(c) ==
    /\ c \in Cleaners
    /\ pc[c] = "netns"
    /\ \E k \in todo[c] :
        /\ todo' = [todo EXCEPT ![c] = @ \ {k}]
        /\ res' = [j \in Jails |->
                     IF j \in JailsNamed(NetnsCleanupId(NetnsName(k)))
                     THEN res[j] \ LinuxKinds ELSE res[j]]
    /\ UNCHANGED <<canary, age, pc, target, left, threads>>

FinishNetns(c) ==
    /\ pc[c] = "netns" /\ todo[c] = {}
    /\ Goto(c, "gone")
    /\ UNCHANGED <<host, todo, target, left, threads>>

-----------------------------------------------------------------------------
(* setup of ManagedJail, of DockerLinux and of LinuxJail.                  *)

CreateCanary(j) ==
    /\ pc[j] = "canary"
    /\ WriteCanary(j)
    /\ Goto(j, IF j \in Docker THEN "listNets" ELSE "setup")
    /\ left' = [left EXCEPT ![j] = Kinds(j)]
    /\ UNCHANGED <<res, todo, target, threads>>

\* cleanup_all_orphaned_docker_networks: a failure to list is tolerated.
ListNetworks(j) ==
    /\ pc[j] = "listNets"
    /\ \/ /\ todo' = [todo EXCEPT ![j] = {k \in Jails : "network" \in res[k]}]
          /\ Goto(j, "netScan")
       \/ SetupMayFail /\ Goto(j, "setup") /\ UNCHANGED todo
    /\ UNCHANGED <<host, target, left, threads>>

KeepNetwork(j) ==
    /\ pc[j] = "netScan"
    /\ \E k \in todo[j] \cap canary : todo' = [todo EXCEPT ![j] = @ \ {k}]
    /\ UNCHANGED <<host, pc, target, left, threads>>

FindOrphanNetwork(j) ==
    /\ pc[j] = "netScan"
    /\ \E k \in todo[j] \ canary :
        /\ todo' = [todo EXCEPT ![j] = @ \ {k}]
        /\ target' = [target EXCEPT ![j] = k]
    /\ Goto(j, "netRm")
    /\ UNCHANGED <<host, left, threads>>

RemoveNetwork(j) ==
    /\ pc[j] = "netRm"
    /\ DeleteResource(target[j], "network")
    /\ Goto(j, "netScan")
    /\ target' = [target EXCEPT ![j] = None]
    /\ UNCHANGED <<canary, age, todo, left, threads>>

FinishNetScan(j) ==
    /\ pc[j] = "netScan" /\ todo[j] = {}
    /\ Goto(j, "setup")
    /\ UNCHANGED <<host, todo, target, left, threads>>

CreateResource(j) ==
    /\ pc[j] = "setup"
    /\ \E k \in left[j] :
        /\ IsFirst(k, left[j], CreateRank)
        /\ left' = [left EXCEPT ![j] = @ \ {k}]
        /\ res' = [res EXCEPT ![j] = @ \cup {k}]
    /\ UNCHANGED <<canary, age, pc, todo, target, threads>>

\* Any command of the inner setup fails, those after the last resource too.
SetupFails(j) ==
    /\ SetupMayFail
    /\ pc[j] \in SetupSteps
    /\ Goto(j, "setupErr")
    /\ todo' = [todo EXCEPT ![j] = {}]
    /\ UNCHANGED <<host, target, left, threads>>

\* setup deletes the canary and returns the error; main drops the jail.
AbandonSetup(j) ==
    /\ pc[j] = "setupErr"
    /\ RemoveCanary(j)
    /\ StartDeleting(j, "drop", j, LinuxKinds)
    /\ UNCHANGED <<res, todo, threads>>

\* The canary cannot be written, before or after the inner setup.
CanaryFails(j) ==
    /\ SetupMayFail
    /\ \/ pc[j] = "canary"
       \/ pc[j] = "setup" /\ left[j] = {}
    /\ StartDeleting(j, "drop", j, LinuxKinds)
    /\ UNCHANGED <<host, todo, threads>>

StartHeartbeat(j) ==
    /\ pc[j] = "setup" /\ left[j] = {}
    /\ WriteCanary(j)
    /\ hb' = [hb EXCEPT ![j] = "check"]
    /\ Goto(j, "running")
    /\ UNCHANGED <<res, todo, target, left, sig, sigLeft, stop>>

\* The end of ManagedJail::drop: the inner cleanup said Ok, the canary goes,
\* then the fields are dropped.
FinishDrop(j) ==
    /\ pc[j] = "drop" /\ left[j] = {}
    /\ RemoveCanary(j)
    /\ StartDeleting(j, "fields", j, Kinds(j))
    /\ UNCHANGED <<res, todo, threads>>

FinishFields(j) ==
    /\ pc[j] = "fields" /\ left[j] = {}
    /\ EndProcess(j, "done")

-----------------------------------------------------------------------------
(* Running the command and cleaning up after it.                           *)

\* Mutant: the canary is deleted before the resources.
CommandEndsCanaryFirst(j) ==
    /\ pc[j] = "running"
    /\ RemoveCanary(j)
    /\ stop' = [stop EXCEPT ![j] = TRUE]
    /\ StartDeleting(j, "cleanup", j, LinuxKinds)
    /\ UNCHANGED <<res, todo, sig, sigLeft, hb>>

\* The command ends or times out; ManagedJail::cleanup raises the stop flag,
\* without waiting for the heartbeat, and deletes what LinuxJail::cleanup
\* deletes: DockerLinux leaves its own two resources to Drop.
CommandEnds(j) ==
    /\ pc[j] = "running"
    /\ stop' = [stop EXCEPT ![j] = TRUE]
    /\ StartDeleting(j, "cleanup", j, LinuxKinds)
    /\ UNCHANGED <<host, todo, sig, sigLeft, hb>>

DeleteCanary(j) ==
    /\ pc[j] = "cleanup" /\ left[j] = {}
    /\ RemoveCanary(j)
    /\ Goto(j, "exit")
    /\ UNCHANGED <<res, todo, target, left, threads>>

\* The handler's Arc keeps the jail alive: its Drop never runs.
Exit(j) == pc[j] = "exit" /\ EndProcess(j, "done")

\* The inner execute fails: main returns its error at once.  Neither cleanup
\* nor, for the handler's Arc, Drop runs.
ExecuteFails(j) == pc[j] = "running" /\ EndProcess(j, "failed")

\* --no-jail-cleanup: main, or the handler, ends without cleaning up.
LeaveWithoutCleanup(j) == pc[j] = "running" /\ EndProcess(j, "gone")

\* Mutant: the handler deletes nothing but the canary.
SignalDeletesNothing(j) ==
    /\ pc[j] \in {"running", "cleanup", "exit"}
    /\ sig[j] = "idle"
    /\ sig' = [sig EXCEPT ![j] = "cleanup"]
    /\ stop' = [stop EXCEPT ![j] = TRUE]
    /\ UNCHANGED <<host, pc, todo, target, left, sigLeft, hb>>

\* Mutant: the handler calls the cleanup of the fields, not LinuxJail's.
SignalDeletesFields(j) ==
    /\ pc[j] \in {"running", "cleanup", "exit"}
    /\ sig[j] = "idle"
    /\ sig' = [sig EXCEPT ![j] = "cleanup"]
    /\ sigLeft' = [sigLeft EXCEPT ![j] = Kinds(j)]
    /\ stop' = [stop EXCEPT ![j] = TRUE]
    /\ UNCHANGED <<host, pc, todo, target, left, hb>>

\* SIGINT or SIGTERM once the handler is installed.
Signal(j) ==
    /\ pc[j] \in {"running", "cleanup", "exit"}
    /\ sig[j] = "idle"
    /\ sig' = [sig EXCEPT ![j] = "cleanup"]
    /\ sigLeft' = [sigLeft EXCEPT ![j] = LinuxKinds]
    /\ stop' = [stop EXCEPT ![j] = TRUE]
    /\ UNCHANGED <<host, pc, todo, target, left, hb>>

SigDelete(j) ==
    /\ sig[j] = "cleanup"
    /\ \E k \in sigLeft[j] :
        /\ IsFirst(k, sigLeft[j], DeleteRank)
        /\ sigLeft' = [sigLeft EXCEPT ![j] = @ \ {k}]
        /\ DeleteResource(j, k)
    /\ UNCHANGED <<canary, age, pc, todo, target, left, sig, hb, stop>>

SigDeleteCanary(j) ==
    /\ sig[j] = "cleanup" /\ sigLeft[j] = {}
    /\ RemoveCanary(j)
    /\ sig' = [sig EXCEPT ![j] = "exit"]
    /\ UNCHANGED <<res, pc, todo, target, left, sigLeft, hb, stop>>

SigExit(j) == sig[j] = "exit" /\ EndProcess(j, "done")

-----------------------------------------------------------------------------
(* The heartbeat thread.                                                   *)

HbCheck(j) ==
    /\ hb[j] = "check"
    /\ hb' = [hb EXCEPT ![j] = IF stop[j] THEN "off" ELSE "touch"]
    /\ UNCHANGED <<host, pc, todo, target, left, sig, sigLeft, stop>>

\* touch_file_mtime creates the file when it is not there.
HbTouch(j) ==
    /\ hb[j] = "touch"
    /\ WriteCanary(j)
    /\ hb' = [hb EXCEPT ![j] = "check"]
    /\ UNCHANGED <<res, pc, todo, target, left, sig, sigLeft, stop>>

-----------------------------------------------------------------------------
(* The environment.                                                        *)

\* SIGKILL, or a signal before the handler is installed.
Crash(p) ==
    /\ pc[p] \notin {"start", "done", "failed", "gone"}
    /\ IF p \in Jails
       THEN EndProcess(p, "gone")
       ELSE EndMain(p, "gone") /\ UNCHANGED <<host, threads>>

\* A live heartbeat thread touches its canary within HeartbeatDelay, and the
\* inner setup is over within SetupDelay of the canary's creation.
Punctual(j) ==
    /\ hb[j] # "off" /\ ~stop[j] => age[j] < HeartbeatDelay
    /\ pc[j] \in SetupSteps => age[j] < SetupDelay

Tick ==
    /\ \A j \in canary : Punctual(j)
    /\ age' = [j \in Jails |-> IF j \in canary THEN Older(age[j]) ELSE age[j]]
    /\ UNCHANGED <<canary, res, pc, todo, target, left, threads>>

\* Somebody runs `httpjail --cleanup` again.
Rerun(c) ==
    /\ c \in Cleaners
    /\ pc[c] = "gone"
    /\ Goto(c, "start")
    /\ UNCHANGED <<host, todo, target, left, threads>>

-----------------------------------------------------------------------------
ProcStep(p) ==
    \/ StartScan(p) \/ SkipEntry(p) \/ FindOrphan(p) \/ ScanError(p)
    \/ DeleteStep(p) \/ FinishOrphan(p) \/ FinishScan(p)

CleanerStep(c) == ProcStep(c) \/ NetnsEntry(c) \/ FinishNetns(c)

MainStep(j) ==
    \/ ProcStep(j)
    \/ CreateCanary(j) \/ ListNetworks(j) \/ KeepNetwork(j)
    \/ FindOrphanNetwork(j) \/ RemoveNetwork(j) \/ FinishNetScan(j)
    \/ CreateResource(j) \/ SetupFails(j) \/ AbandonSetup(j)
    \/ CanaryFails(j) \/ StartHeartbeat(j) \/ FinishDrop(j)
    \/ FinishFields(j) \/ DeleteCanary(j) \/ Exit(j)

HandlerStep(j) == SigDelete(j) \/ SigDeleteCanary(j) \/ SigExit(j)

HeartbeatStep(j) == HbCheck(j) \/ HbTouch(j)

JailStep(j) ==
    \/ MainStep(j) \/ HandlerStep(j) \/ HeartbeatStep(j)
    \/ CommandEnds(j) \/ ExecuteFails(j) \/ LeaveWithoutCleanup(j)
    \/ Signal(j)

Next ==
    \/ \E j \in Jails : JailStep(j)
    \/ \E c \in Cleaners : CleanerStep(c) \/ Rerun(c)
    \/ \E p \in Procs : Crash(p)
    \/ Tick

Spec == Init /\ [][Next]_vars
\* Fairness: the scheduler runs every thread that can run, the clock ticks,
\* and somebody runs --cleanup again and again, without killing it.  Commands,
\* signals and the death of a jail process are never owed.
NextReliable ==
    \/ \E j \in Jails : JailStep(j) \/ Crash(j)
    \/ \E c \in Cleaners : CleanerStep(c) \/ Rerun(c)
    \/ Tick

FairSpec ==
    /\ Init /\ [][NextReliable]_vars
    /\ \A j \in Jails : WF_vars(MainStep(j)) /\ WF_vars(HandlerStep(j))
                                             /\ WF_vars(HeartbeatStep(j))
    /\ \A c \in Cleaners : WF_vars(CleanerStep(c)) /\ WF_vars(Rerun(c))
    /\ WF_vars(Tick)

-----------------------------------------------------------------------------
(* Properties.                                                             *)

\* The jail is being set up or runs its command, and nobody asked it to stop.
InUse(j) == pc[j] \in SetupSteps \cup {"running"} /\ ~stop[j]

LinuxLeft(j) == res[j] \cap LinuxKinds

Ended(j) == pc[j] \in {"done", "failed", "gone"}

\* No step of any process, an orphan scan, --cleanup, or the Docker network
\* scan of another jail, takes a resource from a jail that is in use.
KeepsLiveResources == \A j \in Jails : InUse(j) => res[j] \subseteq res'[j]

LiveJailKeepsResources == [][KeepsLiveResources]_vars

\* managed.rs:99 "We never delete the canary unless we're certain that the
\* system resources are cleaned up": whenever a namespace, veth pair, nftables
\* table or resolv.conf of a jail exists, so does the canary by which later
\* scans will find it; a crash at any point, of the jail or of the process
\* that reaps it, leaks nothing.  For commands that succeed.
OrphansDiscoverable == \A j \in Jails : LinuxLeft(j) # {} => j \in canary

\* A jail process that comes to the end of a cleanup, that of main after the
\* command has ended or timed out, that of Drop after a failed setup, or that
\* of the signal handler, leaves no namespace, veth pair, nftables table or
\* resolv.conf behind, whichever of main, handler and other processes' scans
\* were cleaning up at the time.  A process that ends without a cleanup
\* (execute failed, --no-jail-cleanup, SIGKILL) is not among them.
ExitLeavesNoResources ==
    \A j \in Jails : pc[j] = "done" => LinuxLeft(j) = {}

\* managed.rs:14 "Manages jail lifecycle and cleanup with automatic cleanup on
\* drop": a process that ends by itself leaves none of them behind either when
\* the inner execute has failed.
EveryExitCleansUp ==
    \A j \in Jails : pc[j] \in {"done", "failed"} => LinuxLeft(j) = {}

\* main.rs:270 "also scan for orphaned namespace configs directly.  This
\* handles cases where canary files were deleted": the scan's look at the
\* config of an ended jail without canary removes the config.
NetnsScanRemovesConfig ==
    [][\A c \in Cleaners, k \in Jails :
         /\ pc[c] = "netns" /\ pc'[c] = "netns"
         /\ k \in todo[c] /\ k \notin todo'[c]
         /\ Ended(k) /\ k \notin canary
         => "resolv" \notin res'[k]]_vars

\* Whatever a dead jail left of the Linux resources, and its canary too, even
\* one that the heartbeat wrote again after cleanup had deleted it, is gone in
\* the end, if --cleanup is run again and again.
OrphansReaped ==
    \A j \in Jails : Ended(j) ~> LinuxLeft(j) = {} /\ j \notin canary
=============================================================================
