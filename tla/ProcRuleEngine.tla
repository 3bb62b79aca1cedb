--------------------------- MODULE ProcRuleEngine ---------------------------
(***************************************************************************)
(* rules/proc.rs: the engine that streams requests to one long-running     *)
(* program.  Requests arrive concurrently, share the program behind a      *)
(* fair mutex, write one line, read one line, kill the program when        *)
(* anything goes wrong and try a second time with a fresh one.  A client   *)
(* that closes its connection makes hyper drop the future of its request   *)
(* at the await where it stands.                                           *)
(***************************************************************************)
EXTENDS Naturals, Sequences

CONSTANTS
    Requests,
    Policy,         \* the program's verdict on each request's line
    None,
    LeavePoints,    \* the awaits at which clients may leave
    Misbehaves      \* the program may answer with an empty line

ASSUME ConstantsAssumption ==
    /\ Policy \in [Requests -> {"allow", "deny"}]
    /\ None \notin Requests
    /\ LeavePoints \subseteq {"wait", "write", "read"}
    /\ Misbehaves \in BOOLEAN

VARIABLES
    pc,       \* where the future of each request stands
    attempt,  \* 0 or 1, the turn of the loop in execute_program
    decision, \* what evaluate returned
    queue,    \* who waits for the mutex: tokio's Mutex is FIFO
    lock,     \* who holds it
    handle,   \* process_guard is Some(ProcessState)
    alive,    \* the child runs
    stdin,    \* lines written and not yet read by the child
    stdout    \* lines written by the child and not yet read

vars == <<pc, attempt, decision, queue, lock, handle, alive, stdin, stdout>>
child == <<handle, alive, stdin, stdout>>

Pending == "pending"
Attempts == 0..1

\* An answer names the request whose line it answers.
Answers == [for : Requests, text : {"allow", "deny", "empty"}]

TypeOK ==
    /\ pc \in [Requests -> {"idle", "wait", "ensure", "write", "read",
                            "done", "cancelled"}]
    /\ attempt \in [Requests -> Attempts]
    /\ decision \in [Requests -> {Pending, "allow", "deny"}]
    /\ queue \in Seq(Requests)
    /\ lock \in Requests \cup {None}
    /\ handle \in BOOLEAN /\ alive \in BOOLEAN
    /\ stdin \in Seq(Requests)
    /\ stdout \in Seq(Answers)

\* The program is started by the first request that needs it.
Init ==
    /\ pc = [r \in Requests |-> "idle"]
    /\ attempt = [r \in Requests |-> 0]
    /\ decision = [r \in Requests |-> Pending]
    /\ queue = <<>>
    /\ lock = None
    /\ handle = FALSE /\ alive = FALSE
    /\ stdin = <<>> /\ stdout = <<>>

-----------------------------------------------------------------------------
\* The future returns d and drops the guard.
Return(r, d) ==
    /\ pc' = [pc EXCEPT ![r] = "done"]
    /\ decision' = [decision EXCEPT ![r] = d]
    /\ lock' = None
    /\ UNCHANGED <<attempt, queue>>

Continue(r, to) ==
    /\ pc' = [pc EXCEPT ![r] = to]
    /\ UNCHANGED <<attempt, decision, queue, lock>>

\* kill_process: the child dies with its ProcessState, and its pipes with it.
KillProcess ==
    /\ handle' = FALSE /\ alive' = FALSE
    /\ stdin' = <<>> /\ stdout' = <<>>

\* Mutant: one attempt too many.
FailAttemptThrice(r) ==
    \/ /\ attempt[r] <= 1
       /\ attempt' = [attempt EXCEPT ![r] = @ + 1]
       /\ pc' = [pc EXCEPT ![r] = "ensure"]
       /\ UNCHANGED <<decision, queue, lock>>
    \/ attempt[r] > 1 /\ Return(r, "deny")

\* Mutant: the engine fails open.
FailAttemptOpen(r) ==
    \/ /\ attempt[r] = 0
       /\ attempt' = [attempt EXCEPT ![r] = 1]
       /\ pc' = [pc EXCEPT ![r] = "ensure"]
       /\ UNCHANGED <<decision, queue, lock>>
    \/ attempt[r] = 1 /\ Return(r, "allow")

\* Mutant: attempts are not counted.
FailAttemptForever(r) ==
    /\ pc' = [pc EXCEPT ![r] = "ensure"]
    /\ UNCHANGED <<attempt, decision, queue, lock>>

\* send_request_to_process returned an error: try again, or deny.
FailAttempt(r) ==
    \/ /\ attempt[r] = 0
       /\ attempt' = [attempt EXCEPT ![r] = 1]
       /\ pc' = [pc EXCEPT ![r] = "ensure"]
       /\ UNCHANGED <<decision, queue, lock>>
    \/ attempt[r] = 1 /\ Return(r, "deny")

\* evaluate is called; a URL that does not parse is denied.
Arrive(r) ==
    /\ pc[r] = "idle"
    /\ \/ /\ pc' = [pc EXCEPT ![r] = "wait"]
          /\ queue' = Append(queue, r)
          /\ UNCHANGED decision
       \/ /\ pc' = [pc EXCEPT ![r] = "done"]
          /\ decision' = [decision EXCEPT ![r] = "deny"]
          /\ UNCHANGED queue
    /\ UNCHANGED <<attempt, lock, child>>

Acquire(r) ==
    /\ lock = None
    /\ queue # <<>> /\ Head(queue) = r
    /\ lock' = r
    /\ queue' = Tail(queue)
    /\ pc' = [pc EXCEPT ![r] = "ensure"]
    /\ UNCHANGED <<attempt, decision, child>>

\* ensure_process_running finds the child running.
KeepProcess(r) ==
    /\ pc[r] = "ensure" /\ handle /\ alive
    /\ Continue(r, "write")
    /\ UNCHANGED child

\* No child, or one that exited: drop it and spawn another.
SpawnProcess(r) ==
    /\ pc[r] = "ensure" /\ ~(handle /\ alive)
    /\ handle' = TRUE /\ alive' = TRUE
    /\ stdin' = <<>> /\ stdout' = <<>>
    /\ Continue(r, "write")

SpawnFails(r) ==
    /\ pc[r] = "ensure" /\ ~(handle /\ alive)
    /\ KillProcess
    /\ FailAttempt(r)

WriteRequest(r) ==
    /\ pc[r] = "write" /\ alive
    /\ stdin' = Append(stdin, r)
    /\ Continue(r, "read")
    /\ UNCHANGED <<handle, alive, stdout>>

\* The child exited after try_wait: the pipe is broken.
WriteFails(r) ==
    /\ pc[r] = "write" /\ ~alive
    /\ KillProcess
    /\ FailAttempt(r)

ReadResponse(r) ==
    /\ pc[r] = "read" /\ stdout # <<>>
    /\ Head(stdout).text # "empty"
    /\ Return(r, Head(stdout).text)
    /\ stdout' = Tail(stdout)
    /\ UNCHANGED <<handle, alive, stdin>>

\* An empty line, or the end of the file.
ReadFails(r) ==
    /\ pc[r] = "read"
    /\ \/ stdout # <<>> /\ Head(stdout).text = "empty"
       \/ stdout = <<>> /\ ~alive
    /\ KillProcess
    /\ FailAttempt(r)

\* Mutant: the program is kept after a timeout, and so is its late answer.
ReadTimeoutNoKill(r) ==
    /\ pc[r] = "read" /\ stdout = <<>>
    /\ FailAttempt(r)
    /\ UNCHANGED child

\* Five seconds without a line.
ReadTimeout(r) ==
    /\ pc[r] = "read" /\ stdout = <<>>
    /\ KillProcess
    /\ FailAttempt(r)

\* A future dropped while it waits for the mutex gives up its place.
LeaveQueue(r) ==
    \E n \in 1..Len(queue) :
        /\ queue[n] = r
        /\ queue' = SubSeq(queue, 1, n - 1) \o SubSeq(queue, n + 1, Len(queue))

\* Mutant: the guard outlives the future.
CancelKeepsGuard(r) ==
    /\ pc[r] \in LeavePoints
    /\ pc' = [pc EXCEPT ![r] = "cancelled"]
    /\ \/ pc[r] = "wait" /\ LeaveQueue(r)
       \/ pc[r] \in {"write", "read"} /\ UNCHANGED queue
    /\ UNCHANGED <<attempt, decision, lock, child>>

\* The client leaves: the future is dropped at its await, and the guard with
\* it; the child is not touched.
Cancel(r) ==
    /\ pc[r] \in LeavePoints
    /\ pc' = [pc EXCEPT ![r] = "cancelled"]
    /\ \/ pc[r] = "wait" /\ LeaveQueue(r) /\ UNCHANGED lock
       \/ pc[r] \in {"write", "read"} /\ lock' = None /\ UNCHANGED queue
    /\ UNCHANGED <<attempt, decision, child>>

-----------------------------------------------------------------------------
(* The program (external): it answers each line with one line.             *)

ProgramAnswers ==
    /\ alive /\ stdin # <<>>
    /\ \E t \in {Policy[Head(stdin)]} \cup (IF Misbehaves THEN {"empty"} ELSE {}) :
         stdout' = Append(stdout, [for |-> Head(stdin), text |-> t])
    /\ stdin' = Tail(stdin)
    /\ UNCHANGED <<pc, attempt, decision, queue, lock, handle, alive>>

ProgramExits ==
    /\ alive
    /\ alive' = FALSE
    /\ stdin' = <<>>
    /\ UNCHANGED <<pc, attempt, decision, queue, lock, handle, stdout>>

-----------------------------------------------------------------------------
HolderStep(r) ==
    \/ KeepProcess(r) \/ SpawnProcess(r) \/ SpawnFails(r)
    \/ WriteRequest(r) \/ WriteFails(r)
    \/ ReadResponse(r) \/ ReadFails(r) \/ ReadTimeout(r)

Finished == \A r \in Requests : pc[r] \in {"done", "cancelled"}

Next ==
    \/ \E r \in Requests : Arrive(r) \/ Acquire(r) \/ HolderStep(r) \/ Cancel(r)
    \/ ProgramAnswers \/ ProgramExits
    \/ Finished /\ UNCHANGED vars

Spec == Init /\ [][Next]_vars

\* The runtime polls every future that can make progress, and the timer of
\* ReadTimeout fires.  The program owes nothing.
FairSpec ==
    /\ Spec
    /\ \A r \in Requests : WF_vars(Acquire(r)) /\ WF_vars(HolderStep(r))

-----------------------------------------------------------------------------
(* Properties.                                                             *)

Abstract == INSTANCE RuleEngine

\* Every request is decided by the program's verdict on its own line, or
\* denied: late, lost and empty answers, exits and restarts of the program
\* never lend one request the verdict of another.
ImplementsRuleEngine == Abstract!Spec

\* The pipes hold nothing but the line or the answer of the request that
\* holds the mutex, and hold nothing at all when nobody reads.
PipesBelongToReader ==
    \/ stdin = <<>> /\ stdout = <<>>
    \/ /\ lock # None /\ pc[lock] = "read"
       /\ \/ stdin = <<lock>> /\ stdout = <<>>
          \/ /\ stdin = <<>> /\ Len(stdout) = 1
             /\ stdout[1].for = lock
             /\ stdout[1].text \in {Policy[lock], "empty"}

\* Exactly the holder of the mutex is between Acquire and its return.
MutexHeld ==
    \A r \in Requests : pc[r] \in {"ensure", "write", "read"} <=> lock = r

\* A request that asks for a verdict gets one, or its client leaves, whatever
\* the program does: two attempts, each bounded by the timeout, under a FIFO
\* mutex.
EveryRequestDecided ==
    \A r \in Requests : pc[r] = "wait" ~> pc[r] \in {"done", "cancelled"}
=============================================================================
