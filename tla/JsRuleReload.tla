---------------------------- MODULE JsRuleReload ----------------------------
(***************************************************************************)
(* rules/v8_js.rs with --js-file: requests evaluate the cached code of a   *)
(* file that an editor changes under way.  Every request compares the      *)
(* file's mtime with the one recorded in the cache and reloads under a     *)
(* lock when they differ.                                                  *)
(*                                                                         *)
(* Contents are numbered in the order in which they were written; each     *)
(* write gives the file a new mtime, so the number stands for both.        *)
(***************************************************************************)
EXTENDS Integers

CONSTANTS
    Requests,
    Invalid,            \* the contents that do not compile
    MaxEdits,           \* bound: the number of times the file is written
    EditsDuringStartup, \* the file may be written while httpjail starts
    Nobody

ASSUME ConstantsAssumption ==
    /\ Invalid \subseteq Nat
    /\ MaxEdits \in Nat
    /\ EditsDuringStartup \in BOOLEAN
    /\ Nobody \notin Requests

NoTime == -1   \* None: the file has no mtime, for it is not there
Times == Nat \cup {NoTime}

VARIABLES
    file,    \* the content the file holds, or held last
    exists,  \* whether the file is there
    boot,    \* where main is: it reads the file, then new_with_file stats it
    code,    \* cache: the content that requests evaluate
    mtime,   \* cache: the mtime recorded with it
    lock,    \* who holds reload_lock
    pc,      \* where each request is
    seen,    \* current_mtime of each request
    fetched, \* new_code of the request that reloads
    used     \* the content each request was evaluated with

vars == <<file, exists, boot, code, mtime, lock, pc, seen, fetched, used>>
cache == <<code, mtime>>
editor == <<file, exists>>

TypeOK ==
    /\ file \in 0..MaxEdits
    /\ exists \in BOOLEAN
    /\ boot \in {"read", "stat", "serving", "exited"}
    /\ code \in 0..MaxEdits
    /\ mtime \in (0..MaxEdits) \cup {NoTime}
    /\ lock \in Requests \cup {Nobody}
    /\ pc \in [Requests -> {"idle", "check", "lock", "recheck", "read",
                            "store", "load", "run", "done", "cancelled"}]
    /\ seen \in [Requests -> (0..MaxEdits) \cup {NoTime}]
    /\ fetched \in [Requests -> 0..MaxEdits]
    /\ used \in [Requests -> 0..MaxEdits]

\* httpjail starts with any file, one that is missing or invalid included.
Init ==
    /\ file \in 0..MaxEdits /\ exists \in BOOLEAN
    /\ boot = "read"
    /\ code = 0 /\ mtime = NoTime
    /\ lock = Nobody
    /\ pc = [r \in Requests |-> "idle"]
    /\ seen = [r \in Requests |-> NoTime]
    /\ fetched = [r \in Requests |-> 0]
    /\ used = [r \in Requests |-> 0]

\* Mutant: the time is rounded up.
MtimeRoundedUp == IF exists THEN file + 1 ELSE NoTime

\* fs::metadata(path).ok().and_then(modified)
Mtime == IF exists THEN file ELSE NoTime

-----------------------------------------------------------------------------
(* Startup: main.rs reads the file, new_with_file validates and stats.     *)

MainReadsFile ==
    /\ boot = "read"
    /\ IF exists THEN code' = file /\ boot' = "stat"
                 ELSE UNCHANGED code /\ boot' = "exited"
    /\ UNCHANGED <<editor, mtime, lock, pc, seen, fetched, used>>

NewWithFile ==
    /\ boot = "stat"
    /\ IF code \in Invalid
       THEN boot' = "exited" /\ UNCHANGED mtime
       ELSE boot' = "serving" /\ mtime' = Mtime
    /\ UNCHANGED <<editor, code, lock, pc, seen, fetched, used>>

-----------------------------------------------------------------------------
(* evaluate: check_and_reload_file, load_js_code, execute_js_blocking.     *)

Goto(r, to) == pc' = [pc EXCEPT ![r] = to]

Stat(r) ==
    /\ boot = "serving" /\ pc[r] = "idle"
    /\ seen' = [seen EXCEPT ![r] = Mtime]
    /\ Goto(r, "check")
    /\ UNCHANGED <<editor, boot, cache, lock, fetched, used>>

Changed(r) == seen[r] # mtime /\ seen[r] # NoTime

\* Mutant: a request that finds somebody else reloading does not wait.
FastCheckNoWait(r) ==
    /\ pc[r] = "check"
    /\ Goto(r, IF Changed(r) /\ lock = Nobody THEN "lock" ELSE "load")
    /\ UNCHANGED <<editor, boot, cache, lock, seen, fetched, used>>

FastCheck(r) ==
    /\ pc[r] = "check"
    /\ Goto(r, IF Changed(r) THEN "lock" ELSE "load")
    /\ UNCHANGED <<editor, boot, cache, lock, seen, fetched, used>>

\* Mutant: the lock does not exclude.
AcquireLockShared(r) ==
    /\ pc[r] = "lock"
    /\ lock' = r
    /\ Goto(r, "recheck")
    /\ UNCHANGED <<editor, boot, cache, seen, fetched, used>>

AcquireLock(r) ==
    /\ pc[r] = "lock" /\ lock = Nobody
    /\ lock' = r
    /\ Goto(r, "recheck")
    /\ UNCHANGED <<editor, boot, cache, seen, fetched, used>>

\* The double check compares with the mtime seen before the lock.
DoubleCheck(r) ==
    /\ pc[r] = "recheck"
    /\ \/ Changed(r) /\ Goto(r, "read") /\ UNCHANGED lock
       \/ ~Changed(r) /\ Goto(r, "load") /\ lock' = Nobody
    /\ UNCHANGED <<editor, boot, cache, seen, fetched, used>>

\* Mutant: the error path keeps the guard.
ReadFileKeepsLock(r) ==
    /\ pc[r] = "read"
    /\ \/ /\ exists /\ file \notin Invalid
          /\ fetched' = [fetched EXCEPT ![r] = file]
          /\ Goto(r, "store")
       \/ /\ ~exists \/ file \in Invalid
          /\ Goto(r, "load")
          /\ UNCHANGED fetched
    /\ UNCHANGED <<editor, boot, cache, lock, seen, used>>

\* read_to_string and validate_js_code; on an error the old rules stay.
ReadFile(r) ==
    /\ pc[r] = "read"
    /\ \/ /\ exists /\ file \notin Invalid
          /\ fetched' = [fetched EXCEPT ![r] = file]
          /\ Goto(r, "store")
          /\ UNCHANGED lock
       \/ /\ ~exists \/ file \in Invalid
          /\ Goto(r, "load")
          /\ lock' = Nobody
          /\ UNCHANGED fetched
    /\ UNCHANGED <<editor, boot, cache, seen, used>>

\* Mutant: the mtime is looked up after the content was read.
StoreStatsAgain(r) ==
    /\ pc[r] = "store"
    /\ code' = fetched[r]
    /\ mtime' = Mtime
    /\ lock' = Nobody
    /\ Goto(r, "load")
    /\ UNCHANGED <<editor, boot, seen, fetched, used>>

\* js_code.store((new_code, current_mtime)), then the guard is dropped.
Store(r) ==
    /\ pc[r] = "store"
    /\ code' = fetched[r]
    /\ mtime' = seen[r]
    /\ lock' = Nobody
    /\ Goto(r, "load")
    /\ UNCHANGED <<editor, boot, seen, fetched, used>>

LoadCode(r) ==
    /\ pc[r] = "load"
    /\ used' = [used EXCEPT ![r] = code]
    /\ Goto(r, "run")
    /\ UNCHANGED <<editor, boot, cache, lock, seen, fetched>>

Execute(r) ==
    /\ pc[r] = "run"
    /\ Goto(r, "done")
    /\ UNCHANGED <<editor, boot, cache, lock, seen, fetched, used>>

\* The client leaves: the future is dropped where it awaits, at the lock or
\* at the blocking task.
Cancel(r) ==
    /\ pc[r] \in {"lock", "run"}
    /\ Goto(r, "cancelled")
    /\ UNCHANGED <<editor, boot, cache, lock, seen, fetched, used>>

-----------------------------------------------------------------------------
(* The editor (external).                                                  *)

EditorMayAct == boot = "serving" \/ EditsDuringStartup

Edit ==
    /\ EditorMayAct /\ file < MaxEdits
    /\ file' = file + 1 /\ exists' = TRUE
    /\ UNCHANGED <<boot, cache, lock, pc, seen, fetched, used>>

Remove ==
    /\ EditorMayAct /\ exists
    /\ exists' = FALSE
    /\ UNCHANGED <<file, boot, cache, lock, pc, seen, fetched, used>>

-----------------------------------------------------------------------------
RequestStep(r) ==
    \/ Stat(r) \/ FastCheck(r) \/ AcquireLock(r) \/ DoubleCheck(r)
    \/ ReadFile(r) \/ Store(r) \/ LoadCode(r) \/ Execute(r)

Next ==
    \/ MainReadsFile \/ NewWithFile
    \/ \E r \in Requests : RequestStep(r) \/ Cancel(r)
    \/ Edit \/ Remove

Spec == Init /\ [][Next]_vars

\* The runtime polls every future that can go on.
FairSpec == Spec /\ \A r \in Requests : WF_vars(RequestStep(r))

-----------------------------------------------------------------------------
(* Properties.                                                             *)

\* A change is never missed: when the recorded mtime is the file's, which is
\* when no request will reload, the cached code is the file's content.
CacheCoherent ==
    boot = "serving" /\ exists /\ mtime = file => code = file

\* javascript.md:59, "If the file has changed, it's reloaded": a request that runs while
\* the file still is as it was when the request looked at it, readable and
\* valid, is evaluated with what the file holds, whatever other requests and
\* reloads went on at the same time.  For files not written during startup.
EvaluatesCurrentFile ==
    \A r \in Requests :
        pc[r] = "run" /\ exists /\ seen[r] = file /\ file \notin Invalid
        => used[r] = file

\* Reloads that overlap never bring back rules older than those in force,
\* and never put rules in force that do not compile.
NoRollBack == boot = "serving" => code' >= code /\ code' \notin Invalid

RulesNeverRollBack == [][NoRollBack]_vars

\* Every request that looked at the file gets its verdict, or its client
\* leaves: reload_lock never holds one back for ever.
RequestsFinish ==
    \A r \in Requests : pc[r] = "check" ~> pc[r] \in {"done", "cancelled"}
=============================================================================
