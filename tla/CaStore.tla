------------------------------ MODULE CaStore ------------------------------
(***************************************************************************)
(* tls.rs: the certificate authority that the httpjail processes of a user *)
(* share through two files, ca-cert.pem and ca-key.pem.  A process loads    *)
(* the key if both files are there, or generates a pair and writes both,   *)
(* with no lock and no rename; it may die between any two writes.  It      *)
(* signs with the key in its memory, while the tools in its jail trust     *)
(* whatever the certificate file holds when they read it.                  *)
(***************************************************************************)
CONSTANTS
    Procs,    \* httpjail processes; each stands for the pair it would make
    Absent,   \* the file does not exist
    Empty,    \* the file exists and its content has not been written
    Overlap   \* processes may start while others are still starting

ASSUME ConstantsAssumption ==
    /\ Absent # Empty
    /\ {Absent, Empty} \cap Procs = {}
    /\ Overlap \in BOOLEAN

VARIABLES
    certFile,  \* whose certificate ca-cert.pem holds
    keyFile,   \* whose key ca-key.pem holds
    pc,        \* where each process is
    ca         \* whose pair it signs with, Absent before it has one

vars == <<certFile, keyFile, pc, ca>>

Files == Procs \cup {Absent, Empty}
Starting == {"checkKey", "load", "generate", "fillCert", "writeKey", "fillKey"}

TypeOK ==
    /\ certFile \in Files /\ keyFile \in Files
    /\ pc \in [Procs -> Starting \cup {"start", "serving", "failed", "gone"}]
    /\ ca \in [Procs -> Procs \cup {Absent}]

\* httpjail has never run for this user.
Init ==
    /\ certFile = Absent /\ keyFile = Absent
    /\ pc = [p \in Procs |-> "start"]
    /\ ca = [p \in Procs |-> Absent]

-----------------------------------------------------------------------------
(* load_or_generate_ca_with_dir                                             *)

Goto(p, to) == pc' = [pc EXCEPT ![p] = to]

MayStart == Overlap \/ \A q \in Procs : pc[q] \notin Starting

CheckCert(p) ==
    /\ pc[p] = "start" /\ MayStart
    /\ Goto(p, IF certFile = Absent THEN "generate" ELSE "checkKey")
    /\ UNCHANGED <<certFile, keyFile, ca>>

\* Mutant: a CA is generated at every start.
CheckKeyNever(p) ==
    /\ pc[p] = "checkKey"
    /\ Goto(p, "generate")
    /\ UNCHANGED <<certFile, keyFile, ca>>

CheckKey(p) ==
    /\ pc[p] = "checkKey"
    /\ Goto(p, IF keyFile = Absent THEN "generate" ELSE "load")
    /\ UNCHANGED <<certFile, keyFile, ca>>

\* Mutant: what does not parse is taken for a key.
LoadUnparsed(p) ==
    /\ pc[p] = "load"
    /\ ca' = [ca EXCEPT ![p] = keyFile]
    /\ Goto(p, "serving")
    /\ UNCHANGED <<certFile, keyFile>>

\* The certificate file is read and not looked at: the certificate is made
\* again from the key.  A key that does not parse ends the process.
Load(p) ==
    /\ pc[p] = "load"
    /\ \/ /\ keyFile \in Procs
          /\ ca' = [ca EXCEPT ![p] = keyFile]
          /\ Goto(p, "serving")
       \/ /\ keyFile \notin Procs
          /\ Goto(p, "failed")
          /\ UNCHANGED ca
    /\ UNCHANGED <<certFile, keyFile>>

\* Mutant: a certificate that is there is kept.
GenerateKeepsCert(p) ==
    /\ pc[p] = "generate"
    /\ ca' = [ca EXCEPT ![p] = p]
    /\ Goto(p, IF certFile = Absent THEN "fillCert" ELSE "writeKey")
    /\ UNCHANGED <<certFile, keyFile>>

\* fs::write truncates the file, then writes its content.
Generate(p) ==
    /\ pc[p] = "generate"
    /\ ca' = [ca EXCEPT ![p] = p]
    /\ certFile' = Empty
    /\ Goto(p, "fillCert")
    /\ UNCHANGED keyFile

FillCert(p) ==
    /\ pc[p] = "fillCert"
    /\ certFile' = p
    /\ Goto(p, "writeKey")
    /\ UNCHANGED <<keyFile, ca>>

TruncateKey(p) ==
    /\ pc[p] = "writeKey"
    /\ keyFile' = Empty
    /\ Goto(p, "fillKey")
    /\ UNCHANGED <<certFile, ca>>

FillKey(p) ==
    /\ pc[p] = "fillKey"
    /\ keyFile' = p
    /\ Goto(p, "serving")
    /\ UNCHANGED <<certFile, ca>>

\* A write fails, the process is killed, or its command ends.
End(p) ==
    /\ pc[p] \in Starting \cup {"serving"}
    /\ Goto(p, "gone")
    /\ UNCHANGED <<certFile, keyFile, ca>>

Step(p) ==
    \/ CheckCert(p) \/ CheckKey(p) \/ Load(p)
    \/ Generate(p) \/ FillCert(p) \/ TruncateKey(p) \/ FillKey(p)
    \/ End(p)

Next == \E p \in Procs : Step(p)

Spec == Init /\ [][Next]_vars

-----------------------------------------------------------------------------
(* Properties.                                                             *)

\* get_ca_env_vars: the CA that the tools in a jail trust is the one whose
\* certificate the file holds.
TrustedCa == certFile

\* tls-interception.md:11, "The jailed process trusts the CA via environment
\* variables": every process signs with the CA that the tools in its jail
\* trust, wherever earlier processes died while they wrote the files.  For
\* starts that do not overlap.
SigningCaTrusted == \A p \in Procs : pc[p] = "serving" => ca[p] = TrustedCa

\* Once a pair is on disk it stays: no later start, and no process that a
\* crash cut short, replaces the CA that users have installed.
PairKept == keyFile \in Procs => UNCHANGED <<certFile, keyFile>>

CaNeverReplaced == [][PairKept]_vars
=============================================================================
