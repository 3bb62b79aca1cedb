-------------------------- MODULE HostCertificates --------------------------
(***************************************************************************)
(* tls.rs: the certificates that serving processes sign for hosts with the *)
(* CA of CaStore, whose state and steps this module takes over.  Handlers  *)
(* of one process share an LRU cache; get_cert_for_host looks into it,     *)
(* signs without holding its lock, and puts the chain in.  A certificate   *)
(* is valid for a year, and nothing in the cache is looked at again.       *)
(***************************************************************************)
EXTENDS CaStore, Naturals, Sequences

CONSTANTS
    Handlers,    \* connections that ask for a certificate
    Hosts,
    CacheSize,   \* CERT_CACHE_SIZE
    Validity,    \* the length of a certificate's life
    MaxAge       \* bound: the age that a serving process reaches

ASSUME CertificateAssumption ==
    /\ CacheSize \in Nat \ {0}
    /\ Validity \in Nat /\ MaxAge \in Nat

VARIABLES
    time,    \* the time since the first process began to serve
    cache,   \* the LRU cache of each process, the oldest entry first
    task     \* what each handler does, for whom, and the chain it has

certVars == <<time, cache, task>>
allVars == <<vars, certVars>>

Chains == [host : Hosts, signer : Procs \cup {Absent}, from : 0..MaxAge]
NoChain == [host |-> Absent, signer |-> Absent, from |-> 0]
Idle == [step |-> "idle", proc |-> Absent, host |-> Absent, chain |-> NoChain]

Tasks == [step : {"sign", "put", "served", "failed"},
          proc : Procs, host : Hosts, chain : Chains \cup {NoChain}]

\* What an LRU cache may be: no host twice, no more than its capacity.
IsCache(s) ==
    /\ s \in Seq(Chains)
    /\ Len(s) <= CacheSize
    /\ \A m, n \in 1..Len(s) : s[m].host = s[n].host => m = n

CertTypeOK ==
    /\ TypeOK
    /\ time \in 0..MaxAge
    /\ DOMAIN cache = Procs /\ \A p \in Procs : IsCache(cache[p])
    /\ task \in [Handlers -> Tasks \cup {Idle}]

CertInit ==
    /\ Init
    /\ time = 0
    /\ cache = [p \in Procs |-> <<>>]
    /\ task = [t \in Handlers |-> Idle]

-----------------------------------------------------------------------------
(* LruCache (external): get moves an entry to the young end, put replaces  *)
(* the entry of its key or drops the oldest one when the cache is full.    *)

\* Mutant: the cache is not asked for the host.
EntryOfAny(p, h) == {cache[p][n] : n \in 1..Len(cache[p])}

Entry(p, h) == {c \in {cache[p][n] : n \in 1..Len(cache[p])} : c.host = h}

\* No host is there twice (IsCache): at most one entry goes.
Others(s, h) ==
    IF \E n \in 1..Len(s) : s[n].host = h
    THEN LET n == CHOOSE n \in 1..Len(s) : s[n].host = h
         IN [m \in 1..(Len(s) - 1) |-> IF m < n THEN s[m] ELSE s[m + 1]]
    ELSE s

Pushed(s, c) ==
    LET pushed == Append(Others(s, c.host), c)
    IN IF Len(pushed) > CacheSize THEN Tail(pushed) ELSE pushed

-----------------------------------------------------------------------------
(* get_cert_for_host                                                       *)

Serves(t) == pc[task[t].proc] = "serving"

Begin(t, p, h, step, chain) ==
    task' = [task EXCEPT ![t] =
               [step |-> step, proc |-> p, host |-> h, chain |-> chain]]

CacheHit(t, p, h) ==
    /\ task[t] = Idle /\ pc[p] = "serving"
    /\ \E c \in Entry(p, h) :
        /\ Begin(t, p, h, "served", c)
        /\ cache' = [cache EXCEPT ![p] = Append(Others(@, h), c)]
    /\ UNCHANGED <<vars, time>>

CacheMiss(t, p, h) ==
    /\ task[t] = Idle /\ pc[p] = "serving"
    /\ Entry(p, h) = {}
    /\ Begin(t, p, h, "sign", NoChain)
    /\ UNCHANGED <<vars, time, cache>>

\* The chain is the new certificate and the CA's in memory.
Sign(t) ==
    /\ task[t].step = "sign" /\ Serves(t)
    /\ task' = [task EXCEPT
                  ![t].step = "put",
                  ![t].chain = [host |-> task[t].host,
                                signer |-> ca[task[t].proc], from |-> time]]
    /\ UNCHANGED <<vars, time, cache>>

\* The name is no DNS name, or today has no anniversary next year.
SignFails(t) ==
    /\ task[t].step = "sign" /\ Serves(t)
    /\ task' = [task EXCEPT ![t].step = "failed"]
    /\ UNCHANGED <<vars, time, cache>>

Put(t) ==
    /\ task[t].step = "put" /\ Serves(t)
    /\ cache' = [cache EXCEPT ![task[t].proc] = Pushed(@, task[t].chain)]
    /\ task' = [task EXCEPT ![t].step = "served"]
    /\ UNCHANGED <<vars, time>>

-----------------------------------------------------------------------------
TimePasses ==
    /\ time < MaxAge
    /\ \E p \in Procs : pc[p] = "serving"
    /\ time' = time + 1
    /\ UNCHANGED <<vars, cache, task>>

CertStep(t) ==
    \/ \E p \in Procs, h \in Hosts : CacheHit(t, p, h) \/ CacheMiss(t, p, h)
    \/ Sign(t) \/ SignFails(t) \/ Put(t)

CertNext ==
    \/ Next /\ UNCHANGED certVars
    \/ \E t \in Handlers : CertStep(t)
    \/ TimePasses

CertSpec == CertInit /\ [][CertNext]_allVars

-----------------------------------------------------------------------------
(* Properties.                                                             *)

\* The chain that a handler of a serving process shows its client is for the
\* host that it asked for, is signed by the CA that the tools in the jail
\* trust, and is valid, wherever earlier processes died and whoever signed.
ServedChainVerifies ==
    \A t \in Handlers :
        task[t].step = "served" /\ Serves(t) =>
            /\ task[t].chain.host = task[t].host
            /\ task[t].chain.signer = TrustedCa
            /\ time - task[t].chain.from <= Validity
=============================================================================
