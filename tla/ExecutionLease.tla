--------------------------- MODULE ExecutionLease ---------------------------
(***************************************************************************)
(* The cross-process lease of one scope ("live:production_v2"): a row of   *)
(* execution_leases (src/leadlag/execution/state_store.py) that the batch  *)
(* guard, a direct CLI run and the reconciliation job compete for.         *)
(*                                                                         *)
(* A client reads the wall clock first and only then waits for the write   *)
(* lock of its BEGIN IMMEDIATE transaction, so the clock value a lease is  *)
(* decided with may be stale: reading and committing are two actions.  The *)
(* wall clock is assumed not to run backwards.                             *)
(***************************************************************************)
EXTENDS Naturals

CONSTANTS
    Clients,   \* owners: one identifier per acquire_lease caller
    Ttls,      \* lease durations callers ask for
    MaxNow     \* bound on the clock

ASSUME LeaseAssumption ==
    /\ Ttls \subseteq Nat \ {0}
    /\ MaxNow \in Nat
    /\ "free" \notin Clients

VARIABLES
    now,    \* the wall clock, from 1
    lease,  \* the row: its owner (or Free) and its expires_at
    asked,  \* Clients -> the clock a client read for its pending call, or Idle
    held    \* Clients -> the expiry of the lease a client was last granted

vars == <<now, lease, asked, held>>

Free == "free"
Idle == 0
NoLease == [owner |-> Free, expires |-> 0]

-----------------------------------------------------------------------------
Init ==
    /\ now = 1
    /\ lease = NoLease
    /\ asked = [c \in Clients |-> Idle]
    /\ held = [c \in Clients |-> 0]

Tick ==
    /\ now < MaxNow
    /\ now' = now + 1
    /\ UNCHANGED <<lease, asked, held>>

\* time.time(), before the transaction of acquire_lease or renew_lease.
ReadClock(c) ==
    /\ asked[c] = Idle
    /\ asked' = [asked EXCEPT ![c] = now]
    /\ UNCHANGED <<now, lease, held>>

\* Mutant: a row is taken over in the last tick of its life.
HeldMuchLonger(c) ==
    lease.owner \notin {Free, c} /\ lease.expires > asked[c] + 1

\* Another owner's row is unexpired at the clock the client read.
HeldByOther(c) ==
    lease.owner \notin {Free, c} /\ lease.expires > asked[c]

Grant(c, expires) ==
    /\ lease' = [owner |-> c, expires |-> expires]
    /\ held' = [held EXCEPT ![c] = expires]
    /\ asked' = [asked EXCEPT ![c] = Idle]
    /\ UNCHANGED now

\* Mutant: INSERT OR REPLACE whoever owns the row.
AcquireAlways(c, ttl) == asked[c] # Idle /\ Grant(c, asked[c] + ttl)

Acquire(c, ttl) ==
    /\ asked[c] # Idle
    /\ ~HeldByOther(c)
    /\ Grant(c, asked[c] + ttl)

\* renew_lease extends any row the client still owns, expired or not.
Renew(c, ttl) ==
    /\ asked[c] # Idle
    /\ lease.owner = c
    /\ Grant(c, asked[c] + ttl)

\* ExecutionStateConflict: acquire_lease or renew_lease raises.
Refuse(c) ==
    /\ asked[c] # Idle
    /\ HeldByOther(c) \/ lease.owner # c
    /\ asked' = [asked EXCEPT ![c] = Idle]
    /\ UNCHANGED <<now, lease, held>>

\* release_lease deletes the row of this owner only.  A client that dies
\* (killed guard, power loss) leaves its row behind.
Release(c) ==
    /\ held[c] # 0
    /\ lease' = IF lease.owner = c THEN NoLease ELSE lease
    /\ held' = [held EXCEPT ![c] = 0]
    /\ UNCHANGED <<now, asked>>

Die(c) ==
    /\ held[c] # 0 \/ asked[c] # Idle
    /\ held' = [held EXCEPT ![c] = 0]
    /\ asked' = [asked EXCEPT ![c] = Idle]
    /\ UNCHANGED <<now, lease>>

Next ==
    \/ Tick
    \/ \E c \in Clients :
          \/ ReadClock(c)
          \/ \E ttl \in Ttls : Acquire(c, ttl)
          \/ \E ttl \in Ttls : Renew(c, ttl)
          \/ Refuse(c)
          \/ Release(c)
          \/ Die(c)

Spec == Init /\ [][Next]_vars

-----------------------------------------------------------------------------
TypeOK ==
    /\ now \in Nat \ {0}
    /\ lease \in [owner : Clients \cup {Free}, expires : Nat]
    /\ asked \in [Clients -> Nat]
    /\ held \in [Clients -> Nat]

\* owns_lease, the check a guarded job makes when it starts its critical part.
OwnsLease(c) == lease.owner = c /\ lease.expires > now

\* Two clients never hold unexpired leases together, whatever the delay
\* between reading the clock and getting the database's write lock.
LeaseExclusive ==
    \A c, d \in Clients : held[c] > now /\ held[d] > now => c = d

\* An unexpired row changes hands only after its owner is gone: a stale
\* release or a slow acquire of another process never takes it away.
LiveLeaseNotStolen ==
    [][lease.owner # Free /\ lease.expires > now
          /\ lease'.owner # lease.owner
              => lease' = NoLease /\ held'[lease.owner] = 0]_vars

\* What makes LeaseExclusive inductive: no client decides with a clock ahead of
\* the wall clock, and an unexpired grant is the row itself, so that the
\* owns_lease check of the granted job's child process passes until it expires.
IInv ==
    /\ TypeOK
    /\ \A c \in Clients : asked[c] <= now
    /\ \A c \in Clients :
          held[c] > now => OwnsLease(c) /\ lease.expires = held[c]
=============================================================================
