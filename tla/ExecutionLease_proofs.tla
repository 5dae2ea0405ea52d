------------------------ MODULE ExecutionLease_proofs ------------------------
(***************************************************************************)
(* Mutual exclusion of the execution lease, for every set of owners and    *)
(* every lease duration.                                                   *)
(***************************************************************************)
EXTENDS ExecutionLease, TLAPS

\* The initial state satisfies the inductive invariant.
LEMMA InitIInv == Init => IInv
BY LeaseAssumption DEF Init, IInv, TypeOK, NoLease, Idle, OwnsLease

\* Every operation preserves the inductive invariant.  The step that matters
\* is Acquire: the clock it decides with is not ahead of the wall clock, so a
\* row it may replace has expired, and so has the grant of any other client.
LEMMA NextIInv == IInv /\ [Next]_vars => IInv'
<1> SUFFICES ASSUME IInv, [Next]_vars PROVE IInv'
  OBVIOUS
<1> USE LeaseAssumption DEF IInv, TypeOK, OwnsLease, Idle
<1>1. CASE Tick
  BY <1>1 DEF Tick
<1>2. ASSUME NEW c \in Clients, ReadClock(c)
      PROVE  IInv'
  BY <1>2 DEF ReadClock
<1>3. ASSUME NEW c \in Clients, NEW ttl \in Ttls,
             Acquire(c, ttl) \/ Renew(c, ttl)
      PROVE  IInv'
  <2>1. Grant(c, asked[c] + ttl) /\ asked[c] + ttl \in Nat
    BY <1>3 DEF Acquire, Renew
  <2>2. TypeOK'
    BY <2>1 DEF Grant
  <2>3. \A d \in Clients : asked'[d] <= now'
    BY <2>1 DEF Grant
  <2>4. \A d \in Clients \ {c} : ~(held[d] > now)
    <3>1. CASE Renew(c, ttl)
      BY <3>1 DEF Renew
    <3>2. CASE Acquire(c, ttl)
      BY <3>2 DEF Acquire, HeldByOther, Free
    <3>3. QED
      BY <1>3, <3>1, <3>2
  <2>5. \A d \in Clients : held'[d] > now'
            => lease'.owner = d /\ lease'.expires = held'[d]
    BY <2>1, <2>4 DEF Grant
  <2>6. QED
    BY <2>2, <2>3, <2>5
<1>4. ASSUME NEW c \in Clients, Refuse(c)
      PROVE  IInv'
  BY <1>4 DEF Refuse
<1>5. ASSUME NEW c \in Clients, Release(c)
      PROVE  IInv'
  BY <1>5 DEF Release, NoLease
<1>6. ASSUME NEW c \in Clients, Die(c)
      PROVE  IInv'
  BY <1>6 DEF Die
<1>7. CASE UNCHANGED vars
  BY <1>7 DEF vars
<1>8. QED
  BY <1>1, <1>2, <1>3, <1>4, <1>5, <1>6, <1>7 DEF Next

\* The lease is well formed and every unexpired grant is the stored row.
THEOREM LeaseInvariant == Spec => []IInv
BY InitIInv, NextIInv, PTL DEF Spec

\* Two clients never hold unexpired leases of the scope together.
THEOREM MutualExclusion == Spec => []LeaseExclusive
<1>1. IInv => LeaseExclusive
  BY DEF IInv, LeaseExclusive, OwnsLease
<1>2. QED
  BY <1>1, LeaseInvariant, PTL

\* An unexpired row is taken from its owner by nobody else.
THEOREM NotStolen == Spec => LiveLeaseNotStolen
<1>1. IInv /\ [Next]_vars =>
        [lease.owner # Free /\ lease.expires > now
            /\ lease'.owner # lease.owner
                => lease' = NoLease /\ held'[lease.owner] = 0]_vars
  <2> SUFFICES ASSUME IInv, Next, lease.owner # Free, lease.expires > now,
                      lease'.owner # lease.owner
               PROVE  lease' = NoLease /\ held'[lease.owner] = 0
    OBVIOUS
  <2> USE LeaseAssumption DEF IInv, TypeOK, Idle
  <2>1. ASSUME NEW c \in Clients, NEW ttl \in Ttls,
               Acquire(c, ttl) \/ Renew(c, ttl)
        PROVE  FALSE
    BY <2>1 DEF Acquire, Renew, Grant, HeldByOther
  <2>2. ASSUME NEW c \in Clients, Release(c)
        PROVE  lease' = NoLease /\ held'[lease.owner] = 0
    BY <2>2 DEF Release, NoLease
  <2>3. ASSUME NEW c \in Clients,
               Tick \/ ReadClock(c) \/ Refuse(c) \/ Die(c)
        PROVE  FALSE
    BY <2>3 DEF Tick, ReadClock, Refuse, Die
  <2>4. CASE Tick
    BY <2>4 DEF Tick
  <2>5. QED
    BY <2>1, <2>2, <2>3, <2>4 DEF Next
<1>2. QED
  BY <1>1, LeaseInvariant, PTL DEF Spec, LiveLeaseNotStolen
=============================================================================
