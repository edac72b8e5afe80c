---------------------------- MODULE GpuLeaseProofs ----------------------------
(***************************************************************************)
(* What every implementation of the lease gives its users.                 *)
(***************************************************************************)
EXTENDS GpuLease, TLAPS

TypeOK ==
  /\ holder \in Engines \cup {NoEngine}
  /\ users \in [Tasks -> Engines \cup {NoEngine}]

\* A request that is waited for has the GPU for its engine, or has lost it to none.
\* KeptTogether alone is not inductive: Admit needs to know who the holder can be.
KeptHold ==
  \A t \in Tasks \ evicted : users[t] # NoEngine => holder \in {users[t], NoEngine}

LeaseInv == TypeOK /\ KeptHold /\ KeptTogether

\* While the GPU has no holder the requests waited for still agree on an engine, so
\* that a late release, or a grant, concerns that engine alone.
THEOREM Together ==
  ASSUME NoEngine \notin Engines
  PROVE  Spec => []KeptTogether
<1>1. Init => LeaseInv
  BY DEF Init, LeaseInv, TypeOK, KeptHold, KeptTogether
<1>2. LeaseInv /\ [Next]_vars => LeaseInv'
  <2> SUFFICES ASSUME LeaseInv, [Next]_vars PROVE LeaseInv'
    OBVIOUS
  <2> USE DEF LeaseInv, TypeOK, KeptHold, KeptTogether
  <2>1. ASSUME NEW t \in Tasks, Admit(t)
        PROVE  LeaseInv'
    <3>1. \A s \in Tasks \ evicted : users[s] # NoEngine => users[s] = holder
      BY <2>1 DEF Admit
    <3>2. /\ holder \in Engines /\ holder' = holder /\ evicted' = evicted
          /\ users' = [users EXCEPT ![t] = holder]
      BY <2>1 DEF Admit
    <3>3. TypeOK'
      BY <3>2
    <3>4. \A s \in Tasks \ evicted' : users'[s] # NoEngine => users'[s] = holder'
      BY <3>1, <3>2
    <3> QED
      BY <3>3, <3>4
  <2>2. ASSUME NEW t \in Tasks, Leave(t)
        PROVE  LeaseInv'
    BY <2>2 DEF Leave
  <2>3. ASSUME NEW e \in Engines, Evict(e)
        PROVE  LeaseInv'
    BY <2>3 DEF Evict
  <2>4. ASSUME NEW e \in Engines, Grant(e)
        PROVE  LeaseInv'
    <3>1. \A s \in Tasks \ evicted : users[s] # NoEngine => users[s] = e
      BY <2>4 DEF Grant, Kept
    <3> QED
      BY <2>4, <3>1 DEF Grant
  <2>5. CASE Revoke
    BY <2>5 DEF Revoke
  <2>6. CASE Restart
    BY <2>6 DEF Restart
  <2>7. CASE UNCHANGED vars
    BY <2>7 DEF vars
  <2> QED
    BY <2>1, <2>2, <2>3, <2>4, <2>5, <2>6, <2>7 DEF Next
<1>3. LeaseInv => KeptTogether
  BY DEF LeaseInv
<1> QED
  BY <1>1, <1>2, <1>3, PTL DEF Spec
=============================================================================
