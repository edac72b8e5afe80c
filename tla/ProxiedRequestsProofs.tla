------------------------ MODULE ProxiedRequestsProofs ------------------------
(***************************************************************************)
(* Proofs about ProxiedRequests: types, counts, and relaying under the     *)
(* lease, for any set of requests, plans and engines.                      *)
(***************************************************************************)
EXTENDS ProxiedRequests, TLAPS

LEMMA AttemptOf ==
  ASSUME NEW r \in Requests, NEW n
  PROVE  <<r, n>> \in Attempts <=> n \in DOMAIN Plan[r]
BY DEF Attempts

LEMMA AttemptIs ==
  ASSUME NEW x \in Attempts
  PROVE  \E r \in Requests : \E n \in DOMAIN Plan[r] : x = <<r, n>>
BY DEF Attempts

LEMMA PlanLen ==
  ASSUME NEW r \in Requests
  PROVE  /\ Len(Plan[r]) \in Nat /\ Len(Plan[r]) >= 1 /\ DOMAIN Plan[r] = 1 .. Len(Plan[r])
         /\ \A n \in DOMAIN Plan[r] : Plan[r][n] \in Models
         /\ r \notin Smart => Len(Plan[r]) = 1
BY PlanAssumption

-----------------------------------------------------------------------------
(* Types, and what each place of a handler says of its acquire *)

\* Where the acquire of the current attempt stands when the handler is at a place,
\* and that a handler that goes on has an attempt left.
Stands(r) ==
  /\ at[r] = "idle" => acq[r] = "none"
  /\ at[r] \in {"waiting", "polling", "finally"} =>
       acq[r] \in {"pending", "ok", "failed", "crashed"}
  /\ at[r] \in {"connect", "relay", "forward", "releasing"} => acq[r] = "ok"
  /\ acq[r] = "pending" => at[r] \in {"waiting", "polling", "finally"}
  /\ at[r] \in {"finally", "releasing"} /\ exit[r] = "continue" => ~LastAttempt(r)

TypeInv == TypeOK /\ \A r \in Requests : Stands(r)

LEMMA InitTypeInv == Init => TypeInv
<1> SUFFICES ASSUME Init PROVE TypeInv
  OBVIOUS
<1>1. TypeOK
  BY PlanLen DEF Init, TypeOK, Suspended, Exits, Frames, Lease!Init
<1>2. \A r \in Requests : Stands(r)
  BY DEF Init, Stands
<1> QED
  BY <1>1, <1>2 DEF TypeInv

FramesOK  == frames \in [Requests -> Seq(Frames)]
VerdictOK == verdict \in [Attempts -> {"none", "success", "failure"}]

LEMMA SendType ==
  ASSUME FramesOK, NEW r \in Requests, NEW f \in Seq(Frames), Send(r, f)
  PROVE  FramesOK'
<1>1. frames[r] \in Seq(Frames)
  BY DEF FramesOK
<1>2. frames[r] \o f \in Seq(Frames)
  BY <1>1
<1>3. Sent(r, f) \in Seq(Frames)
  BY <1>1, <1>2 DEF Sent
<1> QED
  BY <1>3 DEF Send, FramesOK

LEMMA FrameSeqs ==
  /\ <<"hold">> \in Seq(Frames) /\ <<"bytes">> \in Seq(Frames) /\ <<"end">> \in Seq(Frames)
  /\ <<"error">> \in Seq(Frames) /\ <<"error", "done">> \in Seq(Frames)
  /\ <<"error", "end">> \in Seq(Frames) /\ <<"bytes", "end">> \in Seq(Frames)
  /\ \A r \in Requests : ErrorFrames(r) \in Seq(Frames)
<1>1. /\ <<"error", "done">> \in Seq(Frames) /\ <<"error", "end">> \in Seq(Frames)
      /\ <<>> \in Seq(Frames)
  BY DEF Frames
<1>2. \A r \in Requests : ErrorFrames(r) \in Seq(Frames)
  BY <1>1, KindsAssumption DEF ErrorFrames, Streamed
<1> QED
  BY <1>2 DEF Frames

LEMMA FramesType ==
  ASSUME TypeOK, [Next]_vars
  PROVE  FramesOK'
<1>0. FramesOK
  BY DEF TypeOK, FramesOK
<1>1. CASE UNCHANGED frames
  BY <1>0, <1>1 DEF FramesOK
<1>2. ASSUME NEW r \in Requests, NEW f \in Seq(Frames), Send(r, f)
      PROVE  FramesOK'
  BY <1>0, <1>2, SendType
<1>3. ASSUME NEW r \in Requests, HandlerStep(r)
      PROVE  FramesOK'
  <2>1. CASE Begin(r) \/ KeepaliveDue(r) \/ Bind(r) \/ Finally(r)
    BY <1>1, <2>1 DEF Begin, KeepaliveDue, Bind, Finally
  <2>2. CASE Poll(r)
    BY <1>1, <1>2, <2>2, FrameSeqs DEF Poll
  <2>3. CASE AcquireError(r)
    BY <1>1, <1>2, <2>3, FrameSeqs DEF AcquireError, GiveUpAttempt
  <2>4. CASE AcquireCrash(r)
    BY <1>1, <1>2, <2>4, FrameSeqs DEF AcquireCrash
  <2>5. CASE Release(r)
    BY <1>1, <1>2, <2>5, FrameSeqs DEF Release
  <2> QED
    BY <1>3, <2>1, <2>2, <2>3, <2>4, <2>5 DEF HandlerStep
<1>4. ASSUME NEW r \in Requests, Upstream(r)
      PROVE  FramesOK'
  <2>1. CASE Connected(r) \/ Answered(r)
    BY <1>1, <2>1 DEF Connected, Answered
  <2>2. CASE ConnectFails(r)
    BY <1>1, <1>2, <2>2, FrameSeqs DEF ConnectFails, GiveUpAttempt
  <2>3. CASE UpstreamRefuses(r) \/ StreamBreaks(r) \/ ForwardBreaks(r) \/ StreamEnds(r)
    BY <1>2, <2>3, FrameSeqs DEF UpstreamRefuses, StreamBreaks, ForwardBreaks, StreamEnds
  <2>4. CASE Chunk(r)
    BY <1>1, <1>2, <2>4, FrameSeqs DEF Chunk
  <2> QED
    BY <1>4, <2>1, <2>2, <2>3, <2>4 DEF Upstream
<1> QED
  BY <1>1, <1>3, <1>4
  DEF Next, Acquired, AcquireFails, Disconnect, Cancel, CancelRelease, ReleaseOwed,
      LostAcquired, Swap,
      vars, handlerVars

LEMMA RecordType ==
  ASSUME VerdictOK, NEW r \in Requests, NEW v \in {"success", "failure"}, Record(r, v)
  PROVE  VerdictOK'
BY DEF VerdictOK, Record

LEMMA VerdictType ==
  ASSUME TypeOK, [Next]_vars
  PROVE  VerdictOK'
<1>0. VerdictOK
  BY DEF TypeOK, VerdictOK
<1>1. CASE UNCHANGED verdict
  BY <1>0, <1>1 DEF VerdictOK
<1>2. ASSUME NEW r \in Requests, Record(r, "success") \/ Record(r, "failure")
      PROVE  VerdictOK'
  BY <1>0, <1>2, RecordType
<1>3. ASSUME NEW r \in Requests, HandlerStep(r)
      PROVE  VerdictOK'
  BY <1>1, <1>2, <1>3
  DEF HandlerStep, Begin, KeepaliveDue, Poll, Bind, AcquireError, GiveUpAttempt,
      AcquireCrash, Finally, Release
<1>4. ASSUME NEW r \in Requests, Upstream(r)
      PROVE  VerdictOK'
  BY <1>1, <1>2, <1>4
  DEF Upstream, Connected, ConnectFails, GiveUpAttempt, UpstreamRefuses, Chunk, StreamEnds,
      StreamBreaks, Answered, ForwardBreaks
<1> QED
  BY <1>1, <1>3, <1>4
  DEF Next, Acquired, AcquireFails, Disconnect, Cancel, CancelRelease, ReleaseOwed,
      LostAcquired, Swap,
      vars, handlerVars

\* The rest of the type invariant: the places of the handlers, and the lease.
PlacesOK ==
  /\ at \in [Requests -> Suspended \cup {"idle", "finally", "releasing", "ended"}]
  /\ attempt \in [Requests -> Nat]
  /\ \A r \in Requests : attempt[r] \in DOMAIN Plan[r]
  /\ acq \in [Requests -> {"none", "pending", "ok", "failed", "crashed", "cancelled"}]
  /\ exit \in [Requests -> Exits]
  /\ \A r \in Requests : Stands(r)

EnginesOK ==
  /\ engine \in [Requests -> Engines \cup {NoEngine}]
  /\ gone \subseteq Requests
  /\ owed \subseteq Attempts
  /\ lost \subseteq Attempts
  /\ whole \subseteq Requests
  /\ holder \in Engines \cup {NoEngine}
  /\ users \in [Attempts -> Engines \cup {NoEngine}]
  /\ evicted \subseteq Attempts

LEMMA TypeParts == TypeInv <=> PlacesOK /\ EnginesOK /\ FramesOK /\ VerdictOK
BY DEF TypeInv, TypeOK, PlacesOK, EnginesOK, FramesOK, VerdictOK

\* A step of the handler of r changes no other handler's place.
LEMMA PlaceStep ==
  ASSUME PlacesOK, NEW r \in Requests,
         NEW p \in Suspended \cup {"idle", "finally", "releasing", "ended"},
         NEW n \in DOMAIN Plan[r],
         NEW q \in {"none", "pending", "ok", "failed", "crashed", "cancelled"},
         NEW e \in Exits,
         at' = [at EXCEPT ![r] = p], attempt' = [attempt EXCEPT ![r] = n],
         acq' = [acq EXCEPT ![r] = q], exit' = [exit EXCEPT ![r] = e],
         Stands(r)'
  PROVE  PlacesOK'
<1>1. \A s \in Requests \ {r} : Stands(s)'
  BY DEF PlacesOK, Stands, LastAttempt
<1>2. n \in Nat
  BY PlanLen
<1> QED
  BY <1>1, <1>2 DEF PlacesOK

LEMMA PlacesType ==
  ASSUME TypeInv, [Next]_vars
  PROVE  PlacesOK'
<1>0. PlacesOK
  BY TypeParts
<1>1. CASE UNCHANGED <<at, attempt, acq, exit>>
  BY <1>0, <1>1 DEF PlacesOK, Stands, LastAttempt
<1>2. ASSUME NEW r \in Requests,
             NEW p \in Suspended \cup {"idle", "finally", "releasing", "ended"},
             NEW e \in Exits,
             at' = [at EXCEPT ![r] = p], exit' = [exit EXCEPT ![r] = e],
             UNCHANGED <<attempt, acq>>, Stands(r)'
      PROVE  PlacesOK'
  <2>1. /\ attempt' = [attempt EXCEPT ![r] = attempt[r]] /\ attempt[r] \in DOMAIN Plan[r]
        /\ acq' = [acq EXCEPT ![r] = acq[r]]
        /\ acq[r] \in {"none", "pending", "ok", "failed", "crashed", "cancelled"}
    BY <1>0, <1>2 DEF PlacesOK
  <2> QED
    BY <1>0, <1>2, <2>1, PlaceStep
\* The handler moves, without leaving the attempt.
<1>3. ASSUME NEW r \in Requests,
             NEW p \in Suspended \cup {"idle", "releasing", "ended"},
             Goto(r, p), UNCHANGED <<attempt, acq, exit>>, Stands(r)'
      PROVE  PlacesOK'
  <2>1. exit' = [exit EXCEPT ![r] = exit[r]] /\ exit[r] \in Exits
    BY <1>0, <1>3 DEF PlacesOK
  <2> QED
    BY <1>2, <1>3, <2>1 DEF Goto
\* The handler enters its finally clause.
<1>4. ASSUME NEW r \in Requests, NEW why \in Exits, Leave(r, why),
             UNCHANGED <<attempt, acq>>,
             acq[r] \in {"pending", "ok", "failed", "crashed"},
             why = "continue" => ~LastAttempt(r)
      PROVE  PlacesOK'
  <2>1. Stands(r)'
    BY <1>0, <1>4 DEF PlacesOK, Leave, Goto, Stands, LastAttempt
  <2> QED
    BY <1>2, <1>4, <2>1 DEF Leave, Goto
<1>5. ASSUME NEW r \in Requests, GiveUpAttempt(r), UNCHANGED <<attempt, acq>>,
             acq[r] \in {"pending", "ok", "failed", "crashed"}
      PROVE  PlacesOK'
  BY <1>4, <1>5 DEF GiveUpAttempt, Exits
<1>6. ASSUME NEW r \in Requests, NEW why, AfterFinally(r, why), UNCHANGED exit,
             why = "continue" => ~LastAttempt(r), acq[r] \in {"ok", "failed", "crashed"}
      PROVE  PlacesOK'
  <2>1. exit' = [exit EXCEPT ![r] = exit[r]] /\ exit[r] \in Exits
    BY <1>0, <1>6 DEF PlacesOK
  <2>2. CASE why = "continue"
    <3>1. attempt[r] + 1 \in DOMAIN Plan[r]
      BY <1>0, <1>6, <2>2, PlanLen DEF PlacesOK, LastAttempt
    <3>2. Stands(r)'
      BY <1>0, <1>6, <2>2 DEF PlacesOK, AfterFinally, Goto, Stands, LastAttempt
    <3>3. /\ at' = [at EXCEPT ![r] = "waiting"]
          /\ attempt' = [attempt EXCEPT ![r] = attempt[r] + 1]
          /\ acq' = [acq EXCEPT ![r] = "pending"]
      BY <1>6, <2>2 DEF AfterFinally, Goto
    <3>4. /\ "waiting" \in Suspended \cup {"idle", "finally", "releasing", "ended"}
          /\ "pending" \in {"none", "pending", "ok", "failed", "crashed", "cancelled"}
      BY DEF Suspended
    <3> QED
      BY <1>0, <2>1, <3>1, <3>2, <3>3, <3>4, PlaceStep
  <2>3. CASE why # "continue"
    <3>1. Stands(r)'
      BY <1>0, <1>6, <2>3 DEF PlacesOK, AfterFinally, Goto, Stands, LastAttempt
    <3> QED
      BY <1>3, <1>6, <2>3, <3>1 DEF AfterFinally
  <2> QED
    BY <2>2, <2>3
\* The acquire of r moves.
<1>7. ASSUME NEW r \in Requests,
             NEW q \in {"none", "pending", "ok", "failed", "crashed", "cancelled"},
             NEW p \in Suspended \cup {"idle", "finally", "releasing", "ended"},
             acq' = [acq EXCEPT ![r] = q], at' = [at EXCEPT ![r] = p],
             UNCHANGED <<attempt, exit>>, Stands(r)'
      PROVE  PlacesOK'
  <2>1. /\ exit' = [exit EXCEPT ![r] = exit[r]] /\ exit[r] \in Exits
        /\ attempt' = [attempt EXCEPT ![r] = attempt[r]] /\ attempt[r] \in DOMAIN Plan[r]
    BY <1>0, <1>7 DEF PlacesOK
  <2> QED
    BY <1>0, <1>7, <2>1, PlaceStep
<1>8. ASSUME NEW r \in Requests, HandlerStep(r)
      PROVE  PlacesOK'
  <2> USE <1>0 DEF PlacesOK, Stands, LastAttempt, Suspended, Exits
  <2>1. CASE Begin(r)
    BY <2>1, <1>7 DEF Begin, Goto
  <2>2. CASE KeepaliveDue(r)
    BY <2>2, <1>3 DEF KeepaliveDue, Goto
  <2>3. CASE Poll(r)
    <3>1. CASE r \in gone
      BY <3>1, <2>3, <1>4 DEF Poll
    <3>2. CASE r \notin gone
      BY <3>2, <2>3, <1>3 DEF Poll, Goto
    <3> QED
      BY <3>1, <3>2
  <2>4. CASE Bind(r)
    BY <2>4, <1>3 DEF Bind, Goto
  <2>5. CASE AcquireError(r)
    BY <2>5, <1>5 DEF AcquireError
  <2>6. CASE AcquireCrash(r)
    BY <2>6, <1>4 DEF AcquireCrash
  <2>7. CASE Finally(r)
    <3>1. CASE acq[r] = "pending"
      <4>1. /\ at' = [at EXCEPT ![r] = "ended"] /\ acq' = [acq EXCEPT ![r] = "cancelled"]
            /\ UNCHANGED <<attempt, exit>>
        BY <3>1, <2>7 DEF Finally, CancelAcquire, Goto
      <4>2. Stands(r)'
        BY <4>1
      <4> QED
        BY <4>1, <4>2, <1>7
    <3>2. CASE acq[r] = "ok"
      BY <3>2, <2>7, <1>3 DEF Finally, Goto
    <3>3. CASE acq[r] \in {"failed", "crashed"}
      BY <3>3, <2>7, <1>6 DEF Finally
    <3> QED
      BY <3>1, <3>2, <3>3, <2>7 DEF Finally
  <2>8. CASE Release(r)
    BY <2>8, <1>6 DEF Release
  <2> QED
    BY <1>8, <2>1, <2>2, <2>3, <2>4, <2>5, <2>6, <2>7, <2>8 DEF HandlerStep
<1>9. ASSUME NEW r \in Requests, Upstream(r)
      PROVE  PlacesOK'
  <2>0. acq[r] = "ok"
    BY <1>0, <1>9
    DEF PlacesOK, Stands, Upstream, Connected, ConnectFails, UpstreamRefuses, Chunk,
        StreamEnds, StreamBreaks, Answered, ForwardBreaks
  <2>1. CASE Connected(r)
    BY <1>0, <2>0, <2>1, <1>3 DEF Connected, Goto, PlacesOK, Stands, Suspended
  <2>2. CASE ConnectFails(r)
    BY <2>0, <2>2, <1>5 DEF ConnectFails
  <2>3. CASE UpstreamRefuses(r) \/ StreamBreaks(r) \/ ForwardBreaks(r) \/ StreamEnds(r)
    BY <2>0, <2>3, <1>4
    DEF UpstreamRefuses, StreamBreaks, ForwardBreaks, StreamEnds, Exits
  <2>4. CASE Chunk(r)
    BY <2>0, <2>4, <1>1, <1>4 DEF Chunk, Exits
  <2>5. CASE Answered(r)
    BY <2>0, <2>5, <1>4 DEF Answered, Exits
  <2> QED
    BY <1>9, <2>1, <2>2, <2>3, <2>4, <2>5 DEF Upstream
<1>10. ASSUME NEW r \in Requests, Acquired(r) \/ AcquireFails(r)
       PROVE  PlacesOK'
  <2>1. at' = [at EXCEPT ![r] = at[r]]
    BY <1>0, <1>10 DEF PlacesOK, Acquired, AcquireFails
  <2>2. Stands(r)'
    BY <1>0, <1>10 DEF PlacesOK, Acquired, AcquireFails, Stands, LastAttempt
  <2>3. at[r] \in Suspended \cup {"idle", "finally", "releasing", "ended"}
    BY <1>0 DEF PlacesOK
  <2> QED
    BY <1>7, <1>10, <2>1, <2>2, <2>3 DEF Acquired, AcquireFails
<1>11. ASSUME NEW r \in Requests, Cancel(r)
       PROVE  PlacesOK'
  BY <1>0, <1>4, <1>11 DEF Cancel, Exits, PlacesOK, Stands, Suspended
<1>12. ASSUME NEW r \in Requests, CancelRelease(r)
       PROVE  PlacesOK'
  BY <1>0, <1>3, <1>12 DEF CancelRelease, Goto, PlacesOK, Stands
<1> QED
  BY <1>1, <1>8, <1>9, <1>10, <1>11, <1>12
  DEF Next, Disconnect, ReleaseOwed, LostAcquired, Swap, vars, handlerVars

LEMMA EnginesType ==
  ASSUME TypeInv, [Next]_vars
  PROVE  EnginesOK'
<1>0. EnginesOK /\ \A r \in Requests : Current(r) \in Attempts
  BY TypeParts, AttemptOf DEF PlacesOK, Current
<1> USE <1>0, OwnerAssumption DEF EnginesOK, handlerVars, leaseVars
<1>1. CASE UNCHANGED vars
  BY <1>1 DEF vars
<1>2. ASSUME NEW r \in Requests, HandlerStep(r)
      PROVE  EnginesOK'
  BY <1>2 DEF HandlerStep, Begin, KeepaliveDue, Poll, Bind, AcquireError, AcquireCrash,
              Finally, CancelAcquire, Release, Lease!Leave
<1>3. ASSUME NEW r \in Requests, Upstream(r)
      PROVE  EnginesOK'
  <2>1. CASE StreamEnds(r) \/ Answered(r)
    BY <2>1 DEF StreamEnds, Answered
  <2> QED
    BY <1>3, <2>1 DEF Upstream, Connected, ConnectFails, UpstreamRefuses, Chunk,
                      StreamBreaks, ForwardBreaks
<1>4. ASSUME NEW r \in Requests, Acquired(r) \/ AcquireFails(r)
      PROVE  EnginesOK'
  BY <1>4 DEF Acquired, AcquireFails, Lease!Admit
<1>5. ASSUME NEW r \in Requests, Disconnect(r) \/ Cancel(r) \/ CancelRelease(r)
      PROVE  EnginesOK'
  BY <1>5 DEF Disconnect, Cancel, CancelRelease
<1>6. ASSUME NEW x \in Attempts, ReleaseOwed(x) \/ LostAcquired(x)
      PROVE  EnginesOK'
  BY <1>6 DEF ReleaseOwed, LostAcquired, Lease!Leave, Lease!Admit
<1>7. CASE Swap
  BY <1>7 DEF Swap, Lease!Evict, Lease!Kept, Lease!Revoke, Lease!Grant
<1> QED
  BY <1>1, <1>2, <1>3, <1>4, <1>5, <1>6, <1>7 DEF Next

LEMMA NextTypeInv == TypeInv /\ [Next]_vars => TypeInv'
<1> SUFFICES ASSUME TypeInv, [Next]_vars PROVE TypeInv'
  OBVIOUS
<1>1. FramesOK' /\ VerdictOK' /\ PlacesOK' /\ EnginesOK'
  BY FramesType, VerdictType, PlacesType, EnginesType DEF TypeInv
<1> QED
  BY <1>1 DEF TypeInv, TypeOK, PlacesOK, EnginesOK, FramesOK, VerdictOK

\* Every variable of the handlers keeps its type; no handler goes past its plan.
THEOREM TypeCorrect == Spec => []TypeOK
<1>1. TypeInv => TypeOK
  BY DEF TypeInv
<1> QED
  BY <1>1, InitTypeInv, NextTypeInv, PTL DEF Spec

-----------------------------------------------------------------------------
(* Counts, and the engine a request is relayed to *)

\* What the lease holds for request r.  A lent engine is that of the current model,
\* which is what makes the bound engine the right one; a release that outlives its
\* handler is that of a handler that has ended, so that it cannot take away what a
\* later attempt holds, and so is an acquire whose cancellation was lost.
Lent(r) ==
  /\ \A n \in DOMAIN Plan[r] : users[<<r, n>>] # NoEngine =>
       \/ n = attempt[r] /\ acq[r] = "ok" /\ at[r] # "ended"
       \/ <<r, n>> \in owed /\ at[r] = "ended"
       \/ WaitForLosesCancel /\ <<r, n>> \in lost /\ at[r] = "ended"
  /\ \A n \in DOMAIN Plan[r] : <<r, n>> \in owed => at[r] = "ended"
  /\ \A n \in DOMAIN Plan[r] : <<r, n>> \in lost => WaitForLosesCancel /\ at[r] = "ended"
  /\ acq[r] = "ok" /\ at[r] # "ended" => users[Current(r)] = Owner[Model(r)]
  /\ at[r] \in {"connect", "relay", "forward"} => engine[r] = Owner[Model(r)]

\* An attempt that was not given up is served by the engine that has the GPU, or by
\* the one that had it last.
KeptHold ==
  \A x \in Attempts \ evicted : users[x] # NoEngine => holder \in {users[x], NoEngine}

LeaseInv == (\A r \in Requests : Lent(r)) /\ KeptHold

LEMMA InitLeaseInv == Init => LeaseInv
<1> SUFFICES ASSUME Init PROVE LeaseInv
  OBVIOUS
<1>1. \A r \in Requests : Lent(r)
  BY AttemptOf DEF Init, Lease!Init, Lent
<1>2. KeptHold
  BY DEF Init, Lease!Init, KeptHold
<1> QED
  BY <1>1, <1>2 DEF LeaseInv

\* What a step of one request leaves alone.
StillOf(s) ==
  /\ at'[s] = at[s] /\ attempt'[s] = attempt[s] /\ acq'[s] = acq[s] /\ engine'[s] = engine[s]
  /\ \A n \in DOMAIN Plan[s] :
       /\ users'[<<s, n>>] = users[<<s, n>>]
       /\ <<s, n>> \in owed' <=> <<s, n>> \in owed
       /\ <<s, n>> \in lost' <=> <<s, n>> \in lost

LEMMA StillLent ==
  ASSUME PlacesOK, NEW s \in Requests, Lent(s), StillOf(s)
  PROVE  Lent(s)'
<1>1. attempt[s] \in DOMAIN Plan[s]
  BY DEF PlacesOK
<1> QED
  BY <1>1 DEF Lent, StillOf, Current, Model

\* A place of the handler is left for another that asks no more of the lease.
LEMMA MoveLent ==
  ASSUME TypeInv, \A s \in Requests : Lent(s), NEW r \in Requests, NEW p,
         at' = [at EXCEPT ![r] = p], UNCHANGED <<attempt, acq, engine, users, owed, lost>>,
         at[r] # "ended", p # "ended" \/ acq[r] # "ok",
         p \in {"connect", "relay", "forward"} => at[r] \in {"connect", "relay", "forward"}
  PROVE  \A s \in Requests : Lent(s)'
<1>0. PlacesOK
  BY TypeParts
<1>1. \A s \in Requests \ {r} : Lent(s)'
  BY <1>0, StillLent DEF StillOf, PlacesOK
<1>2. at'[r] = p /\ attempt[r] \in DOMAIN Plan[r]
  BY <1>0 DEF PlacesOK
<1>3. Lent(r)'
  BY <1>2 DEF Lent, Current, Model
<1> QED
  BY <1>1, <1>3

\* The attempt of r ends while it holds nothing.
LEMMA EndLent ==
  ASSUME TypeInv, \A s \in Requests : Lent(s), NEW r \in Requests, NEW why,
         AfterFinally(r, why), UNCHANGED <<owed, lost>>, at[r] # "ended",
         \A n \in DOMAIN Plan[r] : users'[<<r, n>>] = NoEngine,
         \A s \in Requests \ {r} : \A n \in DOMAIN Plan[s] :
           users'[<<s, n>>] = users[<<s, n>>],
         \A s \in Requests \ {r} : engine'[s] = engine[s]
  PROVE  \A s \in Requests : Lent(s)'
<1>0. PlacesOK
  BY TypeParts
<1>1. \A s \in Requests \ {r} : Lent(s)'
  BY <1>0, StillLent DEF StillOf, PlacesOK, AfterFinally, Goto
<1>2. \A n \in DOMAIN Plan[r] : <<r, n>> \notin owed' /\ <<r, n>> \notin lost'
  BY DEF Lent
<1>3. at'[r] = "ended" \/ (at'[r] = "waiting" /\ acq'[r] = "pending")
  <2>1. r \in DOMAIN at /\ r \in DOMAIN acq
    BY <1>0 DEF PlacesOK
  <2>2. CASE why = "continue"
    BY <2>1, <2>2 DEF AfterFinally, Goto
  <2>3. CASE why # "continue"
    BY <2>1, <2>3 DEF AfterFinally, Goto
  <2> QED
    BY <2>2, <2>3
<1>4. Lent(r)'
  BY <1>2, <1>3 DEF Lent
<1> QED
  BY <1>1, <1>4

LEMMA LentKept ==
  ASSUME TypeInv, LeaseInv, [Next]_vars
  PROVE  \A s \in Requests : Lent(s)'
<1>0. PlacesOK /\ EnginesOK /\ \A s \in Requests : Lent(s)
  BY TypeParts DEF LeaseInv
<1>00. \A s \in Requests : Current(s) \in Attempts /\ attempt[s] \in DOMAIN Plan[s]
  BY <1>0, AttemptOf DEF PlacesOK, Current
<1>1. CASE UNCHANGED <<at, attempt, acq, engine, users, owed, lost>>
  BY <1>0, <1>1, StillLent DEF StillOf
<1>2. ASSUME NEW r \in Requests, NEW why, Leave(r, why), at[r] # "ended",
             UNCHANGED <<attempt, acq, engine, users, owed, lost>>
      PROVE  \A s \in Requests : Lent(s)'
  BY <1>0, <1>2, MoveLent DEF Leave, Goto
<1>3. ASSUME NEW r \in Requests, HandlerStep(r)
      PROVE  \A s \in Requests : Lent(s)'
  <2> USE DEF leaseVars
  <2>1. CASE Begin(r)
    <3>1. \A s \in Requests \ {r} : Lent(s)'
      BY <1>0, <2>1, StillLent DEF StillOf, PlacesOK, Begin, Goto
    <3>2. at'[r] = "waiting" /\ acq'[r] = "pending" /\ acq[r] = "none" /\ at[r] = "idle"
      BY <1>0, <2>1 DEF PlacesOK, Begin, Goto, Stands
    <3>3. Lent(r)'
      BY <1>0, <2>1, <3>2 DEF Begin, Lent
    <3> QED
      BY <3>1, <3>3
  <2>2. CASE KeepaliveDue(r)
    BY <1>0, <2>2, MoveLent DEF KeepaliveDue, Goto
  <2>3. CASE Poll(r)
    BY <1>0, <1>2, <2>3, MoveLent DEF Poll, Goto
  <2>4. CASE Bind(r)
    <3>1. \A s \in Requests \ {r} : Lent(s)'
      BY <1>0, <2>4, StillLent DEF StillOf, PlacesOK, EnginesOK, Bind, Goto
    <3>2. /\ at'[r] \in {"forward", "connect"} /\ engine'[r] = users[Current(r)]
          /\ at[r] = "waiting" /\ acq[r] = "ok"
      BY <1>0, <2>4 DEF PlacesOK, EnginesOK, Bind, Goto
    <3>3. Lent(r)'
      BY <1>0, <1>00, <2>4, <3>2 DEF Bind, Lent, Current, Model
    <3> QED
      BY <3>1, <3>3
  <2>5. CASE AcquireError(r)
    BY <1>2, <2>5 DEF AcquireError, GiveUpAttempt
  <2>6. CASE AcquireCrash(r)
    BY <1>2, <2>6 DEF AcquireCrash
  <2>7. CASE Finally(r)
    <3>1. CASE acq[r] = "pending"
      <4>1. /\ at' = [at EXCEPT ![r] = "ended"] /\ acq' = [acq EXCEPT ![r] = "cancelled"]
            /\ UNCHANGED <<attempt, engine, users, owed>> /\ at[r] = "finally"
            /\ lost' = lost \/ (WaitForLosesCancel /\ lost' = lost \cup {Current(r)})
        BY <3>1, <2>7 DEF Finally, CancelAcquire, Goto
      <4>2. \A s \in Requests \ {r} : Lent(s)'
        BY <1>0, <4>1, StillLent DEF StillOf, PlacesOK, Current
      <4>3. at'[r] = "ended" /\ acq'[r] = "cancelled"
        BY <1>0, <4>1 DEF PlacesOK
      <4>4. Lent(r)'
        BY <1>0, <3>1, <4>1, <4>3 DEF Lent, Current
      <4> QED
        BY <4>2, <4>4
    <3>2. CASE acq[r] = "ok"
      <4>1. /\ at' = [at EXCEPT ![r] = "releasing"] /\ at[r] = "finally"
            /\ UNCHANGED <<attempt, acq, users, owed, lost>>
            /\ engine' = [engine EXCEPT ![r] = users[Current(r)]]
        BY <3>2, <2>7 DEF Finally, Goto
      <4>2. \A s \in Requests \ {r} : Lent(s)'
        BY <1>0, <4>1, StillLent DEF StillOf, PlacesOK, EnginesOK
      <4>3. at'[r] = "releasing"
        BY <1>0, <4>1 DEF PlacesOK
      <4>4. Lent(r)'
        BY <1>0, <1>00, <4>1, <4>3 DEF Lent, Current, Model
      <4> QED
        BY <4>2, <4>4
    <3>3. CASE acq[r] \in {"failed", "crashed"}
      <4>1. /\ AfterFinally(r, exit[r]) /\ UNCHANGED <<engine, users, owed, lost>>
            /\ at[r] = "finally"
        BY <2>7, <3>3 DEF Finally
      <4>2. \A n \in DOMAIN Plan[r] : users[<<r, n>>] = NoEngine
        BY <1>0, <3>3, <4>1 DEF Lent
      <4> QED
        BY <1>0, <4>1, <4>2, EndLent
    <3> QED
      BY <2>7, <3>1, <3>2, <3>3 DEF Finally
  <2>8. CASE Release(r)
    <3>1. /\ users' = [users EXCEPT ![Current(r)] = NoEngine] /\ at[r] = "releasing"
          /\ AfterFinally(r, exit[r]) /\ UNCHANGED <<owed, lost>>
          /\ engine' = [engine EXCEPT ![r] = NoEngine]
      BY <2>8 DEF Release, Lease!Leave
    <3>2. \A n \in DOMAIN Plan[r] : users'[<<r, n>>] = NoEngine
      BY <1>0, <1>00, <3>1, AttemptOf DEF Lent, Current, EnginesOK
    <3>3. \A s \in Requests \ {r} : \A n \in DOMAIN Plan[s] :
            users'[<<s, n>>] = users[<<s, n>>]
      BY <1>0, <3>1, AttemptOf DEF Current, EnginesOK
    <3>4. \A s \in Requests \ {r} : engine'[s] = engine[s]
      BY <1>0, <3>1 DEF EnginesOK
    <3> QED
      BY <1>0, <3>1, <3>2, <3>3, <3>4, EndLent
  <2> QED
    BY <1>3, <2>1, <2>2, <2>3, <2>4, <2>5, <2>6, <2>7, <2>8 DEF HandlerStep
<1>4. ASSUME NEW r \in Requests, Upstream(r)
      PROVE  \A s \in Requests : Lent(s)'
  <2> USE DEF leaseVars
  <2>1. CASE Connected(r)
    BY <1>0, <2>1, MoveLent DEF Connected, Goto
  <2>2. CASE ConnectFails(r)
    BY <1>2, <2>2 DEF ConnectFails, GiveUpAttempt
  <2>3. CASE Chunk(r)
    BY <1>1, <1>2, <2>3 DEF Chunk
  <2>4. CASE \/ UpstreamRefuses(r) \/ StreamBreaks(r) \/ ForwardBreaks(r) \/ StreamEnds(r)
             \/ Answered(r)
    BY <1>2, <2>4 DEF UpstreamRefuses, StreamBreaks, ForwardBreaks, StreamEnds, Answered
  <2> QED
    BY <1>4, <2>1, <2>2, <2>3, <2>4 DEF Upstream
<1>5. ASSUME NEW r \in Requests, Acquired(r)
      PROVE  \A s \in Requests : Lent(s)'
  <2>1. /\ users' = [users EXCEPT ![Current(r)] = holder] /\ holder = Owner[Model(r)]
        /\ acq[r] = "pending" /\ acq' = [acq EXCEPT ![r] = "ok"]
        /\ UNCHANGED <<at, attempt, engine, owed, lost>>
    BY <1>5 DEF Acquired, Lease!Admit
  <2>2. \A s \in Requests \ {r} : Lent(s)'
    BY <1>0, <2>1, StillLent, AttemptOf DEF StillOf, PlacesOK, EnginesOK, Current
  <2>3. at[r] \in {"waiting", "polling", "finally"}
    BY <1>0, <2>1 DEF PlacesOK, Stands
  <2>4. users'[Current(r)] = Owner[Model(r)] /\ acq'[r] = "ok"
    BY <1>0, <1>00, <2>1 DEF PlacesOK, EnginesOK
  <2>5. \A n \in DOMAIN Plan[r] : n # attempt[r] => users'[<<r, n>>] = users[<<r, n>>]
    BY <1>0, <2>1, AttemptOf DEF EnginesOK, Current
  <2>6. Lent(r)'
    BY <1>0, <1>00, <2>1, <2>3, <2>4, <2>5 DEF Lent, Current, Model
  <2> QED
    BY <2>2, <2>6
<1>6. ASSUME NEW r \in Requests, AcquireFails(r)
      PROVE  \A s \in Requests : Lent(s)'
  <2>1. PICK how \in {"failed", "crashed"} :
          /\ acq[r] = "pending" /\ acq' = [acq EXCEPT ![r] = how]
          /\ UNCHANGED <<at, attempt, engine, owed, lost, users>>
    BY <1>6 DEF AcquireFails, leaseVars
  <2>2. \A s \in Requests \ {r} : Lent(s)'
    BY <1>0, <2>1, StillLent DEF StillOf, PlacesOK
  <2>3. acq'[r] = how
    BY <1>0, <2>1 DEF PlacesOK
  <2>4. Lent(r)'
    BY <1>0, <2>1, <2>3 DEF Lent, Current, Model
  <2> QED
    BY <2>2, <2>4
<1>7. ASSUME NEW r \in Requests, Disconnect(r) \/ Cancel(r)
      PROVE  \A s \in Requests : Lent(s)'
  BY <1>1, <1>2, <1>7 DEF Disconnect, Cancel, leaseVars, Suspended
<1>8. ASSUME NEW r \in Requests, CancelRelease(r)
      PROVE  \A s \in Requests : Lent(s)'
  <2>1. /\ at[r] = "releasing" /\ at' = [at EXCEPT ![r] = "ended"]
        /\ owed' = owed \cup {Current(r)} /\ UNCHANGED <<attempt, acq, engine, users, lost>>
    BY <1>8 DEF CancelRelease, Goto, leaseVars
  <2>2. \A s \in Requests \ {r} : Lent(s)'
    BY <1>0, <2>1, StillLent DEF StillOf, PlacesOK, Current
  <2>3. at'[r] = "ended"
    BY <1>0, <2>1 DEF PlacesOK
  <2>4. Lent(r)'
    BY <1>0, <1>00, <2>1, <2>3 DEF Lent, Current
  <2> QED
    BY <2>2, <2>4
<1>9. ASSUME NEW x \in Attempts, ReleaseOwed(x)
      PROVE  \A s \in Requests : Lent(s)'
  <2>1. PICK r \in Requests : \E n \in DOMAIN Plan[r] : x = <<r, n>>
    BY AttemptIs
  <2>2. /\ x \in owed /\ users' = [users EXCEPT ![x] = NoEngine] /\ owed' = owed \ {x}
        /\ UNCHANGED <<at, attempt, acq, engine, lost>>
    BY <1>9 DEF ReleaseOwed, Lease!Leave
  <2>3. at[r] = "ended"
    BY <1>0, <2>1, <2>2 DEF Lent
  <2>4. \A s \in Requests : \A m \in DOMAIN Plan[s] :
          <<s, m>> # x => /\ users'[<<s, m>>] = users[<<s, m>>]
                         /\ <<s, m>> \in owed' <=> <<s, m>> \in owed
    BY <1>0, <2>2, AttemptOf DEF EnginesOK
  <2>5. users'[x] = NoEngine /\ x \notin owed'
    BY <1>0, <1>9, <2>2 DEF EnginesOK
  <2>6. \A s \in Requests \ {r} : Lent(s)'
    BY <1>0, <2>1, <2>2, <2>4, StillLent DEF StillOf
  <2>7. Lent(r)'
    BY <1>0, <2>1, <2>2, <2>3, <2>4, <2>5 DEF Lent
  <2> QED
    BY <2>6, <2>7
<1>10. CASE Swap
  BY <1>1, <1>10 DEF Swap, Lease!Evict, Lease!Revoke, Lease!Grant, handlerVars
<1>11. ASSUME NEW x \in Attempts, LostAcquired(x)
       PROVE  \A s \in Requests : Lent(s)'
  <2>1. PICK r \in Requests : \E n \in DOMAIN Plan[r] : x = <<r, n>>
    BY AttemptIs
  <2>2. /\ x \in lost /\ users' = [users EXCEPT ![x] = holder]
        /\ UNCHANGED <<at, attempt, acq, engine, owed, lost>>
    BY <1>11 DEF LostAcquired, Lease!Admit, handlerVars
  <2>3. at[r] = "ended" /\ WaitForLosesCancel
    BY <1>0, <2>1, <2>2 DEF Lent
  <2>4. \A s \in Requests : \A m \in DOMAIN Plan[s] :
          <<s, m>> # x => users'[<<s, m>>] = users[<<s, m>>]
    BY <1>0, <2>2, AttemptOf DEF EnginesOK
  <2>5. \A s \in Requests \ {r} : Lent(s)'
    BY <1>0, <2>1, <2>2, <2>4, StillLent DEF StillOf
  <2>6. Lent(r)'
    <3>1. \A n \in DOMAIN Plan[r] : users'[<<r, n>>] # NoEngine =>
            users[<<r, n>>] # NoEngine \/ <<r, n>> \in lost
      BY <2>2, <2>4
    <3>2. Lent(r)
      BY <1>0
    <3> QED
      BY <2>2, <2>3, <3>1, <3>2 DEF Lent
  <2> QED
    BY <2>5, <2>6
<1> QED
  BY <1>1, <1>3, <1>4, <1>5, <1>6, <1>7, <1>8, <1>9, <1>10, <1>11
  DEF Next, vars, handlerVars, leaseVars

LEMMA KeptHoldKept ==
  ASSUME TypeInv, LeaseInv, [Next]_vars
  PROVE  KeptHold'
<1>0. KeptHold /\ users \in [Attempts -> Engines \cup {NoEngine}] /\ NoEngine \notin Engines
  BY TypeParts, OwnerAssumption DEF LeaseInv, EnginesOK
<1>1. CASE UNCHANGED leaseVars
  BY <1>0, <1>1 DEF KeptHold, leaseVars
<1>2. ASSUME NEW x \in Attempts, Lease!Admit(x) \/ Lease!Leave(x)
      PROVE  KeptHold'
  BY <1>0, <1>2 DEF KeptHold, Lease!Admit, Lease!Leave
<1>3. CASE Swap
  <2>1. ASSUME NEW e \in Engines, Lease!Evict(e)
        PROVE  KeptHold'
    BY <1>0, <2>1 DEF KeptHold, Lease!Evict
  <2>2. CASE Lease!Revoke
    BY <1>0, <2>2 DEF KeptHold, Lease!Revoke
  <2>3. ASSUME NEW e \in Engines, Lease!Grant(e)
        PROVE  KeptHold'
    <3>1. \A x \in Attempts \ evicted : users[x] # NoEngine => users[x] = e
      BY <1>0, <2>3 DEF Lease!Grant, Lease!Kept
    <3> QED
      BY <2>3, <3>1 DEF KeptHold, Lease!Grant
  <2> QED
    BY <1>3, <2>1, <2>2, <2>3 DEF Swap
<1>4. ASSUME NEW r \in Requests, HandlerStep(r)
      PROVE  KeptHold'
  <2>0. Current(r) \in Attempts
    BY TypeParts, AttemptOf DEF PlacesOK, Current
  <2> QED
    BY <1>1, <1>2, <1>4, <2>0
    DEF HandlerStep, Begin, KeepaliveDue, Poll, Bind, AcquireError, AcquireCrash, Finally,
        Release
<1>5. ASSUME NEW r \in Requests, Upstream(r)
      PROVE  KeptHold'
  BY <1>1, <1>5
  DEF Upstream, Connected, ConnectFails, UpstreamRefuses, Chunk, StreamEnds, StreamBreaks,
      Answered, ForwardBreaks
<1>6. ASSUME NEW r \in Requests, Acquired(r)
      PROVE  KeptHold'
  <2>0. Current(r) \in Attempts
    BY TypeParts, AttemptOf DEF PlacesOK, Current
  <2> QED
    BY <1>2, <1>6, <2>0 DEF Acquired
<1> QED
  BY <1>1, <1>2, <1>3, <1>4, <1>5, <1>6
  DEF Next, AcquireFails, Disconnect, Cancel, CancelRelease, ReleaseOwed, LostAcquired, vars

LEMMA NextLeaseInv == TypeInv /\ LeaseInv /\ [Next]_vars => LeaseInv'
BY LentKept, KeptHoldKept DEF LeaseInv

\* No attempt leaves a count behind, whatever ends it, save an acquire whose
\* cancellation wait_for drops.
THEOREM CountsHeld == Spec => []CountsAreHeld
<1>1. LeaseInv => CountsAreHeld
  BY DEF LeaseInv, Lent, CountsAreHeld
<1> QED
  BY <1>1, InitTypeInv, NextTypeInv, InitLeaseInv, NextLeaseInv, PTL DEF Spec

\* A request is relayed to the engine it acquired, which still has the GPU unless a
\* drain gave the request up.
THEOREM RelayedUnderLease == Spec => []RelaysUnderLease
<1>1. TypeInv /\ LeaseInv => RelaysUnderLease
  <2> SUFFICES ASSUME TypeInv, LeaseInv, NEW r \in Requests,
                      at[r] \in {"connect", "relay", "forward"}
               PROVE  /\ engine[r] = Owner[Model(r)] /\ users[Current(r)] = engine[r]
                      /\ Current(r) \notin evicted => holder \in {engine[r], NoEngine}
    BY DEF RelaysUnderLease
  <2>1. PlacesOK /\ Lent(r) /\ KeptHold
    BY TypeParts DEF LeaseInv
  <2>2. acq[r] = "ok" /\ at[r] # "ended"
    BY <2>1 DEF PlacesOK, Stands
  <2>3. engine[r] = Owner[Model(r)] /\ users[Current(r)] = engine[r]
    BY <2>1, <2>2 DEF Lent
  <2>4. Current(r) \in Attempts /\ Model(r) \in Models
    BY <2>1, AttemptOf, PlanLen DEF PlacesOK, Current, Model
  <2>5. users[Current(r)] # NoEngine
    BY <2>3, <2>4, OwnerAssumption
  <2> QED
    BY <2>1, <2>3, <2>4, <2>5 DEF KeptHold
<1> QED
  BY <1>1, InitTypeInv, NextTypeInv, InitLeaseInv, NextLeaseInv, PTL DEF Spec

-----------------------------------------------------------------------------
(* No attempt after the first byte *)

\* Bytes are sent while relaying, or with the answer after the last release; a handler
\* that has sent some does not go on to another attempt.
Committed(r) ==
  Began(r) => \/ at[r] \in {"relay", "ended"}
              \/ at[r] \in {"finally", "releasing"} /\ exit[r] # "continue"

BytesInv == \A r \in Requests : Committed(r)

Silent(f) == \A i \in DOMAIN f : f[i] # "bytes"

LEMMA SilentSend ==
  ASSUME FramesOK, NEW r \in Requests, NEW f \in Seq(Frames), Silent(f), Send(r, f),
         NEW s \in Requests, Began(s)'
  PROVE  Began(s)
<1>1. CASE s # r
  BY <1>1 DEF FramesOK, Send, Began
<1>2. CASE s = r
  <2>1. frames'[r] = Sent(r, f) /\ frames[r] \in Seq(Frames)
    BY DEF FramesOK, Send
  <2>2. PICK i \in DOMAIN Sent(r, f) : Sent(r, f)[i] = "bytes"
    BY <1>2, <2>1 DEF Began
  <2>3. CASE Sent(r, f) = frames[r]
    BY <1>2, <2>2, <2>3 DEF Began
  <2>4. CASE Sent(r, f) = frames[r] \o f
    <3>1. CASE i <= Len(frames[r])
      BY <1>2, <2>1, <2>2, <2>4, <3>1 DEF Began
    <3>2. CASE i > Len(frames[r])
      <4>1. i \in 1 .. (Len(frames[r]) + Len(f))
        BY <2>1, <2>2, <2>4
      <4>2. i - Len(frames[r]) \in DOMAIN f /\ f[i - Len(frames[r])] = "bytes"
        BY <2>1, <2>2, <2>4, <3>2, <4>1
      <4> QED
        BY <4>2 DEF Silent
    <3>3. i \in Nat /\ Len(frames[r]) \in Nat
      BY <2>1, <2>2, <2>4
    <3> QED
      BY <3>1, <3>2, <3>3
  <2> QED
    BY <2>3, <2>4 DEF Sent
<1> QED
  BY <1>1, <1>2

LEMMA SilentFrames ==
  /\ Silent(<<"hold">>) /\ Silent(<<"end">>) /\ Silent(<<"error">>)
  /\ Silent(<<"error", "done">>) /\ Silent(<<"error", "end">>)
  /\ \A r \in Requests : Silent(ErrorFrames(r))
<1>1. Silent(<<"error", "done">>) /\ Silent(<<"error", "end">>) /\ Silent(<<>>)
  BY DEF Silent
<1>2. \A r \in Requests : Silent(ErrorFrames(r))
  BY <1>1, KindsAssumption DEF ErrorFrames, Streamed
<1> QED
  BY <1>1, <1>2 DEF Silent

\* A step that adds no bytes and keeps r out of a new attempt keeps the invariant.
LEMMA CommittedKept ==
  ASSUME BytesInv, PlacesOK, NEW r \in Requests,
         \A s \in Requests : Began(s)' => Began(s),
         \A s \in Requests \ {r} : at'[s] = at[s] /\ exit'[s] = exit[s],
         \/ ~Began(r)
         \/ at'[r] \in {"relay", "ended"}
         \/ at'[r] \in {"finally", "releasing"} /\ exit'[r] # "continue"
  PROVE  BytesInv'
BY DEF BytesInv, Committed

LEMMA LeaveCommitted ==
  ASSUME BytesInv, TypeInv, NEW r \in Requests, NEW why, Leave(r, why),
         why # "continue" \/ ~Began(r),
         \A s \in Requests : Began(s)' => Began(s)
  PROVE  BytesInv'
<1>1. PlacesOK
  BY TypeParts
<1>2. /\ at'[r] = "finally" /\ exit'[r] = why
      /\ \A s \in Requests \ {r} : at'[s] = at[s] /\ exit'[s] = exit[s]
  BY <1>1 DEF PlacesOK, Leave, Goto
<1> QED
  BY <1>1, <1>2, CommittedKept

LEMMA AfterCommitted ==
  ASSUME BytesInv, TypeInv, NEW r \in Requests, at[r] \in {"finally", "releasing"},
         AfterFinally(r, exit[r]), UNCHANGED exit
  PROVE  /\ exit[r] # "continue" => at'[r] = "ended"
         /\ exit[r] = "continue" => ~Began(r)
         /\ \A s \in Requests \ {r} : at'[s] = at[s] /\ exit'[s] = exit[s]
<1>1. PlacesOK
  BY TypeParts
<1>2. CASE exit[r] = "continue"
  BY <1>1, <1>2 DEF PlacesOK, AfterFinally, Goto, BytesInv, Committed
<1>3. CASE exit[r] # "continue"
  BY <1>1, <1>3 DEF PlacesOK, AfterFinally, Goto
<1> QED
  BY <1>2, <1>3

LEMMA NextBytesInv ==
  ASSUME TypeInv, BytesInv, [Next]_vars
  PROVE  BytesInv'
<1>0. PlacesOK /\ FramesOK
  BY TypeParts
<1>1. CASE UNCHANGED <<at, exit, frames>>
  BY <1>1 DEF BytesInv, Committed, Began
<1>2. UNCHANGED frames => \A s \in Requests : Began(s)' => Began(s)
  BY DEF Began
<1>3. ASSUME NEW r \in Requests, NEW f \in Seq(Frames), Silent(f), Send(r, f)
      PROVE  \A s \in Requests : Began(s)' => Began(s)
  BY <1>0, <1>3, SilentSend
<1>4. ASSUME NEW r \in Requests, NEW why, Leave(r, why),
             why # "continue" \/ ~Began(r),
             \/ UNCHANGED frames
             \/ \E f \in Seq(Frames) : Silent(f) /\ Send(r, f)
      PROVE  BytesInv'
  BY <1>2, <1>3, <1>4, LeaveCommitted
<1>5. ASSUME NEW r \in Requests, GiveUpAttempt(r), ~Began(r)
      PROVE  BytesInv'
  BY <1>4, <1>5, FrameSeqs, SilentFrames DEF GiveUpAttempt
\* The handler moves before its first byte, or without a change of its exit.
<1>6. ASSUME NEW r \in Requests, NEW p, Goto(r, p), UNCHANGED exit,
             ~Began(r) \/ p \in {"relay", "ended"},
             \/ UNCHANGED frames
             \/ \E f \in Seq(Frames) : Silent(f) /\ Send(r, f)
      PROVE  BytesInv'
  <2>1. \A s \in Requests : Began(s)' => Began(s)
    BY <1>2, <1>3, <1>6
  <2>2. at'[r] = p /\ \A s \in Requests \ {r} : at'[s] = at[s] /\ exit'[s] = exit[s]
    BY <1>0, <1>6 DEF PlacesOK, Goto
  <2> QED
    BY <1>0, <1>6, <2>1, <2>2, CommittedKept
<1>7. ASSUME NEW r \in Requests,
             at[r] \in {"idle", "waiting", "polling", "connect", "forward"}
      PROVE  ~Began(r)
  BY <1>7 DEF BytesInv, Committed
<1>8. ASSUME NEW r \in Requests, HandlerStep(r)
      PROVE  BytesInv'
  <2>1. CASE Begin(r) \/ KeepaliveDue(r) \/ Bind(r)
    BY <1>6, <1>7, <2>1 DEF Begin, KeepaliveDue, Bind
  <2>2. CASE Poll(r)
    BY <1>4, <1>6, <1>7, <2>2, FrameSeqs, SilentFrames DEF Poll
  <2>3. CASE AcquireError(r)
    BY <1>5, <1>7, <2>3 DEF AcquireError
  <2>4. CASE AcquireCrash(r)
    BY <1>4, <1>7, <2>4, FrameSeqs, SilentFrames DEF AcquireCrash
  <2>5. CASE Finally(r)
    <3>1. CASE acq[r] = "pending"
      BY <1>6, <2>5, <3>1 DEF Finally
    <3>2. CASE acq[r] = "ok"
      <4>1. /\ at[r] = "finally" /\ at' = [at EXCEPT ![r] = "releasing"]
            /\ UNCHANGED <<exit, frames>>
        BY <2>5, <3>2 DEF Finally, Goto
      <4>2. /\ at'[r] = "releasing" /\ exit'[r] = exit[r]
            /\ \A s \in Requests \ {r} : at'[s] = at[s] /\ exit'[s] = exit[s]
        BY <1>0, <4>1 DEF PlacesOK
      <4>3. ~Began(r) \/ exit[r] # "continue"
        BY <4>1 DEF BytesInv, Committed
      <4> QED
        BY <1>0, <1>2, <4>1, <4>2, <4>3, CommittedKept
    <3>3. CASE acq[r] \in {"failed", "crashed"}
      <4>1. /\ at[r] = "finally" /\ AfterFinally(r, exit[r]) /\ UNCHANGED <<exit, frames>>
        BY <2>5, <3>3 DEF Finally
      <4> QED
        BY <1>0, <1>2, <4>1, AfterCommitted, CommittedKept
    <3> QED
      BY <2>5, <3>1, <3>2, <3>3 DEF Finally
  <2>6. CASE Release(r)
    <3>1. at[r] = "releasing" /\ AfterFinally(r, exit[r]) /\ UNCHANGED exit
      BY <2>6 DEF Release
    <3>2. CASE exit[r] \in {"answered", "refused"}
      <4>1. Send(r, <<"bytes", "end">>)
        BY <2>6, <3>2 DEF Release
      <4>2. at'[r] = "ended" /\ \A s \in Requests \ {r} : at'[s] = at[s] /\ exit'[s] = exit[s]
        BY <3>1, <3>2, AfterCommitted
      <4>3. \A s \in Requests \ {r} : Began(s)' => Began(s)
        BY <1>0, <4>1 DEF FramesOK, Send, Began
      <4> QED
        BY <4>2, <4>3 DEF BytesInv, Committed
    <3>3. CASE exit[r] \notin {"answered", "refused"}
      <4>1. UNCHANGED frames
        BY <2>6, <3>3 DEF Release
      <4> QED
        BY <1>0, <1>2, <3>1, <4>1, AfterCommitted, CommittedKept
    <3> QED
      BY <3>2, <3>3
  <2> QED
    BY <1>8, <2>1, <2>2, <2>3, <2>4, <2>5, <2>6 DEF HandlerStep
<1>9. ASSUME NEW r \in Requests, Upstream(r)
      PROVE  BytesInv'
  <2>1. CASE Connected(r)
    BY <1>6, <2>1 DEF Connected
  <2>2. CASE ConnectFails(r)
    BY <1>5, <1>7, <2>2 DEF ConnectFails
  <2>3. CASE UpstreamRefuses(r) \/ StreamBreaks(r) \/ ForwardBreaks(r) \/ StreamEnds(r)
    BY <1>4, <2>3, FrameSeqs, SilentFrames
    DEF UpstreamRefuses, StreamBreaks, ForwardBreaks, StreamEnds
  <2>4. CASE Chunk(r)
    <3>1. CASE r \in gone
      BY <1>4, <2>4, <3>1 DEF Chunk
    <3>2. CASE r \notin gone
      <4>1. at[r] = "relay" /\ UNCHANGED <<at, exit>> /\ Send(r, <<"bytes">>)
        BY <2>4, <3>2 DEF Chunk
      <4>2. \A s \in Requests \ {r} : Began(s)' => Began(s)
        BY <1>0, <4>1 DEF FramesOK, Send, Began
      <4> QED
        BY <4>1, <4>2 DEF BytesInv, Committed
    <3> QED
      BY <3>1, <3>2
  <2>5. CASE Answered(r)
    BY <1>4, <2>5 DEF Answered
  <2> QED
    BY <1>9, <2>1, <2>2, <2>3, <2>4, <2>5 DEF Upstream
<1>10. ASSUME NEW r \in Requests, Cancel(r) \/ CancelRelease(r)
       PROVE  BytesInv'
  BY <1>4, <1>6, <1>10 DEF Cancel, CancelRelease
<1> QED
  BY <1>1, <1>8, <1>9, <1>10
  DEF Next, Acquired, AcquireFails, Disconnect, ReleaseOwed, LostAcquired, Swap, vars, handlerVars

\* Once the client has been sent bytes, the request is bound to the attempt they
\* came from.
THEOREM NoneAfterBytes == Spec => NoRetryAfterBytes
<1>1. Init => BytesInv
  BY DEF Init, BytesInv, Committed, Began
<1>2. TypeInv /\ BytesInv /\ [Next]_vars =>
        [\A r \in Requests : Began(r) => attempt'[r] = attempt[r]]_vars
  <2> SUFFICES ASSUME TypeInv, BytesInv, Next, NEW r \in Requests, Began(r)
               PROVE  attempt'[r] = attempt[r]
    OBVIOUS
  <2>0. PlacesOK
    BY TypeParts
  <2>1. ASSUME NEW s \in Requests, at[s] \in {"finally", "releasing"},
               AfterFinally(s, exit[s])
        PROVE  attempt'[r] = attempt[r]
    <3>1. CASE exit[s] = "continue"
      <4>1. s # r
        BY <2>1, <3>1 DEF BytesInv, Committed
      <4> QED
        BY <2>0, <2>1, <3>1, <4>1 DEF AfterFinally, PlacesOK
    <3>2. CASE exit[s] # "continue"
      BY <2>1, <3>2 DEF AfterFinally
    <3> QED
      BY <3>1, <3>2
  <2>2. ASSUME NEW s \in Requests, HandlerStep(s)
        PROVE  attempt'[r] = attempt[r]
    BY <2>1, <2>2 DEF HandlerStep, Begin, KeepaliveDue, Poll, Bind, AcquireError, AcquireCrash,
                      Finally, Release
  <2>3. ASSUME NEW s \in Requests, Upstream(s)
        PROVE  attempt'[r] = attempt[r]
    BY <2>3 DEF Upstream, Connected, ConnectFails, UpstreamRefuses, Chunk, StreamEnds,
                StreamBreaks, Answered, ForwardBreaks
  <2> QED
    BY <2>2, <2>3 DEF Next, Acquired, AcquireFails, Disconnect, Cancel, CancelRelease,
                      ReleaseOwed, LostAcquired, Swap, handlerVars
<1>3. TypeInv /\ BytesInv /\ [Next]_vars => BytesInv'
  BY NextBytesInv
<1> QED
  BY <1>1, <1>2, <1>3, InitTypeInv, NextTypeInv, PTL DEF Spec, NoRetryAfterBytes

-----------------------------------------------------------------------------
(* What the client is told *)

\* An answer still open; one that has not been ended; one that nothing follows.
Quiet(f)    == \A n \in DOMAIN f : f[n] \notin {"error", "done", "end"}
Unended(f)  == \A n \in DOMAIN f : f[n] \notin {"done", "end"}
EndsLast(f) == \A n \in DOMAIN f : f[n] \in {"done", "end"} => n = Len(f)

\* The response is over, or its client gets no end.
Closed(r) ==
  IF r \in whole THEN RelayedWhole(frames[r]) /\ EndsLast(frames[r])
  ELSE \/ FailureTold(frames[r]) /\ EndsLast(frames[r])
       \/ Unended(frames[r]) /\ (r \in gone \cup Ndjson \/ acq[r] = "crashed")

\* Where a response stands at each place of its handler: open while an attempt goes on
\* or another is to come, over once the handler leaves for good.
Told(r) ==
  /\ at[r] \in {"connect", "relay"} => r \in Streamed
  /\ at[r] = "forward" => r \in Plain
  /\ at[r] \in Suspended \cup {"idle"} => Quiet(frames[r]) /\ r \notin whole
  /\ at[r] \in {"finally", "releasing"} =>
       \/ /\ exit[r] = "continue" /\ acq[r] \in {"ok", "failed"}
          /\ Quiet(frames[r]) /\ r \notin whole
       \/ /\ exit[r] \in {"answered", "refused"} /\ acq[r] = "ok"
          /\ Quiet(frames[r]) /\ r \in whole \cap Plain
       \/ exit[r] = "return" /\ Closed(r)
  /\ at[r] = "ended" => Closed(r)

ToldInv == \A r \in Requests : Told(r)

\* What each kind of frames does to an open response.
LEMMA OpenThen ==
  ASSUME NEW f \in Seq(Frames), Quiet(f)
  PROVE  /\ Quiet(f \o <<"hold">>) /\ Quiet(f \o <<"bytes">>)
         /\ RelayedWhole(f \o <<"end">>) /\ EndsLast(f \o <<"end">>)
         /\ RelayedWhole(f \o <<"bytes", "end">>) /\ EndsLast(f \o <<"bytes", "end">>)
         /\ FailureTold(f \o <<"error", "done">>) /\ EndsLast(f \o <<"error", "done">>)
         /\ FailureTold(f \o <<"error", "end">>) /\ EndsLast(f \o <<"error", "end">>)
         /\ Unended(f \o <<"error">>) /\ Unended(f)
<1>1. ASSUME NEW k \in Frames, NEW n \in DOMAIN (f \o <<k>>)
      PROVE  /\ Len(f \o <<k>>) = Len(f) + 1 /\ f \o <<k>> # <<>>
             /\ (f \o <<k>>)[Len(f) + 1] = k
             /\ \/ n \in DOMAIN f /\ (f \o <<k>>)[n] = f[n]
                \/ n = Len(f) + 1
  BY <1>1
<1>2. ASSUME NEW k \in Frames, NEW l \in Frames, NEW n \in DOMAIN (f \o <<k, l>>)
      PROVE  /\ Len(f \o <<k, l>>) = Len(f) + 2 /\ f \o <<k, l>> # <<>>
             /\ (f \o <<k, l>>)[Len(f) + 1] = k /\ (f \o <<k, l>>)[Len(f) + 2] = l
             /\ \/ n \in DOMAIN f /\ (f \o <<k, l>>)[n] = f[n]
                \/ n = Len(f) + 1 \/ n = Len(f) + 2
  BY <1>2
<1>3. \A k \in Frames : Len(f) + 1 \in DOMAIN (f \o <<k>>)
  OBVIOUS
<1>4. \A k, l \in Frames : Len(f) + 2 \in DOMAIN (f \o <<k, l>>)
  OBVIOUS
<1>5. Len(f) \in Nat /\ {"hold", "bytes", "error", "done", "end"} = Frames
  BY DEF Frames
<1>6. Quiet(f \o <<"hold">>) /\ Quiet(f \o <<"bytes">>)
  BY <1>1, <1>5 DEF Quiet
<1>7. RelayedWhole(f \o <<"end">>) /\ EndsLast(f \o <<"end">>)
  <2>1. \A n \in DOMAIN (f \o <<"end">>) : (f \o <<"end">>)[n] # "error"
    BY <1>1, <1>5 DEF Quiet
  <2>2. Len(f) + 1 = Len(f \o <<"end">>) /\ f \o <<"end">> # <<>>
        /\ (f \o <<"end">>)[Len(f) + 1] = "end"
    BY <1>1, <1>3, <1>5
  <2>3. EndsLast(f \o <<"end">>)
    BY <1>1, <1>5 DEF Quiet, EndsLast
  <2> QED
    BY <2>1, <2>2, <2>3 DEF RelayedWhole
<1>8. RelayedWhole(f \o <<"bytes", "end">>) /\ EndsLast(f \o <<"bytes", "end">>)
  <2>1. \A n \in DOMAIN (f \o <<"bytes", "end">>) : (f \o <<"bytes", "end">>)[n] # "error"
    BY <1>2, <1>5 DEF Quiet
  <2>2. Len(f) + 2 = Len(f \o <<"bytes", "end">>) /\ f \o <<"bytes", "end">> # <<>>
        /\ (f \o <<"bytes", "end">>)[Len(f) + 2] = "end"
    BY <1>2, <1>4, <1>5
  <2>3. EndsLast(f \o <<"bytes", "end">>)
    BY <1>2, <1>5 DEF Quiet, EndsLast
  <2> QED
    BY <2>1, <2>2, <2>3 DEF RelayedWhole
<1>9. ASSUME NEW l \in {"done", "end"}
      PROVE  FailureTold(f \o <<"error", l>>) /\ EndsLast(f \o <<"error", l>>)
  <2>1. /\ Len(f \o <<"error", l>>) = Len(f) + 2
        /\ (f \o <<"error", l>>)[Len(f) + 1] = "error"
        /\ (f \o <<"error", l>>)[Len(f) + 2] = l
    BY <1>2, <1>4, <1>5
  <2>2. FailureTold(f \o <<"error", l>>)
    BY <1>5, <2>1 DEF FailureTold
  <2>3. EndsLast(f \o <<"error", l>>)
    BY <1>2, <1>5 DEF Quiet, EndsLast
  <2> QED
    BY <2>2, <2>3
<1>10. Unended(f \o <<"error">>) /\ Unended(f)
  BY <1>1, <1>5 DEF Quiet, Unended
<1> QED
  BY <1>6, <1>7, <1>8, <1>9, <1>10

LEMMA SendCases ==
  ASSUME FramesOK, NEW r \in Requests, NEW f \in Seq(Frames), Send(r, f)
  PROVE  /\ frames[r] \in Seq(Frames)
         /\ \/ frames'[r] = frames[r] \o f
            \/ f \in {<<"hold">>, <<"bytes">>} /\ frames'[r] = frames[r]
BY DEF FramesOK, Send, Sent

\* Keep-alives and bytes leave a response open, the other frames end it.
LEMMA SendOpen ==
  ASSUME FramesOK, NEW r \in Requests, NEW k \in {"hold", "bytes"}, Send(r, <<k>>),
         Quiet(frames[r])
  PROVE  Quiet(frames'[r])
BY SendCases, OpenThen, FrameSeqs

LEMMA SendCloses ==
  ASSUME FramesOK, NEW r \in Requests, Quiet(frames[r])
  PROVE  /\ Send(r, <<"end">>) \/ Send(r, <<"bytes", "end">>) =>
              RelayedWhole(frames'[r]) /\ EndsLast(frames'[r])
         /\ Send(r, <<"error", "done">>) \/ Send(r, <<"error", "end">>) =>
              FailureTold(frames'[r]) /\ EndsLast(frames'[r])
         /\ Send(r, <<"error">>) => Unended(frames'[r])
         /\ Send(r, ErrorFrames(r)) =>
              \/ FailureTold(frames'[r]) /\ EndsLast(frames'[r])
              \/ r \in Ndjson /\ Unended(frames'[r])
<1>0. frames[r] \in Seq(Frames)
  BY DEF FramesOK
<1>1. \A f \in Seq(Frames) :
        Send(r, f) /\ f \notin {<<"hold">>, <<"bytes">>} => frames'[r] = frames[r] \o f
  BY SendCases
<1>2. ~(<<"end">> \in {<<"hold">>, <<"bytes">>}) /\ ~(<<"error">> \in {<<"hold">>, <<"bytes">>})
  <2>1. <<"end">>[1] = "end" /\ <<"error">>[1] = "error"
        /\ <<"hold">>[1] = "hold" /\ <<"bytes">>[1] = "bytes"
    OBVIOUS
  <2> QED
    BY <2>1
<1>3. \A k, l \in Frames : <<k, l>> \notin {<<"hold">>, <<"bytes">>}
  <2>1. \A k, l \in Frames : Len(<<k, l>>) = 2
    OBVIOUS
  <2>2. Len(<<"hold">>) = 1 /\ Len(<<"bytes">>) = 1
    OBVIOUS
  <2> QED
    BY <2>1, <2>2
<1>4. Send(r, <<"end">>) => frames'[r] = frames[r] \o <<"end">>
  BY <1>1, <1>2, FrameSeqs
<1>5. Send(r, <<"error">>) => frames'[r] = frames[r] \o <<"error">>
  BY <1>1, <1>2, FrameSeqs
<1>6. /\ Send(r, <<"bytes", "end">>) => frames'[r] = frames[r] \o <<"bytes", "end">>
      /\ Send(r, <<"error", "done">>) => frames'[r] = frames[r] \o <<"error", "done">>
      /\ Send(r, <<"error", "end">>) => frames'[r] = frames[r] \o <<"error", "end">>
  BY <1>1, <1>3, FrameSeqs DEF Frames
<1>7. ASSUME Send(r, ErrorFrames(r))
      PROVE  \/ FailureTold(frames'[r]) /\ EndsLast(frames'[r])
             \/ r \in Ndjson /\ Unended(frames'[r])
  <2>1. CASE r \in Sse
    <3>1. ErrorFrames(r) = <<"error", "done">>
      BY <2>1, KindsAssumption DEF ErrorFrames, Streamed
    <3> QED
      BY <1>0, <1>6, <1>7, <3>1, OpenThen
  <2>2. CASE r \in Ndjson
    <3>1. ErrorFrames(r) = <<>>
      BY <2>2, KindsAssumption DEF ErrorFrames, Streamed
    <3>2. frames[r] \o <<>> = frames[r]
      BY <1>0
    <3>3. frames'[r] = frames[r]
      BY <1>7, <3>1, <3>2, SendCases, FrameSeqs
    <3> QED
      BY <1>0, <2>2, <3>3, OpenThen
  <2>3. CASE r \in Plain
    <3>1. ErrorFrames(r) = <<"error", "end">>
      BY <2>3, KindsAssumption DEF ErrorFrames, Streamed
    <3> QED
      BY <1>0, <1>6, <1>7, <3>1, OpenThen
  <2> QED
    BY <2>1, <2>2, <2>3, KindsAssumption DEF Streamed
<1> QED
  BY <1>0, <1>4, <1>5, <1>6, <1>7, OpenThen

\* A step of one handler leaves what the others told their clients.
LEMMA OthersTold ==
  ASSUME TypeInv, NEW r \in Requests,
         \/ HandlerStep(r) \/ Upstream(r) \/ Acquired(r) \/ AcquireFails(r)
         \/ Disconnect(r) \/ Cancel(r) \/ CancelRelease(r)
  PROVE  \A s \in Requests \ {r} :
           /\ at'[s] = at[s] /\ acq'[s] = acq[s] /\ exit'[s] = exit[s]
           /\ frames'[s] = frames[s] /\ (s \in gone => s \in gone')
           /\ s \in whole' <=> s \in whole
<1>0. PlacesOK /\ FramesOK
  BY TypeParts
<1>1. ASSUME NEW f, Send(r, f)
      PROVE  \A s \in Requests \ {r} : frames'[s] = frames[s]
  BY <1>0, <1>1 DEF FramesOK, Send
<1>2. \A s \in Requests \ {r} : frames'[s] = frames[s]
  BY <1>1 DEF HandlerStep, Begin, KeepaliveDue, Poll, Bind, AcquireError, AcquireCrash, Finally,
     Release, Upstream, Connected, ConnectFails, UpstreamRefuses, Chunk, StreamEnds,
     StreamBreaks, Answered, ForwardBreaks, Acquired, AcquireFails, Disconnect, Cancel,
     CancelRelease, GiveUpAttempt
<1>3. \A s \in Requests \ {r} : at'[s] = at[s] /\ exit'[s] = exit[s]
  BY <1>0 DEF PlacesOK, HandlerStep, Begin, KeepaliveDue, Poll, Bind, AcquireError,
     AcquireCrash, Finally, Release, Upstream, Connected, ConnectFails, UpstreamRefuses,
     Chunk, StreamEnds, StreamBreaks, Answered, ForwardBreaks, Acquired, AcquireFails,
     Disconnect, Cancel, CancelRelease, GiveUpAttempt, Leave, Goto, AfterFinally
<1>4. \A s \in Requests \ {r} : acq'[s] = acq[s]
  BY <1>0 DEF PlacesOK, HandlerStep, Begin, KeepaliveDue, Poll, Bind, AcquireError,
     AcquireCrash, Finally, CancelAcquire, Release, Upstream, Connected, ConnectFails,
     UpstreamRefuses, Chunk, StreamEnds, StreamBreaks, Answered, ForwardBreaks, Acquired,
     AcquireFails, Disconnect, Cancel, CancelRelease, AfterFinally
<1>5. gone \subseteq gone' /\ (whole' = whole \/ whole' = whole \cup {r})
  BY DEF HandlerStep, Begin, KeepaliveDue, Poll, Bind, AcquireError, AcquireCrash, Finally,
     Release, Upstream, Connected, ConnectFails, UpstreamRefuses, Chunk, StreamEnds,
     StreamBreaks, Answered, ForwardBreaks, Acquired, AcquireFails, Disconnect, Cancel,
     CancelRelease
<1> QED
  BY <1>2, <1>3, <1>4, <1>5

LEMMA Kinds ==
  /\ \A r \in Requests : r \in Plain <=> r \notin Streamed
  /\ \A r \in Streamed : r \in Ndjson \/ r \in Sse
BY KindsAssumption DEF Streamed

LEMMA ToldStep ==
  ASSUME TypeInv, NEW r \in Requests, Told(r),
         \/ HandlerStep(r) \/ Upstream(r) \/ Acquired(r) \/ AcquireFails(r)
         \/ Disconnect(r) \/ Cancel(r) \/ CancelRelease(r)
  PROVE  Told(r)'
<1>0. PlacesOK /\ FramesOK /\ Stands(r)
  BY TypeParts DEF TypeInv
\* The handler enters its finally clause.
<1>1. ASSUME NEW why, Leave(r, why)
      PROVE  at'[r] = "finally" /\ exit'[r] = why
  BY <1>0, <1>1 DEF PlacesOK, Leave, Goto
<1>2. ASSUME at[r] \in Suspended \cup {"idle"}
      PROVE  Quiet(frames[r]) /\ Unended(frames[r]) /\ r \notin whole
  BY <1>0, <1>2, OpenThen DEF Told, FramesOK
<1>3. ASSUME Leave(r, "return"), Closed(r)'
      PROVE  Told(r)'
  BY <1>1, <1>3 DEF Told, Suspended
<1>4. ASSUME at[r] \in Suspended, GiveUpAttempt(r), UNCHANGED <<acq, gone, whole>>,
             acq[r] \in {"ok", "failed"}
      PROVE  Told(r)'
  <2>1. CASE Leave(r, "continue") /\ UNCHANGED frames
    BY <1>1, <1>2, <1>4, <2>1 DEF Told, Suspended
  <2>2. CASE Leave(r, "return") /\ Send(r, ErrorFrames(r))
    BY <1>0, <1>2, <1>3, <1>4, <2>2, SendCloses DEF Closed
  <2> QED
    BY <1>4, <2>1, <2>2 DEF GiveUpAttempt
\* The place of the handler changes, before anything that ends the response.
<1>5. ASSUME at[r] \in Suspended \cup {"idle"}, at'[r] \in Suspended,
             Quiet(frames'[r]), whole' = whole,
             at'[r] \in {"connect", "relay"} => r \in Streamed,
             at'[r] = "forward" => r \in Plain
      PROVE  Told(r)'
  BY <1>2, <1>5 DEF Told, Suspended
<1>6. CASE Begin(r) \/ KeepaliveDue(r)
  BY <1>0, <1>2, <1>5, <1>6 DEF Begin, KeepaliveDue, Goto, PlacesOK, Suspended
<1>7. CASE Poll(r)
  <2>1. CASE r \in gone
    BY <1>2, <1>3, <1>7, <2>1 DEF Poll, Closed, Suspended
  <2>2. CASE r \notin gone
    <3>1. at'[r] = "waiting" /\ Send(r, <<"hold">>) /\ whole' = whole /\ at[r] = "polling"
      BY <1>0, <1>7, <2>2 DEF Poll, Goto, PlacesOK
    <3> QED
      BY <1>0, <1>2, <1>5, <3>1, SendOpen DEF Suspended
  <2> QED
    BY <2>1, <2>2
<1>8. CASE Bind(r)
  <2>1. /\ at[r] = "waiting" /\ UNCHANGED <<whole, frames>>
        /\ at'[r] = IF r \in Plain THEN "forward" ELSE "connect"
    BY <1>0, <1>8 DEF Bind, Goto, PlacesOK
  <2> QED
    BY <1>2, <1>5, <2>1, Kinds DEF Suspended
<1>9. CASE AcquireError(r)
  BY <1>4, <1>9 DEF AcquireError, Suspended
<1>10. CASE AcquireCrash(r)
  <2>1. /\ at[r] \in Suspended /\ acq'[r] = "crashed" /\ UNCHANGED <<gone, whole>>
        /\ Leave(r, "return")
        /\ Send(r, <<"error", "end">>) \/ UNCHANGED frames
    BY <1>10 DEF AcquireCrash, Suspended
  <2> QED
    BY <1>0, <1>2, <1>3, <2>1, SendCloses DEF Closed
<1>11. CASE Finally(r)
  <2>0. at[r] = "finally" /\ UNCHANGED <<exit, frames, gone, whole>>
    BY <1>11 DEF Finally
  <2>1. CASE acq[r] = "pending"
    <3>1. at'[r] = "ended"
      BY <1>0, <1>11, <2>1 DEF Finally, Goto, PlacesOK
    <3>2. Closed(r)'
      BY <2>0, <2>1 DEF Told, Closed
    <3> QED
      BY <3>1, <3>2 DEF Told, Suspended
  <2>2. CASE acq[r] = "ok"
    <3>1. at'[r] = "releasing" /\ acq' = acq
      BY <1>0, <1>11, <2>2 DEF Finally, Goto, PlacesOK
    <3>2. Closed(r)' <=> Closed(r)
      BY <2>0, <3>1 DEF Closed
    <3> QED
      BY <2>0, <3>1, <3>2 DEF Told, Suspended
  <2>3. CASE acq[r] \in {"failed", "crashed"}
    <3>1. AfterFinally(r, exit[r])
      BY <1>11, <2>3 DEF Finally
    <3>2. CASE exit[r] = "continue"
      BY <1>0, <2>0, <3>1, <3>2 DEF AfterFinally, Goto, PlacesOK, Told, Suspended
    <3>3. CASE exit[r] # "continue"
      <4>1. at'[r] = "ended" /\ acq' = acq
        BY <1>0, <3>1, <3>3 DEF AfterFinally, Goto, PlacesOK
      <4>2. Closed(r)'
        BY <2>0, <2>3, <3>3, <4>1 DEF Told, Closed
      <4> QED
        BY <4>1, <4>2 DEF Told, Suspended
    <3> QED
      BY <3>2, <3>3
  <2> QED
    BY <1>11, <2>1, <2>2, <2>3 DEF Finally
<1>12. CASE Release(r)
  <2>0. /\ at[r] = "releasing" /\ acq[r] = "ok" /\ AfterFinally(r, exit[r])
        /\ UNCHANGED <<exit, gone, whole>>
    BY <1>0, <1>12 DEF Release, Stands
  <2>1. CASE exit[r] \in {"answered", "refused"}
    <3>1. Send(r, <<"bytes", "end">>) /\ at'[r] = "ended"
      BY <1>0, <1>12, <2>0, <2>1 DEF Release, AfterFinally, Goto, PlacesOK
    <3>2. Quiet(frames[r]) /\ r \in whole
      BY <2>0, <2>1 DEF Told
    <3>3. Closed(r)'
      BY <1>0, <2>0, <3>1, <3>2, SendCloses DEF Closed
    <3> QED
      BY <3>1, <3>3 DEF Told, Suspended
  <2>2. CASE exit[r] \notin {"answered", "refused"}
    <3>1. UNCHANGED frames
      BY <1>12, <2>2 DEF Release
    <3>2. CASE exit[r] = "continue"
      BY <1>0, <2>0, <3>1, <3>2 DEF AfterFinally, Goto, PlacesOK, Told, Suspended
    <3>3. CASE exit[r] # "continue"
      <4>1. at'[r] = "ended" /\ acq' = acq
        BY <1>0, <2>0, <3>3 DEF AfterFinally, Goto, PlacesOK
      <4>2. Closed(r)'
        BY <2>0, <2>2, <3>1, <3>3, <4>1 DEF Told, Closed
      <4> QED
        BY <4>1, <4>2 DEF Told, Suspended
    <3> QED
      BY <3>2, <3>3
  <2> QED
    BY <2>1, <2>2
<1>13. CASE Connected(r)
  <2>1. at[r] = "connect" /\ at'[r] = "relay" /\ UNCHANGED <<frames, whole>> /\ r \in Streamed
    BY <1>0, <1>13 DEF Connected, Goto, PlacesOK, Told
  <2> QED
    BY <1>2, <1>5, <2>1 DEF Suspended
<1>14. CASE ConnectFails(r)
  BY <1>0, <1>4, <1>14 DEF ConnectFails, Suspended, Stands
<1>15. CASE UpstreamRefuses(r)
  <2>1. /\ at[r] \in Suspended /\ Leave(r, "return") /\ UNCHANGED <<gone, whole>>
        /\ IF r \in Sse THEN Send(r, <<"error", "done">>)
           ELSE Send(r, <<"error">>) /\ r \in Ndjson
    BY <1>15, Kinds DEF UpstreamRefuses, Told, Suspended
  <2> QED
    BY <1>0, <1>2, <1>3, <2>1, SendCloses DEF Closed
<1>16. CASE Chunk(r)
  <2>1. CASE r \in gone
    BY <1>2, <1>3, <1>16, <2>1 DEF Chunk, Closed, Suspended
  <2>2. CASE r \notin gone
    <3>1. /\ at[r] = "relay" /\ Send(r, <<"bytes">>) /\ UNCHANGED <<at, whole>>
          /\ r \in Streamed
      BY <1>16, <2>2 DEF Chunk, Told
    <3> QED
      BY <1>0, <1>2, <1>5, <3>1, SendOpen DEF Suspended
  <2> QED
    BY <2>1, <2>2
<1>17. CASE StreamEnds(r)
  <2>1. /\ at[r] \in Suspended /\ Leave(r, "return") /\ Send(r, <<"end">>) /\ r \in whole'
    BY <1>17 DEF StreamEnds, Suspended
  <2> QED
    BY <1>0, <1>2, <1>3, <2>1, SendCloses DEF Closed
<1>18. CASE StreamBreaks(r) \/ ForwardBreaks(r)
  <2>1. /\ at[r] \in Suspended /\ Leave(r, "return") /\ Send(r, ErrorFrames(r))
        /\ UNCHANGED <<gone, whole>>
    BY <1>18 DEF StreamBreaks, ForwardBreaks, Suspended
  <2> QED
    BY <1>0, <1>2, <1>3, <2>1, SendCloses DEF Closed
<1>19. CASE Answered(r)
  <2>1. /\ at[r] = "forward" /\ acq'[r] = "ok" /\ UNCHANGED frames /\ r \in whole' \cap Plain
        /\ at'[r] = "finally" /\ exit'[r] \in {"answered", "refused"}
    BY <1>0, <1>1, <1>19 DEF Answered, Stands, Told
  <2> QED
    BY <1>2, <2>1 DEF Told, Suspended
<1>20. CASE Acquired(r) \/ AcquireFails(r)
  <2>1. /\ UNCHANGED <<at, exit, frames, gone, whole>> /\ acq[r] = "pending"
        /\ at[r] \in {"waiting", "polling", "finally"}
    BY <1>0, <1>20 DEF Acquired, AcquireFails, Stands
  <2> QED
    BY <2>1 DEF Told, Closed, Suspended
<1>21. CASE Disconnect(r)
  BY <1>21 DEF Disconnect, Told, Closed
<1>22. CASE Cancel(r)
  BY <1>2, <1>3, <1>22 DEF Cancel, Closed
<1>23. CASE CancelRelease(r)
  <2>1. /\ at[r] = "releasing" /\ at'[r] = "ended" /\ r \in gone \cap Streamed
        /\ UNCHANGED <<acq, frames, gone, whole>>
    BY <1>0, <1>23 DEF CancelRelease, Goto, PlacesOK
  <2>2. \/ exit[r] = "continue" /\ Quiet(frames[r]) /\ r \notin whole
        \/ exit[r] = "return" /\ Closed(r)
    BY <2>1, Kinds DEF Told
  <2>3. Closed(r)'
    BY <1>0, <2>1, <2>2, OpenThen DEF Closed, FramesOK
  <2> QED
    BY <2>1, <2>3 DEF Told, Suspended
<1> QED
  BY <1>6, <1>7, <1>8, <1>9, <1>10, <1>11, <1>12, <1>13, <1>14, <1>15, <1>16, <1>17, <1>18,
     <1>19, <1>20, <1>21, <1>22, <1>23 DEF HandlerStep, Upstream

LEMMA NextToldInv ==
  ASSUME TypeInv, ToldInv, [Next]_vars
  PROVE  ToldInv'
<1>1. ASSUME UNCHANGED <<at, acq, exit, frames, gone, whole>>
      PROVE  ToldInv'
  BY <1>1 DEF ToldInv, Told, Closed
<1>2. ASSUME NEW r \in Requests,
             \/ HandlerStep(r) \/ Upstream(r) \/ Acquired(r) \/ AcquireFails(r)
             \/ Disconnect(r) \/ Cancel(r) \/ CancelRelease(r)
      PROVE  ToldInv'
  <2>1. Told(r)'
    BY <1>2, ToldStep DEF ToldInv
  <2>2. ASSUME NEW s \in Requests \ {r}
        PROVE  Told(s)'
    <3>1. /\ at'[s] = at[s] /\ acq'[s] = acq[s] /\ exit'[s] = exit[s]
          /\ frames'[s] = frames[s] /\ (s \in gone => s \in gone')
          /\ s \in whole' <=> s \in whole
      BY <1>2, <2>2, OthersTold
    <3> QED
      BY <2>2, <3>1 DEF ToldInv, Told, Closed
  <2> QED
    BY <2>1, <2>2 DEF ToldInv
<1> QED
  BY <1>1, <1>2 DEF Next, ReleaseOwed, LostAcquired, Swap, vars, handlerVars

\* Nothing follows the end of a response, and a client that has stayed gets a whole
\* answer without an error, or an error and then the end, whatever happens to the
\* attempts.
THEOREM Terminated == Spec => []WellTerminated
<1>1. Init => ToldInv
  BY DEF Init, ToldInv, Told, Quiet, Suspended
<1>2. TypeInv /\ ToldInv => WellTerminated
  <2> SUFFICES ASSUME TypeInv, ToldInv, NEW r \in Requests
               PROVE  /\ EndsLast(frames[r])
                      /\ at[r] = "ended" /\ r \notin gone /\ acq[r] # "crashed" =>
                           IF r \in whole THEN RelayedWhole(frames[r])
                           ELSE r \in Ndjson \/ FailureTold(frames[r])
    BY DEF WellTerminated, EndsLast
  <2>1. PlacesOK /\ frames[r] \in Seq(Frames) /\ Told(r)
    BY TypeParts DEF FramesOK, ToldInv
  <2>2. Quiet(frames[r]) \/ Closed(r)
    BY <2>1 DEF Told, PlacesOK
  <2>3. EndsLast(frames[r])
    BY <2>2 DEF Quiet, Unended, EndsLast, Closed
  <2>4. at[r] = "ended" => Closed(r)
    BY <2>1 DEF Told
  <2> QED
    BY <2>3, <2>4 DEF Closed
<1>3. TypeInv /\ ToldInv /\ [Next]_vars => ToldInv'
  BY NextToldInv
<1> QED
  BY <1>1, <1>2, <1>3, InitTypeInv, NextTypeInv, PTL DEF Spec
=============================================================================
