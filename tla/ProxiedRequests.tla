--------------------------- MODULE ProxiedRequests ---------------------------
(***************************************************************************)
(* The request handlers of router/app.py: _handle_v1_post and              *)
(* _handle_api_post_with_model.  A handler goes through an ordered plan of *)
(* attempts; each attempt acquires the engine of its model, relays the     *)
(* request to it, and releases it.  Streaming handlers run the acquire in  *)
(* a task of its own and poll for a client that went away; they may be     *)
(* cancelled wherever they are suspended.                                  *)
(*                                                                         *)
(* The engine manager is represented by the lease it implements            *)
(* (EngineManager!LeaseSpec), whose users are the attempts.                *)
(***************************************************************************)
EXTENDS Naturals, Sequences, FiniteSets

CONSTANTS
  Requests,
  Sse, Ndjson, Plain,   \* /v1 streams, /api streams, non-streaming requests
  Smart,                \* requests with a SmartDecision
  Plan,                 \* the models each request tries in turn: _attempt_plan()
  Engines, Owner,       \* the engine of each model
  NoEngine,
  WaitForLosesCancel    \* TRUE: the asyncio.wait_for of Python 3.10 and 3.11, which may
                        \* drop the cancellation of an acquire

Models == DOMAIN Owner
Streamed == Sse \cup Ndjson
Attempts == UNION {{r} \X DOMAIN Plan[r] : r \in Requests}

ASSUME KindsAssumption ==
  /\ Requests = Streamed \cup Plain
  /\ Sse \cap Ndjson = {} /\ Streamed \cap Plain = {}
  /\ Smart \subseteq Requests
ASSUME PlanAssumption ==
  /\ Plan \in [Requests -> Seq(Models)]
  /\ \A r \in Requests : Plan[r] # <<>>
  /\ \A r \in Requests \ Smart : Len(Plan[r]) = 1
ASSUME OwnerAssumption == Owner \in [Models -> Engines] /\ NoEngine \notin Engines
ASSUME CancelAssumption == WaitForLosesCancel \in BOOLEAN

VARIABLES
  at,       \* where each handler stands
  attempt,  \* attempt_idx, from 1
  acq,      \* the acquire of the current attempt
  engine,   \* the handler's local: the engine bound to the current attempt
  exit,     \* what the finally clause was entered with
  frames,   \* what the client was sent, in order and without repetitions
  verdict,  \* record_success / record_failure of each attempt
  gone,     \* requests whose client has disconnected
  owed,     \* attempts whose shielded release outlives the cancelled handler
  lost,     \* attempts whose acquire was cancelled in vain and goes on by itself
  whole,    \* history: requests an upstream has answered to the end
  holder, users, evicted  \* the lease

handlerVars == <<at, attempt, acq, engine, exit, frames, verdict, gone, owed, lost,
                 whole>>
leaseVars   == <<holder, users, evicted>>
vars        == <<handlerVars, leaseVars>>

Lease == INSTANCE GpuLease WITH Tasks <- Attempts

-----------------------------------------------------------------------------

Suspended == {"waiting", "polling", "connect", "relay", "forward"}
Exits     == {"none", "continue", "return", "answered", "refused"}

\* "hold": a keep-alive; "bytes": upstream bytes; "error": a framed error; "done":
\* the [DONE] marker; "end": the response is complete.
Frames == {"hold", "bytes", "error", "done", "end"}

Current(r) == <<r, attempt[r]>>
Model(r)   == Plan[r][attempt[r]]
LastAttempt(r) == attempt[r] = Len(Plan[r])
Began(r)   == "bytes" \in {frames[r][i] : i \in DOMAIN frames[r]}

TypeOK ==
  /\ at \in [Requests -> Suspended \cup {"idle", "finally", "releasing", "ended"}]
  /\ attempt \in [Requests -> Nat]
  /\ \A r \in Requests : attempt[r] \in DOMAIN Plan[r]
  /\ acq \in [Requests -> {"none", "pending", "ok", "failed", "crashed", "cancelled"}]
  /\ engine \in [Requests -> Engines \cup {NoEngine}]
  /\ exit \in [Requests -> Exits]
  /\ frames \in [Requests -> Seq(Frames)]
  /\ verdict \in [Attempts -> {"none", "success", "failure"}]
  /\ gone \subseteq Requests
  /\ owed \subseteq Attempts
  /\ lost \subseteq Attempts
  /\ whole \subseteq Requests
  /\ holder \in Engines \cup {NoEngine}
  /\ users \in [Attempts -> Engines \cup {NoEngine}]
  /\ evicted \subseteq Attempts

Init ==
  /\ at = [r \in Requests |-> "idle"]
  /\ attempt = [r \in Requests |-> 1]
  /\ acq = [r \in Requests |-> "none"]
  /\ engine = [r \in Requests |-> NoEngine]
  /\ exit = [r \in Requests |-> "none"]
  /\ frames = [r \in Requests |-> <<>>]
  /\ verdict = [a \in Attempts |-> "none"]
  /\ gone = {} /\ owed = {} /\ lost = {} /\ whole = {}
  /\ Lease!Init

-----------------------------------------------------------------------------
(* Pieces of the handlers *)

\* The frames of f follow what was sent; a keep-alive or bytes that repeat the last
\* frame are not noted.
Sent(r, f) ==
  IF f \in {<<"hold">>, <<"bytes">>} /\ frames[r] # <<>> /\ frames[r][Len(frames[r])] = f[1]
  THEN frames[r] ELSE frames[r] \o f

Send(r, f)   == frames' = [frames EXCEPT ![r] = Sent(r, f)]
Goto(r, p)   == at' = [at EXCEPT ![r] = p]
Leave(r, why) == Goto(r, "finally") /\ exit' = [exit EXCEPT ![r] = why]

Record(r, v) ==
  verdict' = IF r \in Smart THEN [verdict EXCEPT ![Current(r)] = v] ELSE verdict

\* Seeded fault: a failed plain request is answered like a failed /api stream.
ErrorFramesSilent(r) == IF r \in Sse THEN <<"error", "done">> ELSE <<>>

\* How a failure is told to the client, when no attempt is left: an error chunk and
\* [DONE] on SSE; nothing on NDJSON; an error response otherwise.
ErrorFrames(r) ==
  CASE r \in Sse    -> <<"error", "done">>
    [] r \in Ndjson -> <<>>
    [] r \in Plain  -> <<"error", "end">>

\* The next attempt, or the end of the handler.
AfterFinally(r, why) ==
  IF why = "continue"
  THEN /\ attempt' = [attempt EXCEPT ![r] = @ + 1]
       /\ acq' = [acq EXCEPT ![r] = "pending"]
       /\ Goto(r, "waiting")
  ELSE /\ Goto(r, "ended")
       /\ UNCHANGED <<attempt, acq>>

\* Seeded fault: the end of the plan is not looked at.
GiveUpAttemptPastEnd(r) ==
  /\ Record(r, "failure")
  /\ IF r \in Smart /\ ~Began(r)
     THEN Leave(r, "continue") /\ UNCHANGED frames
     ELSE Leave(r, "return") /\ Send(r, ErrorFrames(r))

\* A failure before the response began: the next attempt, if the plan has one.
GiveUpAttempt(r) ==
  /\ Record(r, "failure")
  /\ IF r \in Smart /\ ~LastAttempt(r) /\ ~Began(r)
     THEN Leave(r, "continue") /\ UNCHANGED frames
     ELSE Leave(r, "return") /\ Send(r, ErrorFrames(r))

-----------------------------------------------------------------------------
(* Acquiring *)

Begin(r) ==
  /\ at[r] = "idle"
  /\ acq' = [acq EXCEPT ![r] = "pending"]
  /\ Goto(r, "waiting")
  /\ UNCHANGED <<attempt, engine, exit, frames, verdict, gone, owed, lost, whole, leaseVars>>

\* Seeded fault: acquire() does not see to it that its engine is the active one.
AcquiredTooEarly(r) ==
  /\ acq[r] = "pending"
  /\ users' = [users EXCEPT ![Current(r)] = Owner[Model(r)]]
  /\ acq' = [acq EXCEPT ![r] = "ok"]
  /\ UNCHANGED <<at, attempt, engine, exit, frames, verdict, gone, owed, lost, whole, holder, evicted>>

\* manager.acquire() returns, having counted the attempt.
Acquired(r) ==
  /\ acq[r] = "pending" /\ holder = Owner[Model(r)]
  /\ Lease!Admit(Current(r))
  /\ acq' = [acq EXCEPT ![r] = "ok"]
  /\ UNCHANGED <<at, attempt, engine, exit, frames, verdict, gone, owed, lost, whole>>

\* It raises EngineError, or lets another exception through (the OSError of a start
\* command that cannot be run).
AcquireFails(r) ==
  /\ acq[r] = "pending"
  /\ \E how \in {"failed", "crashed"} : acq' = [acq EXCEPT ![r] = how]
  /\ UNCHANGED <<at, attempt, engine, exit, frames, verdict, gone, owed, lost, whole, leaseVars>>

\* swap_keepalive_interval_s elapsed.
KeepaliveDue(r) ==
  /\ at[r] = "waiting" /\ r \in Streamed /\ acq[r] = "pending"
  /\ Goto(r, "polling")
  /\ UNCHANGED <<attempt, acq, engine, exit, frames, verdict, gone, owed, lost, whole, leaseVars>>

\* Seeded fault: the client is not looked at.
PollBlind(r) ==
  /\ at[r] = "polling"
  /\ Goto(r, "waiting") /\ Send(r, <<"hold">>) /\ UNCHANGED exit
  /\ UNCHANGED <<attempt, acq, engine, verdict, gone, owed, lost, whole, leaseVars>>

Poll(r) ==
  /\ at[r] = "polling"
  /\ IF r \in gone
     THEN Leave(r, "return") /\ UNCHANGED frames
     ELSE Goto(r, "waiting") /\ Send(r, <<"hold">>) /\ UNCHANGED exit
  /\ UNCHANGED <<attempt, acq, engine, verdict, gone, owed, lost, whole, leaseVars>>

Bind(r) ==
  /\ at[r] = "waiting" /\ acq[r] = "ok"
  /\ engine' = [engine EXCEPT ![r] = users[Current(r)]]
  /\ Goto(r, IF r \in Plain THEN "forward" ELSE "connect")
  /\ UNCHANGED <<attempt, acq, exit, frames, verdict, gone, owed, lost, whole, leaseVars>>

AcquireError(r) ==
  /\ at[r] = "waiting" /\ acq[r] = "failed"
  /\ GiveUpAttempt(r)
  /\ UNCHANGED <<attempt, acq, engine, gone, owed, lost, whole, leaseVars>>

\* No handler catches what is not an EngineError: a stream is cut off.
AcquireCrash(r) ==
  /\ at[r] = "waiting" /\ acq[r] = "crashed"
  /\ Leave(r, "return")
  /\ IF r \in Plain THEN Send(r, <<"error", "end">>) ELSE UNCHANGED frames
  /\ UNCHANGED <<attempt, acq, engine, verdict, gone, owed, lost, whole, leaseVars>>

-----------------------------------------------------------------------------
(* Relaying a stream *)

Connected(r) ==
  /\ at[r] = "connect"
  /\ Goto(r, "relay")
  /\ UNCHANGED <<attempt, acq, engine, exit, frames, verdict, gone, owed, lost, whole, leaseVars>>

\* httpx.ConnectError / ConnectTimeout.
ConnectFails(r) ==
  /\ at[r] \in {"connect", "forward"}
  /\ GiveUpAttempt(r)
  /\ UNCHANGED <<attempt, acq, engine, gone, owed, lost, whole, leaseVars>>

\* The upstream answers with a status of 400 or more.
UpstreamRefuses(r) ==
  /\ at[r] = "connect"
  /\ Record(r, "failure")
  /\ Leave(r, "return")
  /\ Send(r, IF r \in Sse THEN <<"error", "done">> ELSE <<"error">>)
  /\ UNCHANGED <<attempt, acq, engine, gone, owed, lost, whole, leaseVars>>

\* A chunk arrives; for a client that has gone, relaying stops as if it had ended.
Chunk(r) ==
  /\ at[r] = "relay"
  /\ IF r \in gone
     THEN Record(r, "success") /\ Leave(r, "return") /\ UNCHANGED frames
     ELSE Send(r, <<"bytes">>) /\ UNCHANGED <<at, exit, verdict>>
  /\ UNCHANGED <<attempt, acq, engine, gone, owed, lost, whole, leaseVars>>

StreamEnds(r) ==
  /\ at[r] = "relay"
  /\ Record(r, "success")
  /\ Leave(r, "return")
  /\ Send(r, <<"end">>)
  /\ whole' = whole \cup {r}
  /\ UNCHANGED <<attempt, acq, engine, gone, owed, lost, leaseVars>>

\* Seeded fault: an error in mid-stream is handled like a failed connection.
StreamBreaksAsConnect(r) ==
  /\ at[r] = "relay"
  /\ Record(r, "failure")
  /\ IF r \in Smart /\ ~LastAttempt(r)
     THEN Leave(r, "continue") /\ UNCHANGED frames
     ELSE Leave(r, "return") /\ Send(r, ErrorFrames(r))
  /\ UNCHANGED <<attempt, acq, engine, gone, owed, lost, whole, leaseVars>>

\* Any other httpx.HTTPError, before or after the first byte: never retried.
StreamBreaks(r) ==
  /\ at[r] \in {"connect", "relay"}
  /\ Record(r, "failure")
  /\ Leave(r, "return")
  /\ Send(r, ErrorFrames(r))
  /\ UNCHANGED <<attempt, acq, engine, gone, owed, lost, whole, leaseVars>>

-----------------------------------------------------------------------------
(* Forwarding a request that is not streamed; its verdict and its response come
   after the release *)

Answered(r) ==
  /\ at[r] = "forward"
  /\ \E why \in {"answered", "refused"} : Leave(r, why)
  /\ whole' = whole \cup {r}
  /\ UNCHANGED <<attempt, acq, engine, frames, verdict, gone, owed, lost, leaseVars>>

ForwardBreaks(r) ==
  /\ at[r] = "forward"
  /\ Record(r, "failure")
  /\ Leave(r, "return")
  /\ Send(r, ErrorFrames(r))
  /\ UNCHANGED <<attempt, acq, engine, gone, owed, lost, whole, leaseVars>>

-----------------------------------------------------------------------------
(* Leaving an attempt: the finally clauses *)

\* acq.cancel(): the acquire ends with nothing counted, or its drain has just been
\* woken, the cancellation is lost, and it goes on though nobody waits for it.
CancelAcquire(r) ==
  /\ acq' = [acq EXCEPT ![r] = "cancelled"]
  /\ \/ UNCHANGED lost
     \/ WaitForLosesCancel /\ lost' = lost \cup {Current(r)}

\* Seeded fault: an acquire that has completed is not looked at.
FinallyForgets(r) ==
  /\ at[r] = "finally"
  /\ \/ /\ acq[r] = "pending"
        /\ CancelAcquire(r)
        /\ Goto(r, "ended")
        /\ UNCHANGED <<engine, attempt>>
     \/ /\ acq[r] # "pending" /\ engine[r] # NoEngine
        /\ Goto(r, "releasing")
        /\ UNCHANGED <<engine, acq, attempt, lost>>
     \/ /\ acq[r] # "pending" /\ engine[r] = NoEngine
        /\ AfterFinally(r, exit[r])
        /\ UNCHANGED <<engine, lost>>
  /\ UNCHANGED <<exit, frames, verdict, gone, owed, whole, leaseVars>>

\* A pending acquire is cancelled; one that has completed is released, bound or not.
Finally(r) ==
  /\ at[r] = "finally"
  /\ \/ /\ acq[r] = "pending"
        /\ CancelAcquire(r)
        /\ Goto(r, "ended")
        /\ UNCHANGED <<engine, attempt>>
     \/ /\ acq[r] = "ok"
        /\ engine' = [engine EXCEPT ![r] = users[Current(r)]]
        /\ Goto(r, "releasing")
        /\ UNCHANGED <<acq, attempt, lost>>
     \/ /\ acq[r] \in {"failed", "crashed"}
        /\ AfterFinally(r, exit[r])
        /\ UNCHANGED <<engine, lost>>
  /\ UNCHANGED <<exit, frames, verdict, gone, owed, whole, leaseVars>>

\* The acquire of a lost cancellation counts its attempt, whose handler has ended.
LostAcquired(a) ==
  /\ a \in lost /\ holder = Owner[Plan[a[1]][a[2]]]
  /\ Lease!Admit(a)
  /\ UNCHANGED handlerVars

\* manager.release(); then a forwarded request gets its verdict and its response.
Release(r) ==
  /\ at[r] = "releasing"
  /\ Lease!Leave(Current(r))
  /\ engine' = [engine EXCEPT ![r] = NoEngine]
  /\ AfterFinally(r, exit[r])
  /\ CASE exit[r] = "answered" -> Record(r, "success") /\ Send(r, <<"bytes", "end">>)
       [] exit[r] = "refused"  -> Record(r, "failure") /\ Send(r, <<"bytes", "end">>)
       [] OTHER                -> UNCHANGED <<verdict, frames>>
  /\ UNCHANGED <<exit, gone, owed, lost, whole>>

-----------------------------------------------------------------------------
(* The client and the server *)

Disconnect(r) ==
  /\ r \notin gone /\ at[r] \notin {"idle", "ended"}
  /\ gone' = gone \cup {r}
  /\ UNCHANGED <<at, attempt, acq, engine, exit, frames, verdict, owed, lost, whole, leaseVars>>

\* The server drops the response of a client that has gone: CancelledError or
\* GeneratorExit where the generator is suspended.
Cancel(r) ==
  /\ r \in gone \cap Streamed /\ at[r] \in Suspended
  /\ Leave(r, "return")
  /\ UNCHANGED <<attempt, acq, engine, frames, verdict, gone, owed, lost, whole, leaseVars>>

\* Cancelled while it awaits the shielded release, which goes on by itself.
CancelRelease(r) ==
  /\ r \in gone \cap Streamed /\ at[r] = "releasing"
  /\ owed' = owed \cup {Current(r)}
  /\ Goto(r, "ended")
  /\ UNCHANGED <<attempt, acq, engine, exit, frames, verdict, gone, lost, whole, leaseVars>>

ReleaseOwed(a) ==
  /\ a \in owed
  /\ Lease!Leave(a)
  /\ owed' = owed \ {a}
  /\ UNCHANGED <<at, attempt, acq, engine, exit, frames, verdict, gone, lost, whole>>

\* The manager swaps engines.
Swap ==
  /\ \/ \E e \in Engines : Lease!Evict(e) \/ Lease!Grant(e)
     \/ Lease!Revoke
  /\ UNCHANGED handlerVars

-----------------------------------------------------------------------------

\* The steps of a handler that depend on nobody else.
HandlerStep(r) ==
  \/ Begin(r) \/ KeepaliveDue(r) \/ Poll(r) \/ Bind(r) \/ AcquireError(r) \/ AcquireCrash(r)
  \/ Finally(r) \/ Release(r)

Upstream(r) ==
  \/ Connected(r) \/ ConnectFails(r) \/ UpstreamRefuses(r)
  \/ Chunk(r) \/ StreamEnds(r) \/ StreamBreaks(r) \/ Answered(r) \/ ForwardBreaks(r)

Next ==
  \/ \E r \in Requests :
       \/ HandlerStep(r) \/ Upstream(r)
       \/ Acquired(r) \/ AcquireFails(r)
       \/ Disconnect(r) \/ Cancel(r) \/ CancelRelease(r)
  \/ \E a \in Attempts : ReleaseOwed(a) \/ LostAcquired(a)
  \/ Swap

Spec == Init /\ [][Next]_vars

\* The event loop runs what is ready, timers included.  Nothing makes an acquire end,
\* an upstream answer, or the server notice that a client has gone.
Fairness ==
  /\ \A r \in Requests : WF_vars(HandlerStep(r))
  /\ \A a \in Attempts : WF_vars(ReleaseOwed(a))

FairSpec == Spec /\ Fairness

-----------------------------------------------------------------------------
(* Properties *)

\* A count belongs to the attempt in progress, or its release is on its way: no end
\* of an attempt (failure, disconnection at any point, cancellation between the end
\* of the acquire and the binding of its engine, fallback) leaves a count behind or
\* holds one while the next attempt waits.  What escapes is the acquire whose
\* cancellation wait_for drops, on Python 3.10 and 3.11 and on those only: its count
\* is nobody's (EngineManager!NoLeakedCount).
CountsAreHeld ==
  \A r \in Requests : \A n \in DOMAIN Plan[r] :
    users[<<r, n>>] # NoEngine =>
      \/ n = attempt[r] /\ acq[r] = "ok" /\ at[r] # "ended"
      \/ <<r, n>> \in owed /\ at[r] = "ended"
      \/ WaitForLosesCancel /\ <<r, n>> \in lost /\ at[r] = "ended"

\* A request is relayed to the engine it acquired, and no other engine has been
\* given the GPU meanwhile, unless a drain gave the request up.
RelaysUnderLease ==
  \A r \in Requests : at[r] \in {"connect", "relay", "forward"} =>
    /\ engine[r] = Owner[Model(r)] /\ users[Current(r)] = engine[r]
    /\ Current(r) \notin evicted => holder \in {engine[r], NoEngine}

\* Once bytes of an attempt have reached the client no other attempt is made.
NoRetryAfterBytes == [][\A r \in Requests : Began(r) => attempt'[r] = attempt[r]]_vars

\* What was sent ends as an answer that came whole; as a failure the client is told of.
RelayedWhole(f) ==
  f # <<>> /\ f[Len(f)] = "end" /\ \A n \in DOMAIN f : f[n] # "error"
FailureTold(f) ==
  Len(f) > 1 /\ f[Len(f) - 1] = "error" /\ f[Len(f)] \in {"done", "end"}

\* A response says one thing: nothing follows its end.  A client still there gets an
\* answer that came whole from an upstream and no error with it, or, on an SSE stream
\* and on a plain request, an error and then the end: an attempt that broke never
\* passes for an answer, and no failure is closed in silence, save an exception that
\* is not an EngineError.
WellTerminated ==
  \A r \in Requests :
    /\ \A n \in DOMAIN frames[r] : frames[r][n] \in {"done", "end"} => n = Len(frames[r])
    /\ at[r] = "ended" /\ r \notin gone /\ acq[r] # "crashed" =>
         IF r \in whole THEN RelayedWhole(frames[r])
         ELSE r \in Ndjson \/ FailureTold(frames[r])

\* A streaming handler whose client has gone stops waiting for the swap and holds no
\* count, unless it got as far as its engine, though the acquire may never end and the
\* server may never cancel the handler.  The acquire it leaves behind counts nothing
\* either, but when wait_for drops its cancellation.
GoneLetsGo ==
  \A r \in Streamed :
    r \in gone /\ at[r] = "waiting" ~>
      \/ at[r] \in {"connect", "relay"}
      \/ /\ at[r] = "ended"
         /\ \A n \in DOMAIN Plan[r] : users[<<r, n>>] = NoEngine \/ <<r, n>> \in lost
=============================================================================
