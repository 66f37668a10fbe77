------------------------------ MODULE Gateway -------------------------------
(***************************************************************************)
(* proxy/gateway.py: one forwarded request of the proxy, from admission by *)
(* the gate over the retried call of the engine to the end of the body it  *)
(* relays, composed with the gate of the same worker (QueueGate).          *)
(*                                                                         *)
(* A request runs in a task of its own.  In early mode (GATE_EARLY_RELEASE *)
(* true, the default) its slot is given back in the step that took it; in  *)
(* held mode it is meant to stay taken until the answer is relayed.  The   *)
(* slot belongs to the task that took it: release() called by another task *)
(* finds no entry and returns.  Which task runs the body of a              *)
(* StreamingResponse is decided by Starlette, from the ASGI version the    *)
(* server announces (StreamInChildTask).  uvicorn, which the launcher      *)
(* runs, announces 2.3, so the body runs in a task of its own.             *)
(*                                                                         *)
(* Not modelled: cancelling a request's task, which the server does only   *)
(* when it shuts down, and the reuse of the id of a task that has ended: a *)
(* task that ended with its slot makes no further request.                 *)
(***************************************************************************)
EXTENDS Naturals, Sequences, FiniteSets

CONSTANTS
  Tasks, G0Cap, G1Cap, MaxQs, Policies, Overflows, Dead,  (* of QueueGate  *)
  RetryTries,         (* RETRY_TRIES                                       *)
  StreamInChildTask   (* a streaming body is iterated in a task of its own *)
                      (* (ASGI spec_version below 2.4, as uvicorn's)       *)

ASSUME GatewayAssumption ==
  /\ RetryTries \in Nat
  /\ StreamInChildTask \in BOOLEAN

VARIABLES
  conf, acq, grant, q, putters, permits, holders,  (* of the gate          *)
  early,      (* GATE_EARLY_RELEASE, read from the environment at start    *)
  stage,      (* stage[t]: "idle" (no request, or not past the gate yet),  *)
              (* "send", "backoff" (the sleep between two tries), "body"   *)
              (* (reading a small answer whole) or "pipe" (relaying it)    *)
  kind,       (* kind[t]: the request is a "stream" or a "nonstream" one;  *)
              (* "stream" again when there is none                         *)
  attempt,    (* attempt[t]: the number of the current try                 *)
  lastStatus, (* lastStatus[t]: last_status is set                         *)
  resp        (* resp[t]: the engine's response that is open, "none",      *)
              (* "good" or "unavailable" (status 502, 503 or 504)          *)

gateVars == <<conf, acq, grant, q, putters, permits, holders>>
reqVars  == <<early, stage, kind, attempt, lastStatus, resp>>
vars     == <<gateVars, reqVars>>

Gate == INSTANCE QueueGate

ASSUME GateAssumption == Gate!QueueGateAssumption

Kinds  == {"stream", "nonstream"}
Stages == {"idle", "send", "backoff", "body", "pipe"}

(* total = max(1, RETRY_TRIES)                                             *)
Total == IF RetryTries < 1 THEN 1 ELSE RetryTries

TypeOK ==
  /\ Gate!TypeOK
  /\ early \in BOOLEAN
  /\ stage \in [Tasks -> Stages]
  /\ kind \in [Tasks -> Kinds]
  /\ attempt \in [Tasks -> 0 .. Total]
  /\ lastStatus \in [Tasks -> BOOLEAN]
  /\ resp \in [Tasks -> {"none", "good", "unavailable"}]

Init ==
  /\ Gate!Init
  /\ early \in BOOLEAN
  /\ stage = [t \in Tasks |-> "idle"]
  /\ kind = [t \in Tasks |-> "stream"]
  /\ attempt = [t \in Tasks |-> 0]
  /\ lastStatus = [t \in Tasks |-> FALSE]
  /\ resp = [t \in Tasks |-> "none"]

Serving(t) == stage[t] # "idle"

-----------------------------------------------------------------------------
(* Admission: _acquire_gate_early and _acquire_gate_early_nonstream.       *)

Arrives(t) == ~Serving(t) /\ Gate!Calls(t)

(* The first try of the request, of kind k.                                *)
StartSending(t, k) ==
  /\ stage' = [stage EXCEPT ![t] = "send"]
  /\ kind' = [kind EXCEPT ![t] = k]
  /\ attempt' = [attempt EXCEPT ![t] = 1]
  /\ UNCHANGED <<early, lastStatus, resp>>

EnterHeld(t) ==
  /\ ~early
  /\ Arrives(t)
  /\ Gate!AcquireDirect(t)
  /\ \E k \in Kinds : StartSending(t, k)

(* acquire() and release() without a suspension between them.  release()   *)
(* finds no waiter to hand the slot to: see SlotWhileServing.              *)
EnterEarly(t) ==
  /\ early
  /\ Arrives(t)
  /\ ~Gate!NoTicket
  /\ q = <<>>
  /\ \E k \in Kinds : StartSending(t, k)
  /\ UNCHANGED gateVars

(* The request has to wait, or is answered 503 by the gate.                *)
WaitOrBeRefused(t) ==
  /\ Arrives(t)
  /\ Gate!NoTicket
  /\ Gate!Acquire(t)
  /\ \E k \in Kinds : kind' = [kind EXCEPT ![t] = k]
  /\ UNCHANGED <<early, stage, attempt, lastStatus, resp>>

WaitOn(t) ==
  /\ \/ Gate!ResumePut(t)
     \/ Gate!Timeout(t)
     \/ Gate!FinishRefused(t)
  /\ UNCHANGED reqVars

Inherit(t) ==
  /\ Gate!InheritOccupy(t)
  /\ StartSending(t, kind[t])

-----------------------------------------------------------------------------
(* The slot on the way out: in held mode release() by the request's task, *)
(* which does nothing when that task owns no slot (any more).              *)
GiveSlotBack(t) ==
  IF early \/ holders[t] = Gate!NoLayer
  THEN UNCHANGED gateVars
  ELSE Gate!Release(t)

(* The end of a StreamingResponse's body: release() by the task that runs  *)
(* the body, which does nothing when that is not the request's own task:   *)
(* the slot stays with a task that is about to end.                        *)
GiveSlotBackFromBody(t) ==
  IF StreamInChildTask THEN UNCHANGED gateVars ELSE GiveSlotBack(t)

EndRequest(t) ==
  /\ stage' = [stage EXCEPT ![t] = "idle"]
  /\ attempt' = [attempt EXCEPT ![t] = 0]
  /\ lastStatus' = [lastStatus EXCEPT ![t] = FALSE]
  /\ resp' = [resp EXCEPT ![t] = "none"]
  /\ kind' = [kind EXCEPT ![t] = "stream"]
  /\ UNCHANGED early

-----------------------------------------------------------------------------
(* _send_with_fixed_retries.  Both kinds of request pass stream=True.      *)

MayRetry(t) == attempt[t] < Total

(* Mutant: the answer is not closed before the sleep.                      *)
RetryStatusUnclosed(t) ==
  /\ stage[t] = "send"
  /\ MayRetry(t)
  /\ stage' = [stage EXCEPT ![t] = "backoff"]
  /\ lastStatus' = [lastStatus EXCEPT ![t] = TRUE]
  /\ resp' = [resp EXCEPT ![t] = "unavailable"]
  /\ UNCHANGED <<early, kind, attempt, gateVars>>

(* The engine answers 502, 503 or 504 and a try is left: the answer is     *)
(* closed and the request sleeps.                                          *)
RetryStatus(t) ==
  /\ stage[t] = "send"
  /\ MayRetry(t)
  /\ stage' = [stage EXCEPT ![t] = "backoff"]
  /\ lastStatus' = [lastStatus EXCEPT ![t] = TRUE]
  /\ UNCHANGED <<early, kind, attempt, resp, gateVars>>

(* A connect error, connect timeout or exhausted pool, and a try is left.  *)
RetryConnect(t) ==
  /\ stage[t] = "send"
  /\ MayRetry(t)
  /\ stage' = [stage EXCEPT ![t] = "backoff"]
  /\ UNCHANGED <<early, kind, attempt, lastStatus, resp, gateVars>>

(* Mutant: the tries are not counted.                                      *)
SendAgainUncounted(t) ==
  /\ stage[t] = "backoff"
  /\ stage' = [stage EXCEPT ![t] = "send"]
  /\ UNCHANGED <<early, kind, attempt, lastStatus, resp, gateVars>>

SendAgain(t) ==
  /\ stage[t] = "backoff"
  /\ stage' = [stage EXCEPT ![t] = "send"]
  /\ attempt' = [attempt EXCEPT ![t] = @ + 1]
  /\ UNCHANGED <<early, kind, lastStatus, resp, gateVars>>

(* An answer that is not tried again: a good one, or the last try's.  A    *)
(* small nonstream answer is read whole, any other one is piped.           *)
Respond(t) ==
  /\ stage[t] = "send"
  /\ \E s \in {"good", "unavailable"} :
       /\ s = "unavailable" => ~MayRetry(t)
       /\ resp' = [resp EXCEPT ![t] = s]
  /\ \E w \in {"body", "pipe"} :
       /\ w = "body" => kind[t] = "nonstream"
       /\ stage' = [stage EXCEPT ![t] = w]
  /\ UNCHANGED <<early, kind, attempt, lastStatus, gateVars>>

(* Mutant: the handler's except does not give the slot back.               *)
FailKeepingSlot(t) ==
  /\ stage[t] = "send"
  /\ EndRequest(t)
  /\ UNCHANGED gateVars

(* An exception that is not tried again: 502 for a transport error, else   *)
(* the exception itself; the slot is given back.                           *)
Fail(t) ==
  /\ stage[t] = "send"
  /\ EndRequest(t)
  /\ GiveSlotBack(t)

-----------------------------------------------------------------------------
(* aread() ends, or raises and the handler's except gives the slot back.   *)
FinishBody(t) ==
  /\ stage[t] = "body"
  /\ EndRequest(t)
  /\ GiveSlotBack(t)

(* _stream_gen and _pipe_nonstream end: the answer is complete, the client *)
(* is gone or the engine broke off.                                        *)
FinishPipe(t) ==
  /\ stage[t] = "pipe"
  /\ EndRequest(t)
  /\ GiveSlotBackFromBody(t)

Next ==
  \E t \in Tasks :
    \/ EnterHeld(t)
    \/ EnterEarly(t)
    \/ WaitOrBeRefused(t)
    \/ WaitOn(t)
    \/ Inherit(t)
    \/ RetryStatus(t)
    \/ RetryConnect(t)
    \/ SendAgain(t)
    \/ Respond(t)
    \/ Fail(t)
    \/ FinishBody(t)
    \/ FinishPipe(t)

Spec == Init /\ [][Next]_vars

(* A task that is ready runs and timers expire.  Of the engine it is       *)
(* assumed that a call of it ends, in one way or another, and so does an   *)
(* answer it has begun (the read timeout of a stream is None, so the proxy *)
(* itself does not see to that).                                           *)
Fairness ==
  \A t \in Tasks :
    /\ WF_vars(WaitOn(t))
    /\ WF_vars(Inherit(t))
    /\ WF_vars(SendAgain(t))
    /\ WF_vars(RetryStatus(t) \/ RetryConnect(t) \/ Respond(t) \/ Fail(t))
    /\ WF_vars(FinishBody(t))
    /\ WF_vars(FinishPipe(t))

FairSpec == Spec /\ Fairness

-----------------------------------------------------------------------------
(* Properties.                                                             *)

(* Across admission, retries and every exit the slots add up: each is in   *)
(* its semaphore or has one owner, which may be a task that has ended (see *)
(* SlotComesBack); and every response the engine opened is closed before   *)
(* the request sleeps, is sent again or ends: none is left open without a  *)
(* reader.                                                                 *)
ResponsesClosed ==
  \A t \in Tasks : resp[t] # "none" => stage[t] \in {"body", "pipe"}

AccountsBalance ==
  /\ TypeOK
  /\ Gate!SlotConservation
  /\ ResponsesClosed

(* "真正限制后端并发数": in held mode every request the engine works on owns  *)
(* a slot, so there are never more of them than slots; in early mode       *)
(* nobody owns one, and nobody ever waits.                                 *)
WorkIsBounded ==
  \A t \in Tasks :
    /\ ~early /\ Serving(t) => holders[t] # Gate!NoLayer
    /\ early => holders[t] = Gate!NoLayer /\ acq[t] = "idle"

(* And on every way out the request leaves the slot behind, but for a body *)
(* that another task iterates to its end.                                  *)
LeavesSlot(t) ==
  Serving(t) /\ ~Serving(t)' /\ ~(StreamInChildTask /\ stage[t] = "pipe")
    => holders'[t] = Gate!NoLayer

SlotWhileServing == []WorkIsBounded /\ [][\A t \in Tasks : LeavesSlot(t)]_vars

(* "在流式传输结束后释放闸门槽位": who owns a slot has a request under way,   *)
(* so that a slot comes back when the answer has been streamed.            *)
SlotComesBack == \A t \in Tasks : holders[t] # Gate!NoLayer => Serving(t)

(* Every request ends, however often it is retried and however long it     *)
(* waits, provided that every call of the engine ends.                     *)
EveryRequestEnds ==
  \A t \in Tasks :
    Gate!PutNeverBlocks /\ (Serving(t) \/ acq[t] # "idle")
      ~> ~Serving(t) /\ acq[t] = "idle"

(* "HTTPException(502): 后端连接错误或持续 5xx": an answer 502, 503 or 504   *)
(* that outlasts the tries is not relayed as if it were the engine's.      *)
PersistentErrorNotRelayed ==
  \A t \in Tasks : stage[t] \in {"body", "pipe"} => resp[t] # "unavailable"

(* "普通请求保持行为更可预期，不重试": a nonstream request that the engine    *)
(* has answered is not sent again.                                         *)
NonstreamNotRetried ==
  \A t \in Tasks : kind[t] = "nonstream" => ~lastStatus[t]
=============================================================================
