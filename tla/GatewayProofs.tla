---------------------------- MODULE GatewayProofs -----------------------------
(***************************************************************************)
(* Proofs about Gateway, for any number of request tasks, capacities, kinds *)
(* of overflow and number of tries.  The gate's own invariant carries over *)
(* from QueueGateProofs, as every step of the gateway is one of the gate    *)
(* or leaves it alone; what is added relates the request to its task.      *)
(***************************************************************************)
EXTENDS Gateway, TLAPS

GateProved == INSTANCE QueueGateProofs

ReqTypes ==
  /\ early \in BOOLEAN
  /\ stage \in [Tasks -> Stages]
  /\ kind \in [Tasks -> Kinds]
  /\ attempt \in [Tasks -> 0 .. Total]
  /\ lastStatus \in [Tasks -> BOOLEAN]
  /\ resp \in [Tasks -> {"none", "good", "unavailable"}]

(* A task that is in acquire() has no request past the gate                *)
Apart == \A t \in Tasks : acq[t] # "idle" => ~Serving(t)

(* Who sleeps has a try left                                               *)
TryLeft == \A t \in Tasks : stage[t] = "backoff" => attempt[t] < Total

IInv ==
  /\ GateProved!IInv
  /\ ReqTypes
  /\ Apart
  /\ TryLeft
  /\ ResponsesClosed

-----------------------------------------------------------------------------
(* The gate within the gateway.                                            *)

LEMMA GateConstants == GateProved!QueueGateAssumption
  BY GateAssumption DEF Gate!QueueGateAssumption, GateProved!QueueGateAssumption,
     Gate!IsFiniteSet, GateProved!IsFiniteSet

LEMMA TotalIsPositive == Total \in Nat \ {0}
  BY GatewayAssumption DEF Total

LEMMA GateInit == Gate!Init => GateProved!IInv
  <1>1. Gate!Init => GateProved!Init
    BY DEF Gate!Init, GateProved!Init, Gate!Settings, GateProved!Settings, Gate!Cap,
       GateProved!Cap, Gate!Layers, GateProved!Layers, Gate!NoLayer, GateProved!NoLayer
  <1>2. ASSUME GateProved!Init PROVE GateProved!IInv
    BY <1>2, GateConstants, GateProved!InitInductive
  <1> QED  BY <1>1, <1>2

LEMMA SameActions ==
  ASSUME NEW t
  PROVE  /\ Gate!Acquire(t) => GateProved!Acquire(t)
         /\ Gate!ResumePut(t) => GateProved!ResumePut(t)
         /\ Gate!Timeout(t) => GateProved!Timeout(t)
         /\ Gate!InheritOccupy(t) => GateProved!InheritOccupy(t)
         /\ Gate!FinishRefused(t) => GateProved!FinishRefused(t)
         /\ Gate!Release(t) => GateProved!Release(t)
  <1> USE DEF Gate!Layers, GateProved!Layers, Gate!NoLayer, GateProved!NoLayer,
       Gate!MaxQ, GateProved!MaxQ, Gate!DropOldest, GateProved!DropOldest,
       Gate!BlockMode, GateProved!BlockMode, Gate!LiveAt, GateProved!LiveAt,
       Gate!FirstLive, GateProved!FirstLive, Gate!PopCount, GateProved!PopCount,
       Gate!DropFirst, GateProved!DropFirst, Gate!WokenBy, GateProved!WokenBy,
       Gate!Woken, GateProved!Woken, Gate!PopQueue, GateProved!PopQueue,
       Gate!HasTicket, GateProved!HasTicket, Gate!Calls, GateProved!Calls,
       Gate!NoTicket, GateProved!NoTicket
  <1>1. Gate!AcquireDirect(t) => GateProved!AcquireDirect(t)
    BY DEF Gate!AcquireDirect, GateProved!AcquireDirect
  <1>2. Gate!RefuseDisabled(t) => GateProved!RefuseDisabled(t)
    BY DEF Gate!RefuseDisabled, GateProved!RefuseDisabled
  <1>3. Gate!RefuseFull(t) => GateProved!RefuseFull(t)
    BY DEF Gate!RefuseFull, GateProved!RefuseFull
  <1>4. Gate!Enqueue(t) => GateProved!Enqueue(t)
    BY DEF Gate!Enqueue, GateProved!Enqueue
  <1>5. Gate!EnqueueDropping(t) => GateProved!EnqueueDropping(t)
    BY DEF Gate!EnqueueDropping, GateProved!EnqueueDropping
  <1>6. Gate!BlockInPut(t) => GateProved!BlockInPut(t)
    BY DEF Gate!BlockInPut, GateProved!BlockInPut
  <1>7. Gate!Acquire(t) => GateProved!Acquire(t)
    BY <1>1, <1>2, <1>3, <1>4, <1>5, <1>6 DEF Gate!Acquire, GateProved!Acquire
  <1>8. /\ Gate!ResumePut(t) => GateProved!ResumePut(t)
        /\ Gate!Timeout(t) => GateProved!Timeout(t)
        /\ Gate!InheritOccupy(t) => GateProved!InheritOccupy(t)
        /\ Gate!FinishRefused(t) => GateProved!FinishRefused(t)
    BY DEF Gate!ResumePut, GateProved!ResumePut, Gate!Timeout, GateProved!Timeout,
       Gate!InheritOccupy, GateProved!InheritOccupy, Gate!FinishRefused,
       GateProved!FinishRefused
  <1>9. Gate!Release(t) => GateProved!Release(t)
    BY DEF Gate!Release, GateProved!Release
  <1> QED  BY <1>7, <1>8, <1>9

(* Every step of the gateway is one of the gate or leaves it alone         *)
GateStep(t) ==
  \/ Gate!Acquire(t)
  \/ Gate!ResumePut(t)
  \/ Gate!Timeout(t)
  \/ Gate!InheritOccupy(t)
  \/ Gate!FinishRefused(t)
  \/ Gate!Release(t)

LEMMA GateKept ==
  ASSUME GateProved!IInv, NEW t \in Tasks, GateStep(t) \/ UNCHANGED gateVars
  PROVE  GateProved!IInv'
  <1>1. GateStep(t) => GateProved!Next
    BY SameActions DEF GateStep, GateProved!Next
  <1>2. UNCHANGED gateVars => UNCHANGED GateProved!vars
    BY DEF gateVars, GateProved!vars
  <1>3. [GateProved!Next]_(GateProved!vars)
    BY <1>1, <1>2
  <1> QED  BY <1>3, GateConstants, GateProved!NextInductive

LEMMA GateFacts ==
  ASSUME GateProved!IInv
  PROVE  /\ Gate!TypeOK /\ Gate!SlotConservation /\ Gate!OneStanding
         /\ Gate!WaitersTracked
  <1>1. GateProved!TypeOK => Gate!TypeOK
    BY DEF GateProved!TypeOK, Gate!TypeOK, GateProved!Settings, Gate!Settings,
       GateProved!AcqStates, Gate!AcqStates, GateProved!Layers, Gate!Layers,
       GateProved!NoLayer, Gate!NoLayer, GateProved!MaxQ, Gate!MaxQ
  <1>2. GateProved!OneStanding => Gate!OneStanding
    BY DEF GateProved!OneStanding, Gate!OneStanding, GateProved!NoLayer, Gate!NoLayer
  <1>3. GateProved!WaitersTracked => Gate!WaitersTracked
    BY DEF GateProved!WaitersTracked, Gate!WaitersTracked
  <1>4. GateProved!SlotConservation => Gate!SlotConservation
    <2>1. \A S : Gate!Cardinality(S) = GateProved!Cardinality(S)
      BY DEF Gate!Cardinality, GateProved!Cardinality
    <2>2. \A l : Gate!Owners(l) = GateProved!Owners(l)
      BY DEF Gate!Owners, GateProved!Owners, Gate!SlotOf, GateProved!SlotOf
    <2>3. Gate!Layers = GateProved!Layers /\ Gate!Cap = GateProved!Cap
      BY DEF Gate!Layers, GateProved!Layers, Gate!Cap, GateProved!Cap
    <2> QED  BY <2>1, <2>2, <2>3 DEF Gate!SlotConservation, GateProved!SlotConservation
  <1> QED  BY <1>1, <1>2, <1>3, <1>4 DEF GateProved!IInv

-----------------------------------------------------------------------------
(* What a step of the gate does to those who are not in it.                *)

LEMMA FirstLiveQueues ==
  ASSUME GateProved!IInv, GateProved!LiveAt # {}
  PROVE  acq[q[GateProved!FirstLive]] = "queued"
  BY GateConstants, GateProved!FirstLiveWaits DEF GateProved!IInv

LEMMA WokenBlock ==
  ASSUME GateProved!IInv, NEW n, NEW u \in GateProved!WokenBy(n)
  PROVE  acq[u] = "blocked"
  BY DEF GateProved!IInv, GateProved!WaitersTracked, GateProved!WokenBy

LEMMA OthersStayOut ==
  ASSUME GateProved!IInv, NEW t \in Tasks, NEW u \in Tasks, acq[u] = "idle",
         \/ Gate!Acquire(t) /\ u # t
         \/ Gate!ResumePut(t) \/ Gate!Timeout(t) \/ Gate!FinishRefused(t) \/ Gate!Release(t)
  PROVE  acq'[u] = "idle"
  <1>1. acq \in [Tasks -> GateProved!AcqStates]
    BY DEF GateProved!IInv, GateProved!TypeOK
  <1>2. CASE GateProved!ResumePut(t) \/ GateProved!Timeout(t) \/ GateProved!FinishRefused(t)
    BY <1>1, <1>2
       DEF GateProved!ResumePut, GateProved!Timeout, GateProved!FinishRefused
  <1>3. CASE GateProved!Release(t)
    <2>1. CASE GateProved!LiveAt = {}
      BY <1>1, <1>3, <2>1, WokenBlock DEF GateProved!Release, GateProved!Woken
    <2>2. CASE GateProved!LiveAt # {}
      <3>1. u # q[GateProved!FirstLive]
        BY <2>2, FirstLiveQueues
      <3> QED  BY <1>1, <1>3, <2>2, <3>1, WokenBlock DEF GateProved!Release, GateProved!Woken
    <2> QED  BY <2>1, <2>2
  <1>4. CASE GateProved!Acquire(t) /\ u # t
    <2>1. CASE GateProved!AcquireDirect(t)
      BY <2>1 DEF GateProved!AcquireDirect
    <2>2. CASE GateProved!RefuseDisabled(t) \/ GateProved!Enqueue(t) \/ GateProved!BlockInPut(t)
      BY <1>1, <1>4, <2>2
         DEF GateProved!RefuseDisabled, GateProved!Enqueue, GateProved!BlockInPut
    <2>3. CASE GateProved!RefuseFull(t)
      BY <1>1, <1>4, <2>3, WokenBlock DEF GateProved!RefuseFull, GateProved!Woken
    <2>4. CASE GateProved!EnqueueDropping(t)
      <3>1. GateProved!LiveAt # {} => u # q[GateProved!FirstLive]
        BY FirstLiveQueues
      <3> QED  BY <1>1, <1>4, <2>4, <3>1, WokenBlock
              DEF GateProved!EnqueueDropping, GateProved!Woken
    <2> QED  BY <1>4, <2>1, <2>2, <2>3, <2>4 DEF GateProved!Acquire
  <1> QED  BY <1>2, <1>3, <1>4, SameActions

LEMMA SlotsOfOthers ==
  ASSUME GateProved!IInv, NEW t \in Tasks
  PROVE  /\ Gate!AcquireDirect(t) =>
              /\ acq' = acq
              /\ \E l \in Gate!Layers : holders' = [holders EXCEPT ![t] = l]
         /\ Gate!NoTicket /\ Gate!Acquire(t) => holders' = holders
         /\ Gate!ResumePut(t) \/ Gate!Timeout(t) \/ Gate!FinishRefused(t) => holders' = holders
         /\ Gate!Release(t) => /\ holders[t] # Gate!NoLayer
                               /\ holders' = [holders EXCEPT ![t] = Gate!NoLayer]
  <1>1. Gate!NoTicket /\ Gate!Acquire(t) => holders' = holders
    BY DEF Gate!Acquire, Gate!AcquireDirect, Gate!RefuseDisabled, Gate!RefuseFull,
       Gate!Enqueue, Gate!EnqueueDropping, Gate!BlockInPut, Gate!NoTicket
  <1>2. Gate!AcquireDirect(t) => /\ acq' = acq
                                 /\ \E l \in Gate!Layers : holders' = [holders EXCEPT ![t] = l]
    BY DEF Gate!AcquireDirect
  <1> QED  BY <1>1, <1>2
          DEF Gate!ResumePut, Gate!Timeout, Gate!FinishRefused, Gate!Release

(* A future's result is a layer                                            *)
LEMMA InheritGivesSlot ==
  ASSUME GateProved!IInv, NEW t \in Tasks, Gate!InheritOccupy(t)
  PROVE  /\ acq[t] = "granted" /\ grant[t] # Gate!NoLayer
         /\ holders' = [holders EXCEPT ![t] = grant[t]]
         /\ acq' = [acq EXCEPT ![t] = "idle"]
  <1>1. Gate!OneStanding
    BY GateFacts
  <1> QED  BY <1>1 DEF Gate!OneStanding, Gate!InheritOccupy

-----------------------------------------------------------------------------
(* The steps of a request.                                                 *)

LEMMA StartKeeps ==
  ASSUME IInv, NEW t \in Tasks, NEW k \in Kinds, ~Serving(t), StartSending(t, k),
         GateProved!IInv', acq'[t] = "idle",
         \A u \in Tasks : acq[u] = "idle" => acq'[u] = "idle"
  PROVE  IInv'
  <1>1. /\ stage' = [stage EXCEPT ![t] = "send"]
        /\ kind' = [kind EXCEPT ![t] = k]
        /\ attempt' = [attempt EXCEPT ![t] = 1]
        /\ UNCHANGED <<early, lastStatus, resp>>
    BY DEF StartSending
  <1>2. stage' \in [Tasks -> Stages] /\ kind' \in [Tasks -> Kinds]
    BY <1>1 DEF IInv, ReqTypes, Stages
  <1>3. attempt' \in [Tasks -> 0 .. Total]
    BY <1>1, TotalIsPositive DEF IInv, ReqTypes
  <1>4. ReqTypes'
    BY <1>1, <1>2, <1>3 DEF IInv, ReqTypes
  <1>5. \A u \in Tasks \ {t} : stage'[u] = stage[u] /\ attempt'[u] = attempt[u]
    BY <1>1 DEF IInv, ReqTypes
  <1>6. stage'[t] = "send"
    BY <1>1 DEF IInv, ReqTypes
  <1>7. Apart' /\ TryLeft'
    BY <1>5, <1>6 DEF IInv, Apart, TryLeft, Serving
  <1>8. ResponsesClosed'
    BY <1>1, <1>5, <1>6 DEF IInv, ResponsesClosed, Serving
  <1> QED  BY <1>4, <1>7, <1>8 DEF IInv

LEMMA EndKeeps ==
  ASSUME IInv, NEW t \in Tasks, EndRequest(t), Gate!Release(t) \/ UNCHANGED gateVars
  PROVE  IInv'
  <1>1. /\ stage' = [stage EXCEPT ![t] = "idle"]
        /\ attempt' = [attempt EXCEPT ![t] = 0]
        /\ lastStatus' = [lastStatus EXCEPT ![t] = FALSE]
        /\ resp' = [resp EXCEPT ![t] = "none"]
        /\ kind' = [kind EXCEPT ![t] = "stream"]
        /\ UNCHANGED early
    BY DEF EndRequest
  <1>2. GateProved!IInv'
    BY GateKept DEF IInv, GateStep
  <1>3. stage' \in [Tasks -> Stages] /\ kind' \in [Tasks -> Kinds]
    BY <1>1 DEF IInv, ReqTypes, Stages, Kinds
  <1>4. attempt' \in [Tasks -> 0 .. Total]
    BY <1>1, TotalIsPositive DEF IInv, ReqTypes
  <1>5. lastStatus' \in [Tasks -> BOOLEAN]
    BY <1>1 DEF IInv, ReqTypes
  <1>6. resp' \in [Tasks -> {"none", "good", "unavailable"}]
    BY <1>1 DEF IInv, ReqTypes
  <1>7. ReqTypes'
    BY <1>1, <1>3, <1>4, <1>5, <1>6 DEF IInv, ReqTypes
  <1>8. /\ stage'[t] = "idle" /\ resp'[t] = "none"
        /\ \A u \in Tasks \ {t} : /\ stage'[u] = stage[u] /\ attempt'[u] = attempt[u]
                                  /\ resp'[u] = resp[u]
    BY <1>1 DEF IInv, ReqTypes
  <1>9. \A u \in Tasks : acq[u] = "idle" => acq'[u] = "idle"
    BY OthersStayOut DEF IInv, gateVars
  <1>10. Apart' /\ TryLeft' /\ ResponsesClosed'
    BY <1>8, <1>9 DEF IInv, Apart, TryLeft, ResponsesClosed, Serving
  <1> QED  BY <1>2, <1>7, <1>10 DEF IInv

LEMMA EnterKeeps ==
  ASSUME IInv, NEW t \in Tasks, EnterHeld(t) \/ EnterEarly(t)
  PROVE  IInv'
  <1>1. CASE EnterHeld(t)
    <2>1. ~Serving(t) /\ acq[t] = "idle" /\ Gate!AcquireDirect(t)
      BY <1>1 DEF EnterHeld, Arrives, Gate!Calls
    <2>2. acq' = acq
      BY <2>1, SlotsOfOthers DEF IInv
    <2>3. GateProved!IInv'
      BY <2>1, GateKept DEF IInv, GateStep, Gate!Acquire
    <2> QED  BY <1>1, <2>1, <2>2, <2>3, StartKeeps DEF EnterHeld
  <1>2. CASE EnterEarly(t)
    <2>1. ~Serving(t) /\ acq[t] = "idle" /\ UNCHANGED gateVars
      BY <1>2 DEF EnterEarly, Arrives, Gate!Calls
    <2>2. GateProved!IInv' /\ acq' = acq
      BY <2>1, GateKept DEF IInv, gateVars
    <2> QED  BY <1>2, <2>1, <2>2, StartKeeps DEF EnterEarly
  <1> QED  BY <1>1, <1>2

LEMMA WaitKeeps ==
  ASSUME IInv, NEW t \in Tasks, WaitOrBeRefused(t) \/ WaitOn(t)
  PROVE  IInv'
  <1>1. CASE WaitOrBeRefused(t)
    <2>1. /\ ~Serving(t) /\ Gate!Acquire(t)
          /\ \E k \in Kinds : kind' = [kind EXCEPT ![t] = k]
          /\ UNCHANGED <<early, stage, attempt, lastStatus, resp>>
      BY <1>1 DEF WaitOrBeRefused, Arrives
    <2>2. GateProved!IInv'
      BY <2>1, GateKept DEF IInv, GateStep
    <2>3. ReqTypes'
      BY <2>1 DEF IInv, ReqTypes
    <2>4. Apart'
      BY <2>1, OthersStayOut DEF IInv, Apart, Serving
    <2> QED  BY <2>1, <2>2, <2>3, <2>4 DEF IInv, TryLeft, ResponsesClosed
  <1>2. CASE WaitOn(t)
    <2>1. UNCHANGED <<early, stage, kind, attempt, lastStatus, resp>>
      BY <1>2 DEF WaitOn, reqVars
    <2>2. GateProved!IInv'
      BY <1>2, GateKept DEF IInv, WaitOn, GateStep
    <2>3. \A u \in Tasks : acq[u] = "idle" => acq'[u] = "idle"
      BY <1>2, OthersStayOut DEF IInv, WaitOn
    <2> QED  BY <2>1, <2>2, <2>3 DEF IInv, ReqTypes, Apart, TryLeft, ResponsesClosed, Serving
  <1> QED  BY <1>1, <1>2

LEMMA InheritKeeps ==
  ASSUME IInv, NEW t \in Tasks, Inherit(t)
  PROVE  IInv'
  <1>1. Gate!InheritOccupy(t) /\ StartSending(t, kind[t]) /\ kind[t] \in Kinds
    BY DEF Inherit, IInv, ReqTypes
  <1>2. acq[t] = "granted" /\ acq' = [acq EXCEPT ![t] = "idle"]
    BY <1>1, InheritGivesSlot DEF IInv
  <1>3. acq \in [Tasks -> Gate!AcqStates]
    BY GateFacts DEF IInv, Gate!TypeOK
  <1>4. ~Serving(t)
    BY <1>2 DEF IInv, Apart
  <1>5. GateProved!IInv'
    BY <1>1, GateKept DEF IInv, GateStep
  <1> QED  BY <1>1, <1>2, <1>3, <1>4, <1>5, StartKeeps

(* Trying again leaves the gate alone                                      *)
LEMMA SendingKeeps ==
  ASSUME IInv, NEW t \in Tasks,
         RetryStatus(t) \/ RetryConnect(t) \/ SendAgain(t) \/ Respond(t)
  PROVE  IInv' /\ UNCHANGED <<gateVars, early>> /\ \A u \in Tasks : Serving(u)' <=> Serving(u)
  <1>1. UNCHANGED <<gateVars, early>>
    BY DEF RetryStatus, RetryConnect, SendAgain, Respond
  <1>2. GateProved!IInv' /\ acq' = acq
    BY <1>1, GateKept DEF IInv, gateVars
  <1>3. /\ stage \in [Tasks -> Stages] /\ attempt \in [Tasks -> 0 .. Total]
        /\ lastStatus \in [Tasks -> BOOLEAN]
        /\ resp \in [Tasks -> {"none", "good", "unavailable"}]
    BY DEF IInv, ReqTypes
  <1>4. /\ stage' \in [Tasks -> Stages]
        /\ stage[t] \in {"send", "backoff"} /\ stage'[t] \in {"send", "backoff", "body", "pipe"}
        /\ \A u \in Tasks \ {t} : stage'[u] = stage[u]
    BY <1>3 DEF RetryStatus, RetryConnect, SendAgain, Respond, Stages
  <1>5. /\ attempt' \in [Tasks -> 0 .. Total]
        /\ \A u \in Tasks \ {t} : attempt'[u] = attempt[u]
        /\ stage'[t] = "backoff" => attempt'[t] < Total
    <2>1. CASE RetryStatus(t) \/ RetryConnect(t) \/ Respond(t)
      BY <1>3, <2>1 DEF RetryStatus, RetryConnect, Respond, MayRetry
    <2>2. CASE SendAgain(t)
      <3>1. attempt[t] + 1 \in 0 .. Total
        BY <1>3, <2>2, TotalIsPositive DEF SendAgain, IInv, TryLeft
      <3>2. attempt' = [attempt EXCEPT ![t] = attempt[t] + 1] /\ stage'[t] = "send"
        BY <1>3, <2>2 DEF SendAgain
      <3> QED  BY <1>3, <3>1, <3>2
    <2> QED  BY <2>1, <2>2
  <1>6. lastStatus' \in [Tasks -> BOOLEAN] /\ kind' = kind
    BY <1>3 DEF RetryStatus, RetryConnect, SendAgain, Respond
  <1>7. /\ resp' \in [Tasks -> {"none", "good", "unavailable"}]
        /\ \A u \in Tasks \ {t} : resp'[u] = resp[u]
        /\ resp'[t] # "none" => stage'[t] \in {"body", "pipe"}
    <2>1. CASE RetryStatus(t) \/ RetryConnect(t) \/ SendAgain(t)
      BY <1>3, <1>4, <2>1 DEF RetryStatus, RetryConnect, SendAgain, IInv, ResponsesClosed
    <2>2. CASE Respond(t)
      BY <1>3, <2>2 DEF Respond
    <2> QED  BY <2>1, <2>2
  <1>8. ReqTypes'
    BY <1>1, <1>4, <1>5, <1>6, <1>7 DEF IInv, ReqTypes
  <1>9. \A u \in Tasks : Serving(u)' <=> Serving(u)
    BY <1>4 DEF Serving
  <1>10. Apart' /\ TryLeft' /\ ResponsesClosed'
    BY <1>2, <1>4, <1>5, <1>7, <1>9 DEF IInv, Apart, TryLeft, ResponsesClosed
  <1> QED  BY <1>1, <1>2, <1>8, <1>9, <1>10 DEF IInv

(* A request that ends gives its slot back or leaves the gate alone        *)
LEMMA EndsWithGate ==
  ASSUME NEW t \in Tasks, Fail(t) \/ FinishBody(t) \/ FinishPipe(t)
  PROVE  EndRequest(t) /\ (Gate!Release(t) \/ UNCHANGED gateVars)
  BY DEF Fail, FinishBody, FinishPipe, GiveSlotBack, GiveSlotBackFromBody

LEMMA NextKeeps == IInv /\ [Next]_vars => IInv'
  <1> SUFFICES ASSUME IInv, [Next]_vars PROVE IInv'
    OBVIOUS
  <1>1. CASE UNCHANGED vars
    <2>1. GateProved!IInv'
      <3>1. UNCHANGED GateProved!vars
        BY <1>1 DEF vars, gateVars, GateProved!vars
      <3> QED  BY <3>1, GateConstants, GateProved!NextInductive DEF IInv
    <2> QED  BY <1>1, <2>1
            DEF vars, gateVars, reqVars, IInv, ReqTypes, Apart, TryLeft, ResponsesClosed, Serving
  <1>2. ASSUME NEW t \in Tasks, Fail(t) \/ FinishBody(t) \/ FinishPipe(t)
        PROVE  IInv'
    BY <1>2, EndsWithGate, EndKeeps
  <1> QED  BY <1>1, <1>2, EnterKeeps, WaitKeeps, InheritKeeps, SendingKeeps DEF Next

LEMMA InitHolds == Init => IInv
  <1> SUFFICES ASSUME Init PROVE IInv
    OBVIOUS
  <1>1. GateProved!IInv
    BY GateInit DEF Init
  <1>2. stage \in [Tasks -> Stages] /\ kind \in [Tasks -> Kinds]
    BY DEF Init, Stages, Kinds
  <1>3. attempt \in [Tasks -> 0 .. Total]
    BY TotalIsPositive DEF Init
  <1>4. lastStatus \in [Tasks -> BOOLEAN] /\ early \in BOOLEAN
    BY DEF Init
  <1>5. resp \in [Tasks -> {"none", "good", "unavailable"}]
    BY DEF Init
  <1>6. ReqTypes
    BY <1>2, <1>3, <1>4, <1>5 DEF ReqTypes
  <1>7. Apart /\ TryLeft /\ ResponsesClosed
    BY DEF Init, Apart, TryLeft, ResponsesClosed, Serving
  <1> QED  BY <1>1, <1>6, <1>7 DEF IInv

LEMMA Invariance == Spec => []IInv
  BY InitHolds, NextKeeps, PTL DEF Spec

(* Across admission, retries and every exit each slot is in its semaphore  *)
(* or has one owner (a request, or a task that has ended: it is not said   *)
(* that it ever comes back), and no response of the engine is left open,   *)
(* whichever task iterates the body.                                       *)
THEOREM AccountsAlwaysBalance == Spec => []AccountsBalance
  <1>1. IInv => AccountsBalance
    BY GateFacts DEF IInv, ReqTypes, TypeOK, AccountsBalance
  <1> QED  BY <1>1, Invariance, PTL

-----------------------------------------------------------------------------
(* The slot and the request.                                               *)

(* With nobody holding a slot or in acquire() there is a ticket            *)
LEMMA TicketWhenNobodyHolds ==
  ASSUME IInv, G0Cap + G1Cap > 0,
         \A u \in Tasks : holders[u] = Gate!NoLayer /\ acq[u] = "idle"
  PROVE  ~Gate!NoTicket
  <1>1. \A u \in Tasks : holders[u] = GateProved!NoLayer /\ acq[u] = "idle"
    BY DEF Gate!NoLayer, GateProved!NoLayer
  <1>2. ~GateProved!NoTicket
    BY <1>1, GateConstants, GateProved!TicketWhenNobodyHolds DEF IInv
  <1> QED
    BY <1>2 DEF Gate!NoTicket, Gate!HasTicket, Gate!Layers,
                GateProved!NoTicket, GateProved!HasTicket, GateProved!Layers

LEMMA WorkStaysBounded ==
  ASSUME IInv, WorkIsBounded, [Next]_vars, G0Cap + G1Cap > 0
  PROVE  WorkIsBounded'
  <1>1. /\ holders \in [Tasks -> Gate!Layers \cup {Gate!NoLayer}]
        /\ stage \in [Tasks -> Stages] /\ acq \in [Tasks -> Gate!AcqStates]
    BY GateFacts DEF IInv, ReqTypes, Gate!TypeOK
  <1>2. \A l \in Gate!Layers : l # Gate!NoLayer
    BY DEF Gate!Layers, Gate!NoLayer
  <1>3. CASE UNCHANGED vars
    BY <1>3 DEF vars, gateVars, reqVars, WorkIsBounded, Serving, Gate!NoLayer
  <1>4. ASSUME NEW t \in Tasks, EnterHeld(t)
        PROVE  WorkIsBounded'
    <2>1. ~early /\ early' = early /\ stage' = [stage EXCEPT ![t] = "send"]
      BY <1>4 DEF EnterHeld, StartSending
    <2>2. PICK l \in Gate!Layers : holders' = [holders EXCEPT ![t] = l]
      BY <1>4, SlotsOfOthers DEF EnterHeld, IInv
    <2> QED  BY <1>1, <1>2, <2>1, <2>2 DEF WorkIsBounded, Serving, Gate!NoLayer
  <1>5. ASSUME NEW t \in Tasks, EnterEarly(t)
        PROVE  WorkIsBounded'
    BY <1>5 DEF EnterEarly, StartSending, gateVars, WorkIsBounded, Gate!NoLayer
  <1>6. ASSUME NEW t \in Tasks, WaitOrBeRefused(t)
        PROVE  WorkIsBounded'
    <2>1. ~early
      <3> SUFFICES ASSUME early PROVE FALSE
        OBVIOUS
      <3>1. \A u \in Tasks : holders[u] = Gate!NoLayer /\ acq[u] = "idle"
        BY DEF WorkIsBounded
      <3> QED  BY <1>6, <3>1, TicketWhenNobodyHolds DEF WaitOrBeRefused
    <2>2. holders' = holders /\ UNCHANGED <<early, stage>>
      BY <1>6, SlotsOfOthers DEF WaitOrBeRefused, IInv
    <2> QED  BY <2>1, <2>2 DEF WorkIsBounded, Serving, Gate!NoLayer
  <1>7. ASSUME NEW t \in Tasks, WaitOn(t)
        PROVE  WorkIsBounded'
    <2>1. holders' = holders /\ UNCHANGED <<early, stage>>
      BY <1>7, SlotsOfOthers DEF WaitOn, reqVars, IInv
    <2>2. \A u \in Tasks : acq[u] = "idle" => acq'[u] = "idle"
      BY <1>7, OthersStayOut DEF WaitOn, IInv
    <2> QED  BY <2>1, <2>2 DEF WorkIsBounded, Serving, Gate!NoLayer
  <1>8. ASSUME NEW t \in Tasks, Inherit(t)
        PROVE  WorkIsBounded'
    <2>1. /\ acq[t] = "granted" /\ grant[t] # Gate!NoLayer
          /\ holders' = [holders EXCEPT ![t] = grant[t]]
      BY <1>8, InheritGivesSlot DEF Inherit, IInv
    <2>2. ~early
      BY <2>1 DEF WorkIsBounded
    <2>3. early' = early /\ stage' = [stage EXCEPT ![t] = "send"]
      BY <1>8 DEF Inherit, StartSending
    <2> QED  BY <1>1, <2>1, <2>2, <2>3 DEF WorkIsBounded, Serving, Gate!NoLayer
  <1>9. ASSUME NEW t \in Tasks,
               RetryStatus(t) \/ RetryConnect(t) \/ SendAgain(t) \/ Respond(t)
        PROVE  WorkIsBounded'
    <2>1. UNCHANGED <<gateVars, early>> /\ \A u \in Tasks : Serving(u)' <=> Serving(u)
      BY <1>9, SendingKeeps
    <2> QED  BY <2>1 DEF WorkIsBounded, gateVars, Gate!NoLayer
  <1>10. ASSUME NEW t \in Tasks, Fail(t) \/ FinishBody(t) \/ FinishPipe(t)
         PROVE  WorkIsBounded'
    <2>1. /\ Serving(t) /\ (GiveSlotBack(t) \/ UNCHANGED gateVars)
          /\ stage' = [stage EXCEPT ![t] = "idle"] /\ early' = early
      BY <1>10 DEF Fail, FinishBody, FinishPipe, GiveSlotBackFromBody, EndRequest, Serving
    <2>2. CASE early \/ UNCHANGED gateVars
      <3>1. UNCHANGED <<holders, acq>>
        BY <2>1, <2>2 DEF GiveSlotBack, gateVars
      <3> QED  BY <1>1, <2>1, <3>1 DEF WorkIsBounded, Serving, Gate!NoLayer
    <2>3. CASE ~early /\ ~UNCHANGED gateVars
      <3>1. Gate!Release(t)
        BY <2>1, <2>3 DEF GiveSlotBack
      <3>2. holders' = [holders EXCEPT ![t] = Gate!NoLayer]
        BY <3>1, SlotsOfOthers DEF IInv
      <3> QED  BY <1>1, <2>1, <2>3, <3>2 DEF WorkIsBounded, Serving, Gate!NoLayer
    <2> QED  BY <2>2, <2>3
  <1> QED  BY <1>3, <1>4, <1>5, <1>6, <1>7, <1>8, <1>9, <1>10 DEF Next

LEMMA SlotIsLeft ==
  ASSUME IInv, WorkIsBounded, [Next]_vars, NEW t \in Tasks
  PROVE  LeavesSlot(t)
  <1> SUFFICES ASSUME Serving(t), ~Serving(t)', ~(StreamInChildTask /\ stage[t] = "pipe")
               PROVE  holders'[t] = Gate!NoLayer
    BY DEF LeavesSlot
  <1>1. /\ holders \in [Tasks -> Gate!Layers \cup {Gate!NoLayer}]
        /\ stage \in [Tasks -> Stages]
    BY GateFacts DEF IInv, ReqTypes, Gate!TypeOK
  <1>2. stage[t] # "idle" /\ stage'[t] = "idle"
    BY DEF Serving
  <1>3. Fail(t) \/ FinishBody(t) \/ FinishPipe(t)
    BY <1>1, <1>2 DEF Next, vars, reqVars, EnterHeld, EnterEarly, WaitOrBeRefused, WaitOn,
       Inherit, StartSending, RetryStatus, RetryConnect, SendAgain, Respond, Fail,
       FinishBody, FinishPipe, EndRequest
  <1>4. GiveSlotBack(t)
    BY <1>3 DEF Fail, FinishBody, FinishPipe, GiveSlotBackFromBody
  <1>5. CASE early \/ holders[t] = Gate!NoLayer
    BY <1>4, <1>5 DEF GiveSlotBack, gateVars, WorkIsBounded
  <1>6. CASE ~(early \/ holders[t] = Gate!NoLayer)
    <2>1. Gate!Release(t)
      BY <1>4, <1>6 DEF GiveSlotBack
    <2>2. holders' = [holders EXCEPT ![t] = Gate!NoLayer]
      BY <2>1, SlotsOfOthers DEF IInv
    <2> QED  BY <1>1, <2>2
  <1> QED  BY <1>5, <1>6

(* Only a request gets a slot                                              *)
LEMMA SlotIsTaken ==
  ASSUME IInv, [Next]_vars, NEW t \in Tasks,
         holders[t] = Gate!NoLayer, holders'[t] # Gate!NoLayer
  PROVE  Serving(t)'
  <1>1. /\ holders \in [Tasks -> Gate!Layers \cup {Gate!NoLayer}]
        /\ stage \in [Tasks -> Stages]
    BY GateFacts DEF IInv, ReqTypes, Gate!TypeOK
  <1>2. ASSUME NEW u \in Tasks, EnterHeld(u)
        PROVE  Serving(t)'
    <2>1. PICK l \in Gate!Layers : holders' = [holders EXCEPT ![u] = l]
      BY <1>2, SlotsOfOthers DEF EnterHeld, IInv
    <2> QED  BY <1>1, <1>2, <2>1 DEF EnterHeld, StartSending, Serving, Gate!NoLayer
  <1>3. ASSUME NEW u \in Tasks, Inherit(u)
        PROVE  Serving(t)'
    <2>1. holders' = [holders EXCEPT ![u] = grant[u]]
      BY <1>3, InheritGivesSlot DEF Inherit, IInv
    <2> QED  BY <1>1, <1>3, <2>1 DEF Inherit, StartSending, Serving, Gate!NoLayer
  <1>4. ASSUME NEW u \in Tasks, WaitOrBeRefused(u) \/ WaitOn(u)
        PROVE  FALSE
    <2>1. holders' = holders
      BY <1>4, SlotsOfOthers DEF WaitOrBeRefused, WaitOn, IInv
    <2> QED  BY <2>1 DEF Gate!NoLayer
  <1>5. ASSUME NEW u \in Tasks, Fail(u) \/ FinishBody(u) \/ FinishPipe(u)
        PROVE  FALSE
    <2>1. holders' = holders \/ holders' = [holders EXCEPT ![u] = Gate!NoLayer]
      BY <1>5, EndsWithGate, SlotsOfOthers DEF gateVars, IInv
    <2> QED  BY <1>1, <2>1 DEF Gate!NoLayer
  <1>6. ASSUME NEW u \in Tasks,
               \/ EnterEarly(u) \/ RetryStatus(u) \/ RetryConnect(u) \/ SendAgain(u) \/ Respond(u)
        PROVE  FALSE
    BY <1>6 DEF EnterEarly, RetryStatus, RetryConnect, SendAgain, Respond, gateVars, Gate!NoLayer
  <1>7. CASE UNCHANGED vars
    BY <1>7 DEF vars, gateVars, Gate!NoLayer
  <1> QED  BY <1>2, <1>3, <1>4, <1>5, <1>6, <1>7 DEF Next

LEMMA BoundedAlways ==
  ASSUME G0Cap + G1Cap > 0
  PROVE  Spec => [](IInv /\ WorkIsBounded)
  <1>1. Init => WorkIsBounded
    BY DEF Init, Gate!Init, WorkIsBounded, Serving
  <1>2. IInv /\ WorkIsBounded /\ [Next]_vars => WorkIsBounded'
    BY WorkStaysBounded
  <1> QED  BY <1>1, <1>2, Invariance, PTL DEF Spec

(* Whichever task iterates a streamed body, and where there is a slot at   *)
(* all: in held mode no request is worked on without a slot, so never more *)
(* than the gate's capacity, in early mode nobody ever waits, and a request *)
(* leaves its slot behind on every way out but one, a body that another    *)
(* task iterated.                                                          *)
THEOREM SlotsFollowRequests ==
  ASSUME G0Cap + G1Cap > 0
  PROVE  Spec => SlotWhileServing
  <1>1. IInv /\ WorkIsBounded /\ [Next]_vars => [\A t \in Tasks : LeavesSlot(t)]_vars
    BY SlotIsLeft
  <1>2. ASSUME [][Next]_vars, [](IInv /\ WorkIsBounded)
        PROVE  [][\A t \in Tasks : LeavesSlot(t)]_vars
    BY <1>1, <1>2, PTL
  <1> QED  BY <1>1, BoundedAlways, PTL DEF Spec, SlotWhileServing

(* Where it is the request's own task that iterates the body, every slot   *)
(* comes back: who owns one has a request under way.  (Under uvicorn this  *)
(* hypothesis fails, and so does the conclusion.)                          *)
THEOREM SlotsComeBack ==
  ASSUME ~StreamInChildTask, G0Cap + G1Cap > 0
  PROVE  Spec => []SlotComesBack
  <1>1. Init => SlotComesBack
    BY DEF Init, Gate!Init, SlotComesBack
  <1>2. IInv /\ WorkIsBounded /\ SlotComesBack /\ [Next]_vars => SlotComesBack'
    <2> SUFFICES ASSUME IInv, WorkIsBounded, SlotComesBack, [Next]_vars, NEW t \in Tasks,
                        holders'[t] # Gate!NoLayer, ~Serving(t)'
                 PROVE  FALSE
      BY DEF SlotComesBack, Gate!NoLayer
    <2>1. ~Serving(t)
      BY SlotIsLeft DEF LeavesSlot
    <2>2. holders[t] = Gate!NoLayer
      BY <2>1 DEF SlotComesBack
    <2> QED  BY <2>1, <2>2, SlotIsTaken
  <1> QED  BY <1>1, <1>2, BoundedAlways, PTL DEF Spec
-----------------------------------------------------------------------------
(* The gate's promises.                                                    *)

LEMMA EveryStepIsOfTheGate == [Next]_vars => [GateProved!Next]_(GateProved!vars)
  <1> SUFFICES ASSUME [Next]_vars
               PROVE  GateProved!Next \/ UNCHANGED gateVars
    BY DEF gateVars, GateProved!vars
  <1>1. CASE UNCHANGED vars
    BY <1>1 DEF vars
  <1>2. ASSUME NEW t \in Tasks, GateStep(t)
        PROVE  GateProved!Next
    BY <1>2, SameActions DEF GateStep, GateProved!Next
  <1>3. ASSUME NEW t \in Tasks, EnterHeld(t) \/ WaitOrBeRefused(t) \/ WaitOn(t) \/ Inherit(t)
        PROVE  GateStep(t)
    BY <1>3 DEF EnterHeld, WaitOrBeRefused, WaitOn, Inherit, GateStep, Gate!Acquire
  <1>4. ASSUME NEW t \in Tasks,
               \/ EnterEarly(t) \/ RetryStatus(t) \/ RetryConnect(t)
               \/ SendAgain(t) \/ Respond(t)
        PROVE  UNCHANGED gateVars
    BY <1>4 DEF EnterEarly, RetryStatus, RetryConnect, SendAgain, Respond
  <1>5. ASSUME NEW t \in Tasks, Fail(t) \/ FinishBody(t) \/ FinishPipe(t)
        PROVE  GateStep(t) \/ UNCHANGED gateVars
    BY <1>5, EndsWithGate DEF GateStep
  <1> QED  BY <1>1, <1>2, <1>3, <1>4, <1>5 DEF Next

(* The gateway calls the gate only as the gate expects: what a request does *)
(* to it, from the admission over every exit, is what QueueGate allows, and *)
(* the slot that early mode takes and gives back at once is not to be seen. *)
THEOREM GatewayUsesGate == Spec => GateProved!Spec
  <1>1. Init => GateProved!Init
    BY DEF Init, Gate!Init, GateProved!Init, Gate!Settings, GateProved!Settings, Gate!Cap,
       GateProved!Cap, Gate!Layers, GateProved!Layers, Gate!NoLayer, GateProved!NoLayer
  <1> QED  BY <1>1, EveryStepIsOfTheGate, PTL DEF Spec, GateProved!Spec

(* So what holds of the gate holds for the requests of the proxy: slots are *)
(* those of a pool, and waiters get them in their turn.                     *)
THEOREM GatewayKeepsPromises ==
  Spec => /\ GateProved!ImplementsPool
          /\ GateProved!ServedInTurn
          /\ GateProved!NoBarging
          /\ []GateProved!NoStrandedWaiter
          /\ []GateProved!BlockedOnlyWhileFull
  <1>1. /\ GateProved!Spec => GateProved!ImplementsPool
        /\ GateProved!Spec => GateProved!ServedInTurn
        /\ GateProved!Spec => GateProved!NoBarging
        /\ GateProved!Spec => []GateProved!NoStrandedWaiter
        /\ GateProved!Spec => []GateProved!BlockedOnlyWhileFull
    BY GateConstants, GateProved!GateImplementsPool, GateProved!FirstComeFirstServed,
       GateProved!NeverBarged, GateProved!NeverStranded, GateProved!NoWakeupLost
  <1> QED  BY <1>1, GatewayUsesGate, PTL
-----------------------------------------------------------------------------
(* Why a request comes to an end.                                          *)

(* The most steps a request has before it, once it is past the gate        *)
StepsLeft(t) ==
  CASE stage[t] = "send"    -> 2 * (Total - attempt[t]) + 2
    [] stage[t] = "backoff" -> 2 * (Total - attempt[t]) + 1
    [] stage[t] = "idle"    -> 0
    [] OTHER                -> 1

(* Between its admission and its end                                       *)
OnlyNearer(t) ==
  Serving(t) => StepsLeft(t)' < StepsLeft(t) \/ UNCHANGED <<stage[t], attempt[t], resp[t]>>

LEMMA RequestsGetNearer ==
  ASSUME IInv, [Next]_vars, NEW t \in Tasks
  PROVE  OnlyNearer(t)
  <1>1. /\ stage \in [Tasks -> Stages] /\ attempt \in [Tasks -> 0 .. Total]
        /\ resp \in [Tasks -> {"none", "good", "unavailable"}]
        /\ Total \in Nat \ {0}
        /\ stage[t] = "backoff" => attempt[t] < Total
    BY TotalIsPositive DEF IInv, ReqTypes, TryLeft
  <1>2. CASE UNCHANGED vars
    BY <1>2 DEF vars, reqVars, OnlyNearer
  <1>3. ASSUME NEW u \in Tasks,
               \/ EnterHeld(u) \/ EnterEarly(u) \/ WaitOrBeRefused(u) \/ WaitOn(u)
        PROVE  OnlyNearer(t)
    BY <1>1, <1>3 DEF EnterHeld, EnterEarly, WaitOrBeRefused, WaitOn, reqVars, Arrives,
                      StartSending, Serving, OnlyNearer
  <1>4. ASSUME NEW u \in Tasks, Inherit(u)
        PROVE  OnlyNearer(t)
    <2>1. acq[u] = "granted"
      BY <1>4, InheritGivesSlot DEF Inherit, IInv
    <2>2. ~Serving(u)
      BY <2>1 DEF IInv, Apart
    <2> QED  BY <1>1, <1>4, <2>2 DEF Inherit, StartSending, Serving, OnlyNearer
  <1>5. ASSUME NEW u \in Tasks,
               \/ RetryStatus(u) \/ RetryConnect(u) \/ SendAgain(u) \/ Respond(u)
               \/ Fail(u) \/ FinishBody(u) \/ FinishPipe(u)
        PROVE  OnlyNearer(t)
    <2>1. CASE u # t
      BY <1>1, <1>5, <2>1 DEF RetryStatus, RetryConnect, SendAgain, Respond, Fail, FinishBody,
                              FinishPipe, EndRequest, OnlyNearer
    <2>2. CASE u = t /\ (RetryStatus(t) \/ RetryConnect(t))
      BY <1>1, <2>2 DEF RetryStatus, RetryConnect, StepsLeft, OnlyNearer
    <2>3. CASE u = t /\ SendAgain(t)
      <3>1. attempt'[t] = attempt[t] + 1 /\ stage'[t] = "send" /\ stage[t] = "backoff"
        BY <1>1, <2>3 DEF SendAgain
      <3> QED  BY <1>1, <3>1 DEF StepsLeft, OnlyNearer
    <2>4. CASE u = t /\ Respond(t)
      <3>1. stage[t] = "send" /\ stage'[t] \in {"body", "pipe"}
        BY <1>1, <2>4 DEF Respond
      <3> QED  BY <1>1, <3>1 DEF StepsLeft, OnlyNearer
    <2>5. CASE u = t /\ (Fail(t) \/ FinishBody(t) \/ FinishPipe(t))
      <3>1. stage[t] \in {"send", "body", "pipe"} /\ stage'[t] = "idle"
        BY <1>1, <2>5 DEF Fail, FinishBody, FinishPipe, EndRequest
      <3> QED  BY <1>1, <3>1 DEF StepsLeft, OnlyNearer
    <2> QED  BY <1>5, <2>1, <2>2, <2>3, <2>4, <2>5
  <1> QED  BY <1>2, <1>3, <1>4, <1>5 DEF Next

(* No request is tried again for ever: from its admission on, each of its   *)
(* own steps lowers a natural number, and no other request's step raises it. *)
THEOREM RequestsRunOut ==
  Spec => /\ [](\A t \in Tasks : StepsLeft(t) \in Nat)
          /\ [][\A t \in Tasks : OnlyNearer(t)]_vars
  <1>1. IInv => \A t \in Tasks : StepsLeft(t) \in Nat
    BY TotalIsPositive DEF IInv, ReqTypes, Stages, StepsLeft
  <1>2. IInv /\ [Next]_vars => [\A t \in Tasks : OnlyNearer(t)]_vars
    BY RequestsGetNearer
  <1> QED  BY <1>1, <1>2, Invariance, PTL DEF Spec
=============================================================================
