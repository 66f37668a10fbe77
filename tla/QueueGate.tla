----------------------------- MODULE QueueGate ------------------------------
(***************************************************************************)
(* proxy/queueing.py: the two-gate FIFO admission controller of one proxy  *)
(* worker, with the asyncio.Queue, Semaphore and wait_for it is built on.  *)
(*                                                                         *)
(* One worker is one event loop, so a step of this module is everything a  *)
(* task does between two suspensions.  acquire() suspends in exactly two   *)
(* places: in asyncio.Queue.put while the queue is full, and in wait_for   *)
(* until the waiter's future resolves or QUEUE_TIMEOUT expires.  release() *)
(* never suspends: it calls Queue.get only when the queue is not empty.    *)
(* The order in which the loop runs tasks that are ready is left open.     *)
(*                                                                         *)
(* An entry of the queue is the task whose Waiter it is while the Waiter's *)
(* future is pending, and Dead once that future is done (timed out).       *)
(***************************************************************************)
EXTENDS Naturals, Sequences, FiniteSets

CONSTANTS
  Tasks,         (* the asyncio tasks that serve requests, by id(task)     *)
  G0Cap,         (* GATE0_LOCAL_CAP                                        *)
  G1Cap,         (* GATE1_LOCAL_CAP                                        *)
  MaxQs,         (* LOCAL_QUEUE_MAXSIZE, the values considered; 0 disables *)
                 (* the queue                                              *)
  Policies,      (* QUEUE_REJECT_POLICY: "drop_oldest" and others          *)
  Overflows,     (* QUEUE_OVERFLOW_MODE: "block" and others                *)
  Dead           (* a queue entry whose future is done                     *)

ASSUME QueueGateAssumption ==
  /\ IsFiniteSet(Tasks)
  /\ G0Cap \in Nat
  /\ G1Cap \in Nat
  /\ MaxQs \subseteq Nat
  /\ Dead \notin Tasks

Layers  == {"g0", "g1"}
NoLayer == "none"
Cap     == [l \in Layers |-> IF l = "g0" THEN G0Cap ELSE G1Cap]

VARIABLES
  conf,     (* the settings, read from the environment at start            *)
  acq,      (* acq[t]: where t is in acquire(): "idle" (not in it),        *)
            (* "blocked" in put, "woken" from it but not run yet, "queued" *)
            (* in wait_for, "granted" (future resolved, not run yet) or    *)
            (* "refused" (503, the response not finished yet)              *)
  grant,    (* grant[t]: the layer t's future resolved to, until t runs    *)
  q,        (* self.q                                                      *)
  putters,  (* self.q._putters: the tasks blocked in put                   *)
  permits,  (* permits[l]: the value of the semaphore of layer l           *)
  holders   (* self._holders: holders[t] is NoLayer when t is no key of it *)

vars == <<conf, acq, grant, q, putters, permits, holders>>

Settings == [maxq : MaxQs, policy : Policies, overflow : Overflows]

MaxQ       == conf.maxq
DropOldest == conf.policy = "drop_oldest"
BlockMode  == conf.overflow = "block"

AcqStates == {"idle", "blocked", "woken", "queued", "granted", "refused"}

TypeOK ==
  /\ conf \in Settings
  /\ acq \in [Tasks -> AcqStates]
  /\ grant \in [Tasks -> Layers \cup {NoLayer}]
  /\ q \in Seq(Tasks \cup {Dead})
  /\ Len(q) <= MaxQ
  /\ putters \in Seq(Tasks)
  /\ permits \in [Layers -> Nat]
  /\ holders \in [Tasks -> Layers \cup {NoLayer}]

Init ==
  /\ conf \in Settings
  /\ acq = [t \in Tasks |-> "idle"]
  /\ grant = [t \in Tasks |-> NoLayer]
  /\ q = <<>>
  /\ putters = <<>>
  /\ permits = Cap
  /\ holders = [t \in Tasks |-> NoLayer]

-----------------------------------------------------------------------------
(* Taking entries from the head of the queue.  Every Queue.get wakes one   *)
(* blocked put, which runs later and finds the queue as it is by then.     *)

LiveAt == {i \in DOMAIN q : q[i] # Dead}

(* Mutant: the queue is served from the wrong end.                         *)
FirstLiveLifo == CHOOSE i \in LiveAt : \A j \in LiveAt : j <= i

FirstLive == CHOOSE i \in LiveAt : \A j \in LiveAt : i <= j

(* What the loops of release() and _handle_queue_full() take out: up to    *)
(* and including the first live waiter, everything when there is none.     *)
PopCount == IF LiveAt = {} THEN Len(q) ELSE FirstLive

DropFirst(s, n) == SubSeq(s, n + 1, Len(s))

WokenBy(n) == {putters[i] : i \in {j \in DOMAIN putters : j <= n}}

(* acq0 is acq with what else the step does to it.                         *)
Woken(acq0, n) ==
  [t \in Tasks |-> IF t \in WokenBy(n) THEN "woken" ELSE acq0[t]]

PopQueue(n) ==
  /\ q' = DropFirst(q, n)
  /\ putters' = DropFirst(putters, n)

-----------------------------------------------------------------------------
(* acquire()                                                               *)

HasTicket(l) == permits[l] > 0

(* A task calls acquire() once per request, and not while it holds a slot. *)
Calls(t) == acq[t] = "idle" /\ holders[t] = NoLayer

NoTicket == \A l \in Layers : ~HasTicket(l)

(* Mutant: the ticket is not taken from the semaphore.                     *)
AcquireWithoutTicket(t) ==
  /\ Calls(t)
  /\ \E l \in Layers :
       /\ HasTicket(l)
       /\ holders' = [holders EXCEPT ![t] = l]
  /\ UNCHANGED <<conf, acq, grant, q, putters, permits>>

(* Gate-0 first, Gate-1 if Gate-0 has no ticket.                           *)
AcquireDirect(t) ==
  /\ Calls(t)
  /\ \E l \in Layers :
       /\ HasTicket(l)
       /\ l = "g1" => ~HasTicket("g0")
       /\ permits' = [permits EXCEPT ![l] = @ - 1]
       /\ holders' = [holders EXCEPT ![t] = l]
  /\ UNCHANGED <<conf, acq, grant, q, putters>>

(* No ticket and no queue, or the queue full and nothing gives room: 503.  *)
RefuseDisabled(t) ==
  /\ Calls(t)
  /\ NoTicket
  /\ MaxQ = 0
  /\ acq' = [acq EXCEPT ![t] = "refused"]
  /\ UNCHANGED <<conf, grant, q, putters, permits, holders>>

RefuseFull(t) ==
  /\ Calls(t)
  /\ NoTicket
  /\ MaxQ > 0
  /\ Len(q) >= MaxQ
  /\ ~BlockMode
  /\ \/ /\ ~DropOldest
        /\ acq' = [acq EXCEPT ![t] = "refused"]
        /\ UNCHANGED <<q, putters>>
     \/ /\ DropOldest
        /\ LiveAt = {}
        /\ PopQueue(PopCount)
        /\ acq' = Woken([acq EXCEPT ![t] = "refused"], PopCount)
  /\ UNCHANGED <<conf, grant, permits, holders>>

(* Mutant: a request queues up without trying the gates.                   *)
EnqueueUntried(t) ==
  /\ Calls(t)
  /\ Len(q) < MaxQ
  /\ q' = Append(q, t)
  /\ acq' = [acq EXCEPT ![t] = "queued"]
  /\ UNCHANGED <<conf, grant, putters, permits, holders>>

(* The queue has room: put does not suspend.                               *)
Enqueue(t) ==
  /\ Calls(t)
  /\ NoTicket
  /\ Len(q) < MaxQ
  /\ q' = Append(q, t)
  /\ acq' = [acq EXCEPT ![t] = "queued"]
  /\ UNCHANGED <<conf, grant, putters, permits, holders>>

(* The queue is full and drop_oldest makes room: the oldest live waiter's  *)
(* future gets the 503, and the newcomer is put in the same step.          *)
EnqueueDropping(t) ==
  /\ Calls(t)
  /\ NoTicket
  /\ MaxQ > 0
  /\ Len(q) >= MaxQ
  /\ DropOldest
  /\ LiveAt # {} \/ BlockMode
  /\ LET dropped == IF LiveAt = {} THEN {} ELSE {q[FirstLive]}
     IN acq' = Woken([u \in Tasks |-> IF u = t THEN "queued"
                                      ELSE IF u \in dropped THEN "refused"
                                      ELSE acq[u]], PopCount)
  /\ q' = Append(DropFirst(q, PopCount), t)
  /\ putters' = DropFirst(putters, PopCount)
  /\ UNCHANGED <<conf, grant, permits, holders>>

(* The queue is full and the newcomer waits in put, which has no timeout.  *)
BlockInPut(t) ==
  /\ Calls(t)
  /\ NoTicket
  /\ MaxQ > 0
  /\ Len(q) >= MaxQ
  /\ BlockMode
  /\ ~DropOldest
  /\ putters' = Append(putters, t)
  /\ acq' = [acq EXCEPT ![t] = "blocked"]
  /\ UNCHANGED <<conf, grant, q, permits, holders>>

(* A task woken from put tries again, at the end of the line if it fails.  *)
ResumePut(t) ==
  /\ acq[t] = "woken"
  /\ \/ /\ Len(q) < MaxQ
        /\ q' = Append(q, t)
        /\ acq' = [acq EXCEPT ![t] = "queued"]
        /\ UNCHANGED putters
     \/ /\ Len(q) >= MaxQ
        /\ putters' = Append(putters, t)
        /\ acq' = [acq EXCEPT ![t] = "blocked"]
        /\ UNCHANGED q
  /\ UNCHANGED <<conf, grant, permits, holders>>

(* Mutant: a waiter whose timer expires goes to the end of the queue.      *)
TimeoutRequeues(t) ==
  /\ acq[t] = "queued"
  /\ q' = Append(SelectSeq(q, LAMBDA e : e # t), t)
  /\ UNCHANGED <<conf, acq, grant, putters, permits, holders>>

(* QUEUE_TIMEOUT expires in wait_for: the future is cancelled and its      *)
(* entry stays in the queue.                                               *)
Timeout(t) ==
  /\ acq[t] = "queued"
  /\ acq' = [acq EXCEPT ![t] = "refused"]
  /\ q' = [i \in DOMAIN q |-> IF q[i] = t THEN Dead ELSE q[i]]
  /\ UNCHANGED <<conf, grant, putters, permits, holders>>

(* The task whose future was resolved runs and records what it inherited;  *)
(* wait_for returns the result even when the timer expired meanwhile.      *)
InheritOccupy(t) ==
  /\ acq[t] = "granted"
  /\ holders' = [holders EXCEPT ![t] = grant[t]]
  /\ grant' = [grant EXCEPT ![t] = NoLayer]
  /\ acq' = [acq EXCEPT ![t] = "idle"]
  /\ UNCHANGED <<conf, q, putters, permits>>

(* The 503 response is sent and the task is free for another request.      *)
FinishRefused(t) ==
  /\ acq[t] = "refused"
  /\ acq' = [acq EXCEPT ![t] = "idle"]
  /\ UNCHANGED <<conf, grant, q, putters, permits, holders>>

-----------------------------------------------------------------------------
(* Mutant: no return after the handover, the semaphore is released too.    *)
ReleaseTwice(t) ==
  /\ holders[t] # NoLayer
  /\ holders' = [holders EXCEPT ![t] = NoLayer]
  /\ PopQueue(PopCount)
  /\ permits' = [permits EXCEPT ![holders[t]] = @ + 1]
  /\ IF LiveAt = {}
     THEN acq' = Woken(acq, PopCount) /\ UNCHANGED grant
     ELSE /\ grant' = [grant EXCEPT ![q[FirstLive]] = holders[t]]
          /\ acq' = Woken([acq EXCEPT ![q[FirstLive]] = "granted"], PopCount)
  /\ UNCHANGED conf

(* Mutant: only the entry at the head is looked at.                        *)
ReleaseHeadOnly(t) ==
  /\ holders[t] # NoLayer
  /\ holders' = [holders EXCEPT ![t] = NoLayer]
  /\ LET n == IF q = <<>> THEN 0 ELSE 1 IN
     /\ PopQueue(n)
     /\ IF n = 0 \/ q[n] = Dead
        THEN /\ permits' = [permits EXCEPT ![holders[t]] = @ + 1]
             /\ acq' = Woken(acq, n)
             /\ UNCHANGED grant
        ELSE /\ grant' = [grant EXCEPT ![q[n]] = holders[t]]
             /\ acq' = Woken([acq EXCEPT ![q[n]] = "granted"], n)
             /\ UNCHANGED permits
  /\ UNCHANGED conf

(* Mutant: the waiter taken out is not told.                               *)
ReleaseForgetsWaiter(t) ==
  /\ holders[t] # NoLayer
  /\ holders' = [holders EXCEPT ![t] = NoLayer]
  /\ PopQueue(PopCount)
  /\ permits' = [permits EXCEPT ![holders[t]] = @ + 1]
  /\ acq' = Woken(acq, PopCount)
  /\ UNCHANGED <<conf, grant>>

(* Mutant: timed out entries are cleared without Queue.get.                *)
ReleaseClearsDead(t) ==
  /\ holders[t] # NoLayer
  /\ holders' = [holders EXCEPT ![t] = NoLayer]
  /\ IF LiveAt = {}
     THEN /\ q' = <<>>
          /\ permits' = [permits EXCEPT ![holders[t]] = @ + 1]
          /\ UNCHANGED <<acq, grant, putters>>
     ELSE /\ PopQueue(PopCount)
          /\ grant' = [grant EXCEPT ![q[FirstLive]] = holders[t]]
          /\ acq' = Woken([acq EXCEPT ![q[FirstLive]] = "granted"], PopCount)
          /\ UNCHANGED permits
  /\ UNCHANGED conf

(* release(), called by a task that holds a slot: the slot goes to the     *)
(* first live waiter, or back to its semaphore.                            *)
Release(t) ==
  /\ holders[t] # NoLayer
  /\ holders' = [holders EXCEPT ![t] = NoLayer]
  /\ PopQueue(PopCount)
  /\ IF LiveAt = {}
     THEN /\ permits' = [permits EXCEPT ![holders[t]] = @ + 1]
          /\ acq' = Woken(acq, PopCount)
          /\ UNCHANGED grant
     ELSE /\ grant' = [grant EXCEPT ![q[FirstLive]] = holders[t]]
          /\ acq' = Woken([acq EXCEPT ![q[FirstLive]] = "granted"], PopCount)
          /\ UNCHANGED permits
  /\ UNCHANGED conf

-----------------------------------------------------------------------------
Acquire(t) ==
  \/ AcquireDirect(t)
  \/ RefuseDisabled(t)
  \/ RefuseFull(t)
  \/ Enqueue(t)
  \/ EnqueueDropping(t)
  \/ BlockInPut(t)

Next ==
  \E t \in Tasks :
    \/ Acquire(t)
    \/ ResumePut(t)
    \/ Timeout(t)
    \/ InheritOccupy(t)
    \/ FinishRefused(t)
    \/ Release(t)

Spec == Init /\ [][Next]_vars

(* What the event loop and the handlers owe: a task that is ready runs, a  *)
(* timer expires, a response ends, and a handler releases what it holds.   *)
(* Nothing says that another request ever comes.                           *)
Fairness ==
  \A t \in Tasks :
    /\ WF_vars(ResumePut(t))
    /\ WF_vars(Timeout(t))
    /\ WF_vars(InheritOccupy(t))
    /\ WF_vars(FinishRefused(t))
    /\ WF_vars(Release(t))

FairSpec == Spec /\ Fairness

-----------------------------------------------------------------------------
(* Properties.                                                             *)

(* The slot a task owns, whether it has run since it was handed it or not. *)
SlotOf(t)  == IF acq[t] = "granted" THEN grant[t] ELSE holders[t]
Owners(l)  == {t \in Tasks : SlotOf(t) = l}
Waiting(t) == acq[t] \in {"blocked", "woken", "queued"}

(* No slot is lost or made twice: at any moment the tickets left in a      *)
(* semaphore and the requests that own one of its slots add up to its      *)
(* capacity, across direct entry, handover, drop, timeout and release.     *)
SlotConservation ==
  \A l \in Layers : permits[l] + Cardinality(Owners(l)) = Cap[l]

(* No waiter is lost: a pending future is in the queue exactly once, a     *)
(* blocked put is among the putters exactly once, and neither structure    *)
(* names a task that has gone on.                                          *)
WaitersTracked ==
  /\ \A i \in DOMAIN q : q[i] # Dead => acq[q[i]] = "queued"
  /\ \A i, j \in DOMAIN q : i # j /\ q[i] # Dead => q[i] # q[j]
  /\ \A i \in DOMAIN putters : acq[putters[i]] = "blocked"
  /\ \A i, j \in DOMAIN putters : i # j => putters[i] # putters[j]
  /\ \A t \in Tasks :
       /\ acq[t] = "queued" => \E i \in DOMAIN q : q[i] = t
       /\ acq[t] = "blocked" => \E i \in DOMAIN putters : putters[i] = t

(* A future's result is there only until its task runs, and a task holds a *)
(* slot only outside acquire().                                            *)
OneStanding ==
  \A t \in Tasks :
    /\ grant[t] # NoLayer <=> acq[t] = "granted"
    /\ holders[t] # NoLayer => acq[t] = "idle"

(* Room is made for a newcomer, or it is refused, but put never suspends.  *)
PutNeverBlocks == DropOldest \/ ~BlockMode

(* "若均已满则进入队列等待": unless put blocks, a request waits only while    *)
(* both gates are full, so no ticket lies unused beside a waiter.          *)
NoStrandedWaiter ==
  PutNeverBlocks /\ (\E t \in Tasks : acq[t] = "queued") => NoTicket

(* No wakeup of a blocked put is lost: while one is blocked, the queue is  *)
(* full once the puts already woken have run.                              *)
BlockedOnlyWhileFull ==
  putters # <<>> =>
    Len(q) + Cardinality({t \in Tasks : acq[t] = "woken"}) >= MaxQ

(* Unless put blocks, a newcomer never takes a ticket while an earlier     *)
(* request still waits.                                                    *)
EntersDirectly(t) == Calls(t) /\ holders'[t] # NoLayer

NoBarging ==
  [][PutNeverBlocks /\ (\E t \in Tasks : EntersDirectly(t))
       => \A u \in Tasks : ~Waiting(u)]_vars

(* A slot goes to the live waiter at the head of the queue, and a waiter   *)
(* dropped for a newcomer is the one at the head: nobody behind another    *)
(* live waiter is taken out first.                                         *)
Newcomer(t) == Calls(t) /\ acq'[t] = "queued"

TakenOut(t) ==
  /\ acq[t] = "queued"
  /\ \/ acq'[t] = "granted"
     \/ acq'[t] = "refused" /\ \E u \in Tasks : Newcomer(u)

OldestFirst ==
  [][\A i, j \in DOMAIN q :
       i < j /\ q[i] # Dead /\ q[j] # Dead /\ TakenOut(q[j]) => TakenOut(q[i])]_vars

(* A newcomer is answered 503 only when every slot of both layers is owned *)
(* by some request.                                                        *)
TurnedAway(t) == Calls(t) /\ acq'[t] = "refused"

RefusedOnlyWhenBusy ==
  [][(\E t \in Tasks : TurnedAway(t)) =>
       \A l \in Layers : Cardinality(Owners(l)) = Cap[l]]_vars

(* Together: to wait pays, whoever is there first gets the slot first, and *)
(* nobody is sent away beside a free one.                                  *)
ServedInTurn == OldestFirst /\ RefusedOnlyWhenBusy

(* Unless put blocks, a request that waits is let in or refused, even if   *)
(* no other request ever comes.                                            *)
EventuallyAnswered ==
  \A t \in Tasks : PutNeverBlocks /\ Waiting(t) ~> ~Waiting(t)

(* "队列等待直到被唤醒或超时": a request that waits is let in or refused,     *)
(* whatever the settings.                                                  *)
AlwaysAnswered ==
  \A t \in Tasks : Waiting(t) ~> ~Waiting(t)

(* The gate implements the slot pool.                                      *)
Standing(t) ==
  IF holders[t] # NoLayer \/ acq[t] = "granted" THEN "in"
  ELSE IF Waiting(t) THEN "waiting"
  ELSE IF acq[t] = "refused" THEN "refused" ELSE "out"

Pool == INSTANCE SlotPool
          WITH standing <- [t \in Tasks |-> Standing(t)],
               slot     <- [t \in Tasks |-> SlotOf(t)]

ImplementsPool == Pool!PoolSpec
=============================================================================
