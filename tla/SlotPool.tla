------------------------------ MODULE SlotPool ------------------------------
(***************************************************************************)
(* What the proxy's admission gate promises to the request handlers, with  *)
(* no queue, no future and no semaphore in it: a fixed number of slots in  *)
(* two layers, every slot owned by at most one request, every request      *)
(* outside, waiting, inside with exactly one slot, or turned away.         *)
(*                                                                         *)
(* QueueGate implements this specification (QueueGate!ImplementsPool).       *)
(***************************************************************************)
EXTENDS Naturals, FiniteSets

CONSTANTS
  Tasks,     (* the asyncio tasks that serve requests              *)
  G0Cap,     (* slots of Gate-0                                    *)
  G1Cap      (* slots of Gate-1                                    *)

Layers  == {"g0", "g1"}
NoLayer == "none"
Cap     == [l \in Layers |-> IF l = "g0" THEN G0Cap ELSE G1Cap]

VARIABLES
  standing,  (* standing[t]: "out", "waiting", "in" or "refused"   *)
  slot       (* slot[t]: the layer of the slot t owns, or NoLayer  *)

poolVars == <<standing, slot>>

Owners(l) == {t \in Tasks : slot[t] = l}

PoolInit ==
  /\ standing = [t \in Tasks |-> "out"]
  /\ slot = [t \in Tasks |-> NoLayer]

(* A request comes in and is let in, made to wait, or turned away; making  *)
(* it wait may turn away one request that was waiting already.             *)
LetIn(t, l) ==
  /\ standing[t] = "out"
  /\ Cardinality(Owners(l)) < Cap[l]
  /\ standing' = [standing EXCEPT ![t] = "in"]
  /\ slot' = [slot EXCEPT ![t] = l]

MakeWait(t) ==
  /\ standing[t] = "out"
  /\ \/ standing' = [standing EXCEPT ![t] = "waiting"]
     \/ \E u \in Tasks :
          /\ standing[u] = "waiting"
          /\ standing' = [standing EXCEPT ![t] = "waiting", ![u] = "refused"]
  /\ UNCHANGED slot

Refuse(t) ==
  /\ standing[t] \in {"out", "waiting"}
  /\ standing' = [standing EXCEPT ![t] = "refused"]
  /\ UNCHANGED slot

(* The owner of a slot leaves: the slot is free again, or one waiting      *)
(* request has it from the same instant on.                                *)
Leave(t) ==
  /\ standing[t] = "in"
  /\ \/ /\ standing' = [standing EXCEPT ![t] = "out"]
        /\ slot' = [slot EXCEPT ![t] = NoLayer]
     \/ \E u \in Tasks :
          /\ standing[u] = "waiting"
          /\ standing' = [standing EXCEPT ![t] = "out", ![u] = "in"]
          /\ slot' = [slot EXCEPT ![t] = NoLayer, ![u] = slot[t]]

GoAway(t) ==
  /\ standing[t] = "refused"
  /\ standing' = [standing EXCEPT ![t] = "out"]
  /\ UNCHANGED slot

PoolNext ==
  \E t \in Tasks :
    \/ \E l \in Layers : LetIn(t, l)
    \/ MakeWait(t)
    \/ Refuse(t)
    \/ Leave(t)
    \/ GoAway(t)

PoolSpec == PoolInit /\ [][PoolNext]_poolVars

=============================================================================
