------------------------------ MODULE Registry ------------------------------
(***************************************************************************)
(* distributed/monitor.py and the worker's side of it in worker.py: how a  *)
(* worker registers with the master, keeps itself registered by heartbeats *)
(* and is removed when it is silent.                                       *)
(*                                                                         *)
(* A worker process is a node id of its own: after a restart it registers  *)
(* as another node.  Time counts in units of which the two intervals and   *)
(* one and a half CheckInterval are multiples (7.5 s); a thread whose wait *)
(* is over runs before the next unit begins.  A call arrives or not, and   *)
(* its answer arrives or not; the master's API thread being down for a     *)
(* while, or for good after five crashes, is calls that do not arrive.  A  *)
(* call is the instant at which it arrives or is given up; the time it     *)
(* takes before and after that instant is part of the waits.               *)
(***************************************************************************)
EXTENDS Integers, FiniteSets, Functions

CONSTANTS
  Workers,            (* the worker pods                                   *)
  CheckInterval,      (* MonitorService.check_interval                     *)
  MaxMissed,          (* max_missed_heartbeats                             *)
  HeartbeatInterval,  (* WorkerConfig.heartbeat_interval                   *)
  MaxBackoff,         (* max_backoff of send_heartbeat                     *)
  RegRetries,         (* max_retries of register_with_master               *)
  RegInterval,        (* its retry_interval and the timeout of a call      *)
  CallTime,           (* what a call may take: HEARTBEAT_TIMEOUT to        *)
                      (* connect, and as long again for the answer         *)
  Lives,              (* bound: how often a worker process starts          *)
  MasterLives,        (* bound: how often the master process starts        *)
  FailureCap          (* bound: consecutive_failures counts up to here     *)

ASSUME RegistryAssumption ==
  /\ IsFiniteSet(Workers)
  /\ {CheckInterval, MaxMissed, HeartbeatInterval, MaxBackoff, RegRetries,
      RegInterval, Lives, MasterLives, FailureCap} \subseteq Nat \ {0}
  /\ CallTime \in Nat
  /\ HeartbeatInterval * 2 ^ FailureCap >= MaxBackoff

(* A fact of arithmetic that the provers do not know: they have no powers. *)
ASSUME PowersAssumption == \A f \in 0 .. FailureCap : 2 ^ f \in Nat

Nodes == Workers \X (1 .. Lives)

VARIABLES
  age,         (* age[n], for the nodes of self.nodes: time since          *)
               (* last_heartbeat                                           *)
  missed,      (* missed_heartbeats of each of them                        *)
  nextCheck,   (* time until _check_nodes wakes up                         *)
  masterLife,  (* which start of the master process this is                *)
  phase,       (* phase[w]: "registering", "beating" (the heartbeat thread *)
               (* runs), "aborted" (start_worker has ended) or "gone"      *)
  life,        (* which start of the worker process this is                *)
  tries,       (* registration attempts made                               *)
  wait,        (* time until the next attempt or heartbeat                 *)
  failures     (* consecutive_failures                                     *)

masterVars == <<age, missed, nextCheck, masterLife>>
workerVars == <<phase, life, tries, wait, failures>>
vars       == <<masterVars, workerVars>>

Known    == DOMAIN age
NodeOf(w) == <<w, life[w]>>

(* Mutant: ">=" for ">".                                                   *)
OverdueAtOnce(a) == 2 * a >= 3 * CheckInterval

(* "> self.check_interval * 1.5"                                           *)
Overdue(a) == 2 * a > 3 * CheckInterval

(* The silence after which a check removes a node, if its misses were      *)
(* counted right; a check comes within CheckInterval.                      *)
Patience == (3 * CheckInterval) \div 2 + (MaxMissed - 1) * CheckInterval

TypeOK ==
  /\ Known \subseteq Nodes
  /\ age \in [Known -> Nat]
  /\ missed \in [Known -> 0 .. MaxMissed - 1]
  /\ nextCheck \in 0 .. CheckInterval
  /\ masterLife \in 1 .. MasterLives
  /\ phase \in [Workers -> {"registering", "beating", "aborted", "gone"}]
  /\ life \in [Workers -> 1 .. Lives]
  /\ tries \in [Workers -> 0 .. RegRetries]
  /\ wait \in [Workers -> Nat]
  /\ failures \in [Workers -> 0 .. FailureCap]

Init ==
  /\ age = <<>>
  /\ missed = <<>>
  /\ nextCheck = 0
  /\ masterLife = 1
  /\ phase = [w \in Workers |-> "registering"]
  /\ life = [w \in Workers |-> 1]
  /\ tries = [w \in Workers |-> 0]
  /\ wait = [w \in Workers |-> 0]
  /\ failures = [w \in Workers |-> 0]

Smaller(x, y) == IF x < y THEN x ELSE y

With(f, n, v) == [m \in DOMAIN f \cup {n} |-> IF m = n THEN v ELSE f[m]]

-----------------------------------------------------------------------------
(* The master's handlers.                                                  *)

(* register_node of master.py: a node that is known is not registered      *)
(* again, and either way counts as heard of.                               *)
RegisterNode(n) ==
  /\ age' = With(age, n, 0)
  /\ missed' = With(missed, n, 0)

(* Mutant: a heartbeat leaves the count as it is.                          *)
UpdateHeartbeatUncleared(n) ==
  /\ age' = IF n \in Known THEN [age EXCEPT ![n] = 0] ELSE age
  /\ UNCHANGED missed

(* update_heartbeat: a node that is not known gets a warning in the log,   *)
(* and the answer is a success all the same.                               *)
UpdateHeartbeat(n) ==
  IF n \in Known
  THEN /\ age' = [age EXCEPT ![n] = 0]
       /\ missed' = [missed EXCEPT ![n] = 0]
  ELSE UNCHANGED <<age, missed>>

(* Mutant: a node is kept one check longer.                                *)
CheckNodesLate ==
  LET counted == [n \in Known |-> missed[n] + (IF Overdue(age[n]) THEN 1 ELSE 0)]
      kept    == {n \in Known : counted[n] <= MaxMissed}
  IN  /\ nextCheck = 0
      /\ age' = Restrict(age, kept)
      /\ missed' = Restrict(counted, kept)
      /\ nextCheck' = CheckInterval
      /\ UNCHANGED <<masterLife, workerVars>>

(* One round of _check_nodes.                                              *)
CheckNodes ==
  LET counted == [n \in Known |-> missed[n] + (IF Overdue(age[n]) THEN 1 ELSE 0)]
      kept    == {n \in Known : counted[n] < MaxMissed}
  IN  /\ nextCheck = 0
      /\ age' = Restrict(age, kept)
      /\ missed' = Restrict(counted, kept)
      /\ nextCheck' = CheckInterval
      /\ UNCHANGED <<masterLife, workerVars>>

(* The process starts anew, with nothing in self.nodes.                    *)
MasterRestarts ==
  /\ masterLife < MasterLives
  /\ masterLife' = masterLife + 1
  /\ age' = <<>>
  /\ missed' = <<>>
  /\ nextCheck' = 0
  /\ UNCHANGED workerVars

-----------------------------------------------------------------------------
(* The worker's threads.                                                   *)

(* A call by which the worker reaches the master or not, and hears of it   *)
(* or not.                                                                 *)
Call(handler, answered) ==
  handler \/ (~answered /\ UNCHANGED <<age, missed>>)

(* The call is over, and the next one is due after the given time: a call  *)
(* that arrived may take CallTime to be answered, and the next one as long *)
(* to arrive or to fail.                                                   *)
NextCall(w, after, slack) ==
  \E late \in 0 .. slack : wait' = [wait EXCEPT ![w] = after + late]

(* One attempt of register_with_master.                                    *)
Register(w) ==
  /\ phase[w] = "registering"
  /\ wait[w] = 0
  /\ tries' = [tries EXCEPT ![w] = @ + 1]
  /\ \E answered \in BOOLEAN :
       /\ Call(RegisterNode(NodeOf(w)), answered)
       /\ \/ /\ answered
             /\ phase' = [phase EXCEPT ![w] = "beating"]
             /\ NextCall(w, 0, 2 * CallTime)
          \/ /\ ~answered
             /\ tries'[w] < RegRetries
             /\ wait' = [wait EXCEPT ![w] = RegInterval]
             /\ UNCHANGED phase
          \/ /\ ~answered
             /\ tries'[w] = RegRetries
             /\ phase' = [phase EXCEPT ![w] = "aborted"]
             /\ UNCHANGED wait
  /\ UNCHANGED <<nextCheck, masterLife, life, failures>>

(* Mutant: the wait grows twice as fast.                                   *)
BackoffSteep(f) ==
  IF f = 0 THEN HeartbeatInterval
  ELSE Smaller(HeartbeatInterval * 4 ^ f, MaxBackoff)

(* How long send_heartbeat waits after f failures in a row.                *)
Backoff(f) ==
  IF f = 0 THEN HeartbeatInterval
  ELSE Smaller(HeartbeatInterval * 2 ^ f, MaxBackoff)

Failed(w) == Smaller(failures[w] + 1, FailureCap)

(* One round of send_heartbeat.                                            *)
Beat(w) ==
  /\ phase[w] = "beating"
  /\ wait[w] = 0
  /\ \/ /\ UpdateHeartbeat(NodeOf(w))
        /\ \E f \in {0, Failed(w)} : failures' = [failures EXCEPT ![w] = f]
        /\ NextCall(w, Backoff(failures'[w]), 2 * CallTime)
     \/ /\ UNCHANGED <<age, missed>>
        /\ failures' = [failures EXCEPT ![w] = Failed(w)]
        /\ NextCall(w, Backoff(failures'[w]), CallTime)
  /\ UNCHANGED <<nextCheck, masterLife, phase, life, tries>>

(* The worker process ends, or start_worker finds its port in use.         *)
WorkerEnds(w) ==
  /\ phase[w] # "gone"
  /\ \/ phase' = [phase EXCEPT ![w] = "gone"]
     \/ /\ phase[w] = "registering" /\ tries[w] = 0
        /\ phase' = [phase EXCEPT ![w] = "aborted"]
  /\ wait' = [wait EXCEPT ![w] = 0]
  /\ failures' = [failures EXCEPT ![w] = 0]
  /\ UNCHANGED <<masterVars, life, tries>>

WorkerStarts(w) ==
  /\ phase[w] = "gone"
  /\ life[w] < Lives
  /\ life' = [life EXCEPT ![w] = @ + 1]
  /\ phase' = [phase EXCEPT ![w] = "registering"]
  /\ tries' = [tries EXCEPT ![w] = 0]
  /\ UNCHANGED <<masterVars, wait, failures>>

-----------------------------------------------------------------------------
Running(w) == phase[w] \in {"registering", "beating"}

Elapse ==
  /\ nextCheck > 0
  /\ \A w \in Workers : Running(w) => wait[w] > 0
  /\ nextCheck' = nextCheck - 1
  /\ age' = [n \in Known |-> age[n] + 1]
  /\ wait' = [w \in Workers |-> IF Running(w) THEN wait[w] - 1 ELSE wait[w]]
  /\ UNCHANGED <<missed, masterLife, phase, life, tries, failures>>

Next ==
  \/ CheckNodes
  \/ MasterRestarts
  \/ \E w \in Workers : Register(w) \/ Beat(w) \/ WorkerEnds(w) \/ WorkerStarts(w)
  \/ Elapse

Spec == Init /\ [][Next]_vars

-----------------------------------------------------------------------------
(* Properties.                                                             *)

(* A node is charged with a missed heartbeat for each check interval of    *)
(* its present silence and no more: what was missed before it was last     *)
(* heard of does not count, so it is removed only after MaxMissed          *)
(* intervals without a word.                                               *)
ChargedForSilence ==
  \A n \in Known :
    missed[n] > 0 => Overdue(age[n] - (missed[n] - 1) * CheckInterval)

(* For those who read it the registry is a lease: its counter, which each  *)
(* check and each call moves, says the same as a silence longer than       *)
(* Patience, and none is offered to the scheduler and to the dispatch for  *)
(* more than one check interval longer, be its process gone, the network,  *)
(* or be it the entry a restarted worker leaves behind.                    *)
Leases == INSTANCE Lease WITH silence <- age, Grace <- CheckInterval

ImplementsLease == Leases!LeaseSpec

(* A worker that runs is not removed for two calls that fail in a row,     *)
(* although it waits longer after each of them.                            *)
Removed(w) ==
  NodeOf(w) \in Known /\ NodeOf(w) \notin DOMAIN age' /\ masterLife' = masterLife

SurvivesTwoLost ==
  [][\A w \in Workers : phase[w] = "beating" /\ Removed(w) => failures[w] > 2]_vars

(* "连续丢失 max_missed_heartbeats 次后移除节点": a worker that runs is       *)
(* removed only after MaxMissed of its heartbeats in a row were lost.      *)
RemovedAfterMaxMissedLost ==
  [][\A w \in Workers :
       phase[w] = "beating" /\ Removed(w) => failures[w] >= MaxMissed]_vars
=============================================================================
