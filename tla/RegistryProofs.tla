-------------------------- MODULE RegistryProofs ----------------------------
(***************************************************************************)
(* What holds of the registry of the master for every number of workers,   *)
(* every interval and every limit.  For the registry itself (IInv) it is   *)
(* no matter how long a worker waits between two calls: only those that    *)
(* arrive change it.  It is a Lease, as its count of misses and the time   *)
(* of silence say the same when a check removes a node (CheckedByAge).     *)
(* That a running worker outlasts two lost calls is a race of its waits    *)
(* against the checks of the master (HeardOfInTime), and holds for the     *)
(* numbers that the theorem names.                                         *)
(***************************************************************************)
EXTENDS Registry, TLAPS

RegistryTypeOK ==
  /\ age \in [Known -> Nat]
  /\ missed \in [Known -> 0 .. MaxMissed - 1]
  /\ nextCheck \in 0 .. CheckInterval

(* A node charged with misses was overdue at the last check already, which *)
(* was CheckInterval - nextCheck ago.                                      *)
ChargedAtCheck ==
  \A n \in Known :
    missed[n] > 0 => Overdue(  age[n] - (CheckInterval - nextCheck)
                             - (missed[n] - 1) * CheckInterval)

(* Nor had it been silent for longer then than its misses account for.     *)
BoundedAtCheck ==
  \A n \in Known :
    ~Overdue(  age[n] - (CheckInterval - nextCheck)
             - missed[n] * CheckInterval)

IInv == RegistryTypeOK /\ ChargedAtCheck /\ BoundedAtCheck

-----------------------------------------------------------------------------
(* Multiples of the check interval, one apart.                             *)
LEMMA NextMultiple ==
  ASSUME NEW m \in Nat
  PROVE  /\ m * CheckInterval \in Nat
         /\ (m + 1) * CheckInterval = m * CheckInterval + CheckInterval
         /\ (m - 1) * CheckInterval = m * CheckInterval - CheckInterval
BY RegistryAssumption

(* Products are monotonic.                                                 *)
LEMMA SmallerMultiple ==
  ASSUME NEW m \in Nat, NEW k \in Nat, m <= k
  PROVE  m * CheckInterval <= k * CheckInterval
BY RegistryAssumption

-----------------------------------------------------------------------------
LEMMA InitIInv == Init => IInv
BY RegistryAssumption
   DEF Init, IInv, RegistryTypeOK, ChargedAtCheck, BoundedAtCheck, Known

(* A node that is heard of starts from nothing; it was so at the last      *)
(* check at the latest.                                                    *)
LEMMA HeardOfKeepsIInv ==
  ASSUME IInv, NEW n, NEW D, UNCHANGED nextCheck,
         Known' = D, n \in D, D \subseteq Known \cup {n},
         age' = [m \in D |-> IF m = n THEN 0 ELSE age[m]],
         missed' = [m \in D |-> IF m = n THEN 0 ELSE missed[m]]
  PROVE  IInv'
<1>1. RegistryTypeOK'
  BY RegistryAssumption DEF IInv, RegistryTypeOK, Known
<1>2. ChargedAtCheck'
  BY DEF IInv, ChargedAtCheck, Known
<1>3. BoundedAtCheck'
  <2> SUFFICES ASSUME NEW m \in Known'
               PROVE  ~Overdue(  age'[m] - (CheckInterval - nextCheck)
                               - missed'[m] * CheckInterval)
    BY DEF BoundedAtCheck
  <2>1. CASE m = n
    <3>1. age'[m] = 0 /\ missed'[m] * CheckInterval = 0
      BY <2>1, RegistryAssumption
    <3> QED BY <3>1, RegistryAssumption DEF IInv, RegistryTypeOK, Overdue
  <2>2. CASE m # n
    BY <2>2 DEF IInv, BoundedAtCheck, Known
  <2> QED BY <2>1, <2>2
<1> QED BY <1>1, <1>2, <1>3 DEF IInv

LEMMA RegisterNodeKeepsIInv ==
  ASSUME IInv, NEW n, RegisterNode(n), UNCHANGED nextCheck
  PROVE  IInv'
<1>1. DOMAIN missed = Known
  BY DEF IInv, RegistryTypeOK
<1>2. Known' = Known \cup {n}
  BY DEF RegisterNode, With, Known
<1> QED BY <1>1, <1>2, HeardOfKeepsIInv DEF RegisterNode, With, Known

LEMMA UpdateHeartbeatKeepsIInv ==
  ASSUME IInv, NEW n, UpdateHeartbeat(n), UNCHANGED nextCheck
  PROVE  IInv'
<1>1. CASE n \in Known
  <2>1. DOMAIN missed = Known /\ DOMAIN age = Known
    BY DEF IInv, RegistryTypeOK
  <2>2. /\ age' = [m \in Known |-> IF m = n THEN 0 ELSE age[m]]
        /\ missed' = [m \in Known |-> IF m = n THEN 0 ELSE missed[m]]
    BY <1>1, <2>1 DEF UpdateHeartbeat
  <2>3. Known' = Known
    BY <2>2 DEF Known
  <2> QED BY <1>1, <2>2, <2>3, HeardOfKeepsIInv
<1>2. CASE n \notin Known
  BY <1>2 DEF UpdateHeartbeat, IInv, RegistryTypeOK, ChargedAtCheck,
              BoundedAtCheck, Known
<1> QED BY <1>1, <1>2

(* A check charges exactly the nodes that are overdue, and the others have *)
(* no misses.                                                              *)
LEMMA CheckNodesKeepsIInv ==
  ASSUME IInv, CheckNodes
  PROVE  IInv'
<1> DEFINE counted == [n \in Known |-> missed[n] + (IF Overdue(age[n]) THEN 1 ELSE 0)]
           kept    == {n \in Known : counted[n] < MaxMissed}
<1>1. /\ nextCheck = 0
      /\ nextCheck' = CheckInterval
      /\ age' = [n \in kept |-> age[n]]
      /\ missed' = [n \in kept |-> counted[n]]
  BY DEF CheckNodes, Restrict
<1>2. Known' = kept
  BY <1>1 DEF Known
<1>3. \A n \in kept : /\ n \in Known
                      /\ age[n] \in Nat
                      /\ missed[n] \in Nat
                      /\ counted[n] = missed[n] + (IF Overdue(age[n]) THEN 1 ELSE 0)
                      /\ counted[n] < MaxMissed
  BY RegistryAssumption DEF IInv, RegistryTypeOK
<1> HIDE DEF counted, kept
<1>4. RegistryTypeOK'
  <2>1. \A n \in kept : counted[n] \in 0 .. MaxMissed - 1
    BY <1>3, RegistryAssumption
  <2> QED BY <1>1, <1>2, <1>3, <2>1, RegistryAssumption DEF RegistryTypeOK
<1>5. ASSUME NEW n \in kept
      PROVE  /\ counted[n] > 0 => Overdue(age[n] - (counted[n] - 1) * CheckInterval)
             /\ ~Overdue(age[n] - counted[n] * CheckInterval)
  <2>1. /\ age[n] \in Nat
        /\ missed[n] \in Nat
        /\ counted[n] = missed[n] + (IF Overdue(age[n]) THEN 1 ELSE 0)
    BY <1>3
  <2>2. /\ missed[n] * CheckInterval \in Nat
        /\ (missed[n] + 1) * CheckInterval = missed[n] * CheckInterval + CheckInterval
        /\ (missed[n] - 1) * CheckInterval = missed[n] * CheckInterval - CheckInterval
    BY <2>1, NextMultiple
  <2>3. /\ missed[n] > 0 => Overdue(age[n] - CheckInterval - (missed[n] - 1) * CheckInterval)
        /\ ~Overdue(age[n] - CheckInterval - missed[n] * CheckInterval)
    BY <1>1, <1>3, RegistryAssumption DEF IInv, ChargedAtCheck, BoundedAtCheck
  <2>4. missed[n] > 0 => Overdue(age[n] - missed[n] * CheckInterval)
    BY <2>1, <2>2, <2>3, RegistryAssumption DEF Overdue
  <2>5. CASE Overdue(age[n])
    <3>1. counted[n] = missed[n] + 1
      BY <2>1, <2>5
    <3>2. Overdue(age[n] - missed[n] * CheckInterval)
      <4>1. CASE missed[n] = 0
        <5>1. missed[n] * CheckInterval = 0
          BY <4>1, RegistryAssumption
        <5> QED BY <2>1, <2>5, <5>1
      <4>2. CASE missed[n] > 0
        BY <2>4, <4>2
      <4> QED BY <2>1, <4>1, <4>2
    <3>3. (counted[n] - 1) * CheckInterval = missed[n] * CheckInterval
      BY <2>1, <3>1
    <3>4. counted[n] * CheckInterval = missed[n] * CheckInterval + CheckInterval
      BY <2>2, <3>1
    <3>5. ~Overdue(age[n] - counted[n] * CheckInterval)
      <4>1. CheckInterval \in Nat
        BY RegistryAssumption
      <4>2. age[n] - (missed[n] * CheckInterval + CheckInterval)
              = age[n] - CheckInterval - missed[n] * CheckInterval
        BY <2>1, <2>2, <4>1
      <4> QED BY <2>3, <3>4, <4>2
    <3> QED BY <3>2, <3>3, <3>5
  <2>6. CASE ~Overdue(age[n])
    <3>1. missed[n] = 0
      BY <2>1, <2>2, <2>4, <2>6, RegistryAssumption DEF Overdue
    <3>2. counted[n] = 0 /\ counted[n] * CheckInterval = 0
      BY <2>1, <2>6, <3>1, RegistryAssumption
    <3> QED BY <2>1, <2>6, <3>2
  <2> QED BY <2>5, <2>6
<1>6. ChargedAtCheck' /\ BoundedAtCheck'
  <2>1. CheckInterval - CheckInterval = 0 /\ CheckInterval \in Nat
    BY RegistryAssumption
  <2>2. \A n \in kept : /\ age'[n] = age[n]
                        /\ missed'[n] = counted[n]
                        /\ age[n] - (CheckInterval - nextCheck') = age[n]
    BY <1>1, <1>3, <2>1
  <2> QED BY <1>2, <1>5, <2>2 DEF ChargedAtCheck, BoundedAtCheck
<1> QED BY <1>4, <1>6 DEF IInv

LEMMA ElapseKeepsIInv ==
  ASSUME IInv, Elapse
  PROVE  IInv'
<1>1. /\ nextCheck \in Nat \ {0}
      /\ nextCheck' = nextCheck - 1
      /\ Known' = Known
      /\ UNCHANGED missed
      /\ \A n \in Known : age[n] \in Nat /\ age'[n] = age[n] + 1
  BY RegistryAssumption DEF Elapse, IInv, RegistryTypeOK, Known
<1>2. RegistryTypeOK'
  BY <1>1, RegistryAssumption DEF Elapse, IInv, RegistryTypeOK
<1>3. \A n \in Known : age'[n] - (CheckInterval - nextCheck')
                         = age[n] - (CheckInterval - nextCheck)
  BY <1>1, RegistryAssumption
<1>4. ChargedAtCheck' /\ BoundedAtCheck'
  BY <1>1, <1>3 DEF IInv, ChargedAtCheck, BoundedAtCheck
<1> QED BY <1>2, <1>4 DEF IInv

LEMMA UnchangedKeepsIInv ==
  ASSUME IInv, UNCHANGED <<age, missed, nextCheck>>
  PROVE  IInv'
BY DEF IInv, RegistryTypeOK, ChargedAtCheck, BoundedAtCheck, Known

LEMMA NextKeepsIInv ==
  ASSUME IInv, [Next]_vars
  PROVE  IInv'
<1>1. CASE CheckNodes
  BY <1>1, CheckNodesKeepsIInv
<1>2. CASE MasterRestarts
  BY <1>2, RegistryAssumption
     DEF MasterRestarts, IInv, RegistryTypeOK, ChargedAtCheck, BoundedAtCheck, Known
<1>3. ASSUME NEW w \in Workers, Register(w)
      PROVE  IInv'
  BY <1>3, RegisterNodeKeepsIInv, UnchangedKeepsIInv DEF Register, Call
<1>4. ASSUME NEW w \in Workers, Beat(w)
      PROVE  IInv'
  BY <1>4, UpdateHeartbeatKeepsIInv, UnchangedKeepsIInv DEF Beat
<1>5. ASSUME NEW w \in Workers, WorkerEnds(w) \/ WorkerStarts(w)
      PROVE  IInv'
  BY <1>5, UnchangedKeepsIInv DEF WorkerEnds, WorkerStarts, masterVars
<1>6. CASE Elapse
  BY <1>6, ElapseKeepsIInv
<1>7. CASE UNCHANGED vars
  BY <1>7, UnchangedKeepsIInv DEF vars, masterVars
<1> QED BY <1>1, <1>2, <1>3, <1>4, <1>5, <1>6, <1>7 DEF Next

LEMMA IInvInvariant == Spec => []IInv
BY InitIInv, NextKeepsIInv, PTL DEF Spec

-----------------------------------------------------------------------------
(* No node is charged with more than its present silence, so none that is  *)
(* heard of within MaxMissed check intervals is removed.                   *)
THEOREM NodesChargedForSilence == Spec => []ChargedForSilence
<1>1. ASSUME IInv
      PROVE  ChargedForSilence
  <2> SUFFICES ASSUME NEW n \in Known, missed[n] > 0
               PROVE  Overdue(age[n] - (missed[n] - 1) * CheckInterval)
    BY DEF ChargedForSilence
  <2>1. age[n] \in Nat /\ missed[n] \in Nat /\ nextCheck \in 0 .. CheckInterval
    BY <1>1, RegistryAssumption DEF IInv, RegistryTypeOK
  <2>2. (missed[n] - 1) * CheckInterval \in Int
    BY <2>1, RegistryAssumption
  <2>3. Overdue(age[n] - (CheckInterval - nextCheck) - (missed[n] - 1) * CheckInterval)
    BY <1>1 DEF IInv, ChargedAtCheck
  <2> QED BY <2>1, <2>2, <2>3, RegistryAssumption DEF Overdue
<1> QED BY <1>1, IInvInvariant, PTL

-----------------------------------------------------------------------------
(* The registry as a lease.                                                *)

(* The silence that a node's count stands for, in whole units.             *)
LEMMA PatienceCounts ==
  /\ Patience \in Int
  /\ \A a \in Int : /\ a <= Patience <=> ~Overdue(a - (MaxMissed - 1) * CheckInterval)
                    /\ a <= Patience => a - CheckInterval <= Patience
<1> DEFINE most == (MaxMissed - 1) * CheckInterval
<1>1. most \in Int /\ CheckInterval \in Nat
  BY RegistryAssumption
<1> HIDE DEF most
<1>2. /\ Patience \in Int
      /\ \A a \in Int : a <= Patience <=> 2 * (a - most) <= 3 * CheckInterval
  <2>1. \A a \in Int : a <= (3 * CheckInterval) \div 2 + most
                         <=> 2 * (a - most) <= 3 * CheckInterval
    BY <1>1
  <2>2. Patience = (3 * CheckInterval) \div 2 + most
    BY DEF Patience, most
  <2> QED BY <1>1, <2>1, <2>2
<1> QED BY <1>1, <1>2 DEF Overdue, most

(* A check removes a node exactly when it has been silent for longer than  *)
(* Patience: the count and the age say the same.                           *)
LEMMA CheckedByAge ==
  ASSUME IInv, nextCheck = 0, NEW n \in Known
  PROVE  missed[n] + (IF Overdue(age[n]) THEN 1 ELSE 0) < MaxMissed
           <=> age[n] <= Patience
<1> DEFINE most == (MaxMissed - 1) * CheckInterval
           past == missed[n] * CheckInterval
<1>1. /\ age[n] \in Nat /\ missed[n] \in Nat /\ missed[n] <= MaxMissed - 1
      /\ CheckInterval \in Nat \ {0} /\ MaxMissed \in Nat \ {0}
  BY RegistryAssumption DEF IInv, RegistryTypeOK
<1>2. /\ past \in Nat
      /\ (missed[n] + 1) * CheckInterval = past + CheckInterval
      /\ (missed[n] - 1) * CheckInterval = past - CheckInterval
      /\ most \in Nat
  BY <1>1, NextMultiple
<1>3. /\ missed[n] > 0 => Overdue(age[n] - past)
      /\ ~Overdue(age[n] - CheckInterval - past)
  <2>1. /\ missed[n] > 0 => Overdue(age[n] - CheckInterval - (missed[n] - 1) * CheckInterval)
        /\ ~Overdue(age[n] - CheckInterval - past)
    BY <1>1 DEF IInv, ChargedAtCheck, BoundedAtCheck
  <2> QED BY <1>1, <1>2, <2>1 DEF Overdue
<1>4. age[n] <= Patience <=> ~Overdue(age[n] - most)
  <2>1. age[n] \in Int
    BY <1>1
  <2> HIDE DEF most
  <2> QED BY <2>1, PatienceCounts DEF most
<1>5. CASE missed[n] = MaxMissed - 1
  <2>1. past = most
    BY <1>5
  <2> HIDE DEF past, most
  <2>2. Overdue(age[n]) <=> Overdue(age[n] - most)
    <3>1. CASE missed[n] = 0
      <4>1. past = 0
        BY <1>1, <3>1 DEF past
      <4> QED BY <1>1, <2>1, <4>1
    <3>2. CASE missed[n] > 0
      BY <1>1, <1>2, <1>3, <2>1, <3>2 DEF Overdue
    <3> QED BY <1>1, <3>1, <3>2
  <2> QED BY <1>1, <1>4, <1>5, <2>2
<1>6. CASE missed[n] < MaxMissed - 1
  <2>1. past + CheckInterval <= most
    <3>1. missed[n] + 1 \in Nat /\ MaxMissed - 1 \in Nat /\ missed[n] + 1 <= MaxMissed - 1
      BY <1>1, <1>6
    <3>2. (missed[n] + 1) * CheckInterval <= most
      BY <3>1, SmallerMultiple
    <3> QED BY <1>2, <3>2
  <2> HIDE DEF past, most
  <2>2. ~Overdue(age[n] - most)
    BY <1>1, <1>2, <1>3, <2>1 DEF Overdue
  <2> QED BY <1>1, <1>4, <1>6, <2>2
<1> QED BY <1>1, <1>5, <1>6

(* Between two checks none is kept for longer than the time to the next.   *)
LEMMA WithinGrace ==
  ASSUME IInv, nextCheck > 0, NEW n \in Known
  PROVE  age[n] < Patience + CheckInterval
<1> DEFINE most == (MaxMissed - 1) * CheckInterval
           past == missed[n] * CheckInterval
<1>1. /\ age[n] \in Nat /\ missed[n] \in Nat /\ missed[n] <= MaxMissed - 1
      /\ MaxMissed - 1 \in Nat /\ CheckInterval \in Nat /\ nextCheck \in Nat
  BY RegistryAssumption DEF IInv, RegistryTypeOK
<1>2. past \in Nat /\ most \in Nat /\ past <= most
  BY <1>1, SmallerMultiple, NextMultiple
<1>3. ~Overdue(age[n] - (CheckInterval - nextCheck) - past)
  BY DEF IInv, BoundedAtCheck
<1> DEFINE a == age[n] - (CheckInterval - nextCheck)
<1> HIDE DEF past, most
<1>4. a \in Int /\ ~Overdue(a - most)
  BY <1>1, <1>2, <1>3 DEF Overdue
<1>5. a <= Patience
  BY <1>4, PatienceCounts DEF most
<1> QED BY <1>1, <1>5, PatienceCounts

LEMMA CheckImplementsLease ==
  ASSUME IInv, CheckNodes
  PROVE  Leases!RemoveSilent
<1> DEFINE counted == [n \in Known |-> missed[n] + (IF Overdue(age[n]) THEN 1 ELSE 0)]
<1>1. nextCheck = 0 /\ age' = Restrict(age, {n \in Known : counted[n] < MaxMissed})
  BY DEF CheckNodes
<1>2. \A n \in Known : counted[n] < MaxMissed <=> age[n] <= Patience
  BY <1>1, CheckedByAge
<1> HIDE DEF counted
<1>3. {n \in Known : counted[n] < MaxMissed} = {n \in Known : age[n] <= Patience}
  BY <1>2
<1> QED BY <1>1, <1>3 DEF Leases!RemoveSilent, Leases!Members, Known, Restrict,
                          Leases!Restrict

LEMMA CallImplementsLease ==
  ASSUME IInv, NEW n, NEW answered,
         \/ Call(RegisterNode(n), answered)
         \/ Call(UpdateHeartbeat(n), answered)
  PROVE  Leases!HearOf(n) \/ UNCHANGED age
<1>1. CASE RegisterNode(n)
  BY <1>1 DEF RegisterNode, With, Leases!HearOf, Leases!Members
<1>2. CASE UpdateHeartbeat(n)
  <2>1. DOMAIN age = Known
    BY DEF Known
  <2>2. CASE n \in Known
    <3>1. age' = [m \in Known |-> IF m = n THEN 0 ELSE age[m]]
      BY <1>2, <2>1, <2>2 DEF UpdateHeartbeat, IInv, RegistryTypeOK
    <3>2. Known \cup {n} = Known
      BY <2>2
    <3> QED BY <2>1, <3>1, <3>2 DEF Leases!HearOf, Leases!Members
  <2>3. CASE n \notin Known
    BY <1>2, <2>3 DEF UpdateHeartbeat
  <2> QED BY <2>2, <2>3
<1> QED BY <1>1, <1>2 DEF Call

LEMMA ElapseImplementsLease ==
  ASSUME IInv, Elapse
  PROVE  Leases!Pass
<1>1. nextCheck > 0 /\ age' = [n \in Known |-> age[n] + 1]
  BY DEF Elapse
<1>2. \A n \in Known : age[n] < Patience + CheckInterval
  BY <1>1, WithinGrace
<1> QED BY <1>1, <1>2 DEF Leases!Pass, Leases!Members, Known

-----------------------------------------------------------------------------
(* The worker's side, and who is registered.                               *)

(* An attempt is made only while there are attempts left                   *)
WorkerTypeOK ==
  /\ Known \subseteq Nodes
  /\ masterLife \in 1 .. MasterLives
  /\ phase \in [Workers -> {"registering", "beating", "aborted", "gone"}]
  /\ life \in [Workers -> 1 .. Lives]
  /\ tries \in [Workers -> 0 .. RegRetries]
  /\ wait \in [Workers -> Nat]
  /\ failures \in [Workers -> 0 .. FailureCap]
  /\ \A w \in Workers : phase[w] = "registering" => tries[w] < RegRetries

LEMMA InitWorkers == Init => WorkerTypeOK
<1> SUFFICES ASSUME Init PROVE WorkerTypeOK
  OBVIOUS
<1>1. Known = {}
  BY DEF Init, Known
<1>2. /\ 1 \in 1 .. MasterLives /\ 1 \in 1 .. Lives /\ 0 \in 0 .. RegRetries
      /\ 0 \in 0 .. FailureCap /\ 0 < RegRetries
  BY RegistryAssumption
<1>3. /\ phase \in [Workers -> {"registering", "beating", "aborted", "gone"}]
      /\ wait \in [Workers -> Nat]
  BY DEF Init
<1> QED BY <1>1, <1>2, <1>3 DEF Init, WorkerTypeOK

LEMMA BackoffIsNat ==
  ASSUME NEW f \in 0 .. FailureCap
  PROVE  Backoff(f) \in Nat
<1>1. 2 ^ f \in Nat /\ HeartbeatInterval \in Nat /\ MaxBackoff \in Nat
  BY PowersAssumption, RegistryAssumption
<1>2. HeartbeatInterval * 2 ^ f \in Nat
  BY <1>1
<1> QED BY <1>1, <1>2 DEF Backoff, Smaller

LEMMA CallKeepsNodes ==
  ASSUME IInv, WorkerTypeOK, NEW w \in Workers, NEW answered \in BOOLEAN,
         \/ Call(RegisterNode(NodeOf(w)), answered)
         \/ Call(UpdateHeartbeat(NodeOf(w)), answered)
  PROVE  Known' \subseteq Nodes
<1>1. NodeOf(w) \in Nodes /\ Known \subseteq Nodes
  BY DEF WorkerTypeOK, NodeOf, Nodes
<1>2. CASE RegisterNode(NodeOf(w))
  BY <1>1, <1>2 DEF RegisterNode, With, Known
<1>3. CASE UpdateHeartbeat(NodeOf(w))
  BY <1>1, <1>3 DEF UpdateHeartbeat, Known
<1>4. CASE UNCHANGED <<age, missed>>
  BY <1>1, <1>4 DEF Known
<1> QED BY <1>2, <1>3, <1>4 DEF Call

(* The time until the next call.                                           *)
LEMMA CallsTyped ==
  ASSUME WorkerTypeOK, NEW w \in Workers, NEW after \in Nat, NEW slack \in {CallTime, 2 * CallTime},
         NextCall(w, after, slack)
  PROVE  /\ wait' \in [Workers -> Nat]
         /\ wait'[w] <= after + slack
         /\ \A v \in Workers \ {w} : wait'[v] = wait[v]
<1>1. slack \in Nat
  BY RegistryAssumption
<1>2. PICK late \in 0 .. slack : wait' = [wait EXCEPT ![w] = after + late]
  BY DEF NextCall
<1>3. after + late \in Nat /\ after + late <= after + slack
  BY <1>1
<1> QED BY <1>2, <1>3 DEF WorkerTypeOK

LEMMA RegisterKeepsWorkers ==
  ASSUME IInv, WorkerTypeOK, NEW w \in Workers, Register(w)
  PROVE  WorkerTypeOK'
<1>1. Known' \subseteq Nodes
  BY CallKeepsNodes DEF Register
<1>2. tries[w] \in 0 .. RegRetries /\ tries[w] < RegRetries
  BY DEF Register, WorkerTypeOK
<1>3. /\ tries' = [tries EXCEPT ![w] = tries[w] + 1]
      /\ UNCHANGED <<masterLife, life, failures>>
  BY DEF Register
<1>4. /\ tries' \in [Workers -> 0 .. RegRetries]
      /\ tries'[w] = tries[w] + 1
      /\ \A v \in Workers \ {w} : tries'[v] = tries[v]
  BY <1>2, <1>3, RegistryAssumption DEF WorkerTypeOK
<1>5. /\ phase' \in [Workers -> {"registering", "beating", "aborted", "gone"}]
      /\ \A v \in Workers \ {w} : phase'[v] = phase[v]
      /\ phase'[w] = "registering" => tries'[w] < RegRetries
  <2>1. \/ phase' = [phase EXCEPT ![w] = "beating"]
        \/ tries'[w] < RegRetries /\ phase' = phase
        \/ phase' = [phase EXCEPT ![w] = "aborted"]
    BY DEF Register
  <2> QED BY <2>1 DEF WorkerTypeOK
<1>6. wait' \in [Workers -> Nat]
  <2>1. NextCall(w, 0, 2 * CallTime) \/ wait' = wait \/ wait' = [wait EXCEPT ![w] = RegInterval]
    BY DEF Register
  <2> QED BY <2>1, CallsTyped, RegistryAssumption DEF WorkerTypeOK
<1> QED BY <1>1, <1>3, <1>4, <1>5, <1>6 DEF WorkerTypeOK

(* One round of send_heartbeat: it is heard or not, and what follows.      *)
LEMMA BeatSteps ==
  ASSUME WorkerTypeOK, NEW w \in Workers, Beat(w)
  PROVE  /\ failures' \in [Workers -> 0 .. FailureCap]
         /\ wait' \in [Workers -> Nat]
         /\ \A v \in Workers \ {w} : failures'[v] = failures[v] /\ wait'[v] = wait[v]
         /\ \/ /\ UpdateHeartbeat(NodeOf(w))
               /\ wait'[w] <= Backoff(failures'[w]) + 2 * CallTime
            \/ /\ UNCHANGED <<age, missed>>
               /\ failures'[w] = Failed(w)
               /\ wait'[w] <= Backoff(failures'[w]) + CallTime
<1>1. Failed(w) \in 0 .. FailureCap /\ 0 \in 0 .. FailureCap
  BY RegistryAssumption DEF WorkerTypeOK, Failed, Smaller
<1>2. PICK f \in {0, Failed(w)} : failures' = [failures EXCEPT ![w] = f]
  BY DEF Beat
<1>3. /\ failures' \in [Workers -> 0 .. FailureCap]
      /\ failures'[w] \in 0 .. FailureCap
      /\ \A v \in Workers \ {w} : failures'[v] = failures[v]
  BY <1>1, <1>2 DEF WorkerTypeOK
<1>4. Backoff(failures'[w]) \in Nat
  BY <1>3, BackoffIsNat
<1>5. CASE UpdateHeartbeat(NodeOf(w)) /\ NextCall(w, Backoff(failures'[w]), 2 * CallTime)
  BY <1>3, <1>4, <1>5, CallsTyped
<1>6. CASE /\ UNCHANGED <<age, missed>>
           /\ failures' = [failures EXCEPT ![w] = Failed(w)]
           /\ NextCall(w, Backoff(failures'[w]), CallTime)
  <2>1. failures'[w] = Failed(w)
    BY <1>6 DEF WorkerTypeOK
  <2> QED BY <1>3, <1>4, <1>6, <2>1, CallsTyped
<1> QED BY <1>5, <1>6 DEF Beat

LEMMA BeatKeepsWorkers ==
  ASSUME IInv, WorkerTypeOK, NEW w \in Workers, Beat(w)
  PROVE  WorkerTypeOK'
<1>1. Known' \subseteq Nodes
  BY BeatSteps, CallKeepsNodes DEF Call
<1> QED BY <1>1, BeatSteps DEF Beat, WorkerTypeOK

LEMMA NextKeepsWorkers ==
  ASSUME IInv, WorkerTypeOK, [Next]_vars
  PROVE  WorkerTypeOK'
<1>1. CASE CheckNodes
  <2>1. Known' \subseteq Known
    BY <1>1 DEF CheckNodes, Restrict, Known
  <2> QED BY <1>1, <2>1 DEF CheckNodes, WorkerTypeOK, workerVars
<1>2. CASE MasterRestarts
  <2>1. Known' = {}
    BY <1>2 DEF MasterRestarts, Known
  <2>2. masterLife' \in 1 .. MasterLives
    BY <1>2, RegistryAssumption DEF MasterRestarts, WorkerTypeOK
  <2> QED BY <1>2, <2>1, <2>2 DEF MasterRestarts, WorkerTypeOK, workerVars
<1>3. ASSUME NEW w \in Workers, WorkerEnds(w)
      PROVE  WorkerTypeOK'
  <2>1. /\ phase' = [phase EXCEPT ![w] = "gone"] \/ phase' = [phase EXCEPT ![w] = "aborted"]
        /\ wait' = [wait EXCEPT ![w] = 0]
        /\ failures' = [failures EXCEPT ![w] = 0]
        /\ UNCHANGED <<age, masterLife, life, tries>>
    BY <1>3 DEF WorkerEnds, masterVars
  <2>2. /\ wait' \in [Workers -> Nat]
        /\ failures' \in [Workers -> 0 .. FailureCap]
    BY <2>1, RegistryAssumption DEF WorkerTypeOK
  <2>3. /\ phase' \in [Workers -> {"registering", "beating", "aborted", "gone"}]
        /\ \A v \in Workers : phase'[v] = "registering" => phase[v] = "registering"
    BY <2>1 DEF WorkerTypeOK
  <2> QED BY <2>1, <2>2, <2>3 DEF WorkerTypeOK, Known
<1>4. ASSUME NEW w \in Workers, WorkerStarts(w)
      PROVE  WorkerTypeOK'
  <2>1. /\ life[w] < Lives
        /\ life' = [life EXCEPT ![w] = life[w] + 1]
        /\ phase' = [phase EXCEPT ![w] = "registering"]
        /\ tries' = [tries EXCEPT ![w] = 0]
        /\ UNCHANGED <<age, masterLife, wait, failures>>
    BY <1>4 DEF WorkerStarts, masterVars
  <2>2. life' \in [Workers -> 1 .. Lives]
    <3>1. life[w] + 1 \in 1 .. Lives
      BY <2>1, RegistryAssumption DEF WorkerTypeOK
    <3> QED BY <2>1, <3>1 DEF WorkerTypeOK
  <2>3. /\ tries' \in [Workers -> 0 .. RegRetries]
        /\ tries'[w] < RegRetries
        /\ \A v \in Workers \ {w} : tries'[v] = tries[v]
    BY <2>1, RegistryAssumption DEF WorkerTypeOK
  <2>4. /\ phase' \in [Workers -> {"registering", "beating", "aborted", "gone"}]
        /\ \A v \in Workers \ {w} : phase'[v] = phase[v]
    BY <2>1 DEF WorkerTypeOK
  <2> QED BY <2>1, <2>2, <2>3, <2>4 DEF WorkerTypeOK, Known
<1>5. CASE Elapse
  <2>1. Known' = Known
    BY <1>5 DEF Elapse, Known
  <2>2. wait' \in [Workers -> Nat]
    BY <1>5 DEF Elapse, WorkerTypeOK
  <2> QED BY <1>5, <2>1, <2>2 DEF Elapse, WorkerTypeOK
<1>6. CASE UNCHANGED vars
  BY <1>6 DEF vars, masterVars, workerVars, WorkerTypeOK, Known
<1> QED BY <1>1, <1>2, <1>3, <1>4, <1>5, <1>6, RegisterKeepsWorkers, BeatKeepsWorkers DEF Next

(* The values of the registry and of the workers, with the bounds on       *)
(* attempts, missed heartbeats and the time between two calls.             *)
THEOREM TypeCorrect == Spec => []TypeOK
<1>1. Init => WorkerTypeOK
  BY InitWorkers
<1>2. IInv /\ WorkerTypeOK /\ [Next]_vars => WorkerTypeOK'
  BY NextKeepsWorkers
<1>3. IInv /\ WorkerTypeOK => TypeOK
  BY DEF IInv, RegistryTypeOK, WorkerTypeOK, TypeOK
<1> QED BY <1>1, <1>2, <1>3, IInvInvariant, PTL DEF Spec

(* For any number of workers, intervals and limits the registry is the     *)
(* lease its readers rely on: a check removes exactly those who have been  *)
(* silent for longer than Patience, although it only counts, and none is   *)
(* kept for more than one check interval beyond it.                        *)
THEOREM RegistryImplementsLease == Spec => ImplementsLease
<1>1. Init => Leases!LeaseInit
  BY DEF Init, Leases!LeaseInit
<1>2. ASSUME IInv, WorkerTypeOK, [Next]_vars
      PROVE  Leases!LeaseNext \/ UNCHANGED age
  <2>1. CASE CheckNodes
    BY <1>2, <2>1, CheckImplementsLease DEF Leases!LeaseNext
  <2>2. CASE MasterRestarts
    BY <2>2 DEF MasterRestarts, Leases!LeaseNext, Leases!Forget
  <2>3. ASSUME NEW w \in Workers, Register(w) \/ Beat(w)
        PROVE  Leases!LeaseNext \/ UNCHANGED age
    <3>1. NodeOf(w) \in Nodes
      BY <1>2 DEF WorkerTypeOK, NodeOf, Nodes
    <3>2. Leases!HearOf(NodeOf(w)) \/ UNCHANGED age
      BY <1>2, <2>3, CallImplementsLease DEF Register, Beat, Call
    <3> QED BY <3>1, <3>2 DEF Leases!LeaseNext
  <2>4. ASSUME NEW w \in Workers, WorkerEnds(w) \/ WorkerStarts(w)
        PROVE  UNCHANGED age
    BY <2>4 DEF WorkerEnds, WorkerStarts, masterVars
  <2>5. CASE Elapse
    BY <1>2, <2>5, ElapseImplementsLease DEF Leases!LeaseNext
  <2>6. CASE UNCHANGED vars
    BY <2>6 DEF vars, masterVars
  <2> QED BY <1>2, <2>1, <2>2, <2>3, <2>4, <2>5, <2>6 DEF Next
<1>3. IInv /\ WorkerTypeOK /\ [Next]_vars => [Leases!LeaseNext]_age
  BY <1>2
<1>4. Spec => []WorkerTypeOK
  BY InitWorkers, NextKeepsWorkers, IInvInvariant, PTL DEF Spec
<1> QED BY <1>1, <1>3, <1>4, IInvInvariant, PTL DEF Spec, ImplementsLease, Leases!LeaseSpec

-----------------------------------------------------------------------------
(* The heartbeats, and how long a worker that runs may be silent.          *)

(* The time from the last call that arrived to the call after the f-th in  *)
(* a row that failed, itself included.                                     *)
LongestWait(f) ==
  CASE f = 0 -> Backoff(0) + 2 * CallTime
    [] f = 1 -> Backoff(0) + Backoff(1) + 3 * CallTime
    [] f = 2 -> Backoff(0) + Backoff(1) + Backoff(2) + 4 * CallTime

(* What is left of its wait, with the silence there was already, is within *)
(* that time; a worker that sends no heartbeats has no failures to show.   *)
HeardOfInTime ==
  \A w \in Workers :
    /\ phase[w] # "beating" => failures[w] = 0
    /\ phase[w] = "beating" /\ NodeOf(w) \in Known /\ failures[w] <= 2
         => age[NodeOf(w)] + wait[w] <= LongestWait(failures[w])

LInv == IInv /\ WorkerTypeOK /\ HeardOfInTime

(* Where a call that arrives leads, and one more failure.                  *)
LEMMA NextWait ==
  ASSUME FailureCap > 2
  PROVE  /\ \A f \in 0 .. 2 : /\ Backoff(f) \in Nat
                              /\ LongestWait(f) \in Nat
                              /\ Backoff(f) + 2 * CallTime <= LongestWait(f)
         /\ \A f \in 0 .. 1 :
              LongestWait(f + 1) = LongestWait(f) + Backoff(f + 1) + CallTime
<1>1. /\ Backoff(0) \in Nat /\ Backoff(1) \in Nat /\ Backoff(2) \in Nat
      /\ CallTime \in Nat
  BY BackoffIsNat, RegistryAssumption
<1>2. /\ LongestWait(0) = Backoff(0) + 2 * CallTime
      /\ LongestWait(1) = Backoff(0) + Backoff(1) + 3 * CallTime
      /\ LongestWait(2) = Backoff(0) + Backoff(1) + Backoff(2) + 4 * CallTime
  BY DEF LongestWait
<1> HIDE DEF LongestWait
<1>3. \A f \in 0 .. 2 : f = 0 \/ f = 1 \/ f = 2
  OBVIOUS
<1>4. \A f \in 0 .. 1 : f = 0 \/ f = 1
  OBVIOUS
<1>5. ASSUME NEW f \in 0 .. 2
      PROVE  /\ Backoff(f) \in Nat /\ LongestWait(f) \in Nat
             /\ Backoff(f) + 2 * CallTime <= LongestWait(f)
  <2>1. CASE f = 0  BY <1>1, <1>2, <2>1
  <2>2. CASE f = 1  BY <1>1, <1>2, <2>2
  <2>3. CASE f = 2  BY <1>1, <1>2, <2>3
  <2> QED BY <1>3, <2>1, <2>2, <2>3
<1>6. ASSUME NEW f \in 0 .. 1
      PROVE  LongestWait(f + 1) = LongestWait(f) + Backoff(f + 1) + CallTime
  <2>1. CASE f = 0  BY <1>1, <1>2, <2>1
  <2>2. CASE f = 1  BY <1>1, <1>2, <2>2
  <2> QED BY <1>4, <2>1, <2>2
<1> QED BY <1>5, <1>6

(* The nodes of two workers are two nodes.                                 *)
LEMMA OtherNodes ==
  ASSUME NEW v \in Workers, NEW w \in Workers, v # w
  PROVE  NodeOf(v) # NodeOf(w)
BY DEF NodeOf

LEMMA RegisterKeepsTime ==
  ASSUME FailureCap > 2, LInv, NEW w \in Workers, Register(w)
  PROVE  HeardOfInTime'
<1>1. /\ phase[w] = "registering" /\ wait[w] = 0 /\ failures[w] = 0
      /\ UNCHANGED <<life, failures>>
      /\ \A v \in Workers : NodeOf(v)' = NodeOf(v)
  BY DEF Register, LInv, HeardOfInTime, NodeOf
<1>2. PICK answered \in BOOLEAN :
        /\ Call(RegisterNode(NodeOf(w)), answered)
        /\ \/ answered /\ phase' = [phase EXCEPT ![w] = "beating"] /\ NextCall(w, 0, 2 * CallTime)
           \/ ~answered /\ wait' = [wait EXCEPT ![w] = RegInterval] /\ UNCHANGED phase
           \/ ~answered /\ phase' = [phase EXCEPT ![w] = "aborted"] /\ UNCHANGED wait
  BY DEF Register
<1>3. ASSUME NEW v \in Workers, v # w
      PROVE  /\ phase'[v] = phase[v] /\ wait'[v] = wait[v]
             /\ NodeOf(v) \in Known' => NodeOf(v) \in Known /\ age'[NodeOf(v)] = age[NodeOf(v)]
  <2>1. phase'[v] = phase[v] /\ wait'[v] = wait[v]
    BY <1>2, <1>3, CallsTyped DEF LInv, WorkerTypeOK
  <2>2. NodeOf(v) # NodeOf(w)
    BY <1>3, OtherNodes
  <2>3. CASE RegisterNode(NodeOf(w))
    BY <2>1, <2>2, <2>3 DEF RegisterNode, With, Known
  <2>4. CASE UNCHANGED <<age, missed>>
    BY <2>1, <2>4 DEF Known
  <2> QED BY <1>2, <2>3, <2>4 DEF Call
<1>4. CASE answered
  <2>1. /\ RegisterNode(NodeOf(w)) /\ phase' = [phase EXCEPT ![w] = "beating"]
        /\ wait'[w] \in Nat /\ wait'[w] <= 0 + 2 * CallTime
    BY <1>2, <1>4, CallsTyped DEF Call, LInv
  <2>2. age'[NodeOf(w)] = 0
    BY <2>1 DEF RegisterNode, With
  <2>3. age'[NodeOf(w)] + wait'[w] <= LongestWait(failures'[w])
    <3>1. Backoff(0) \in Nat /\ Backoff(0) + 2 * CallTime <= LongestWait(0) /\ LongestWait(0) \in Nat
      BY NextWait
    <3> QED BY <1>1, <2>1, <2>2, <3>1, RegistryAssumption
  <2>4. phase'[w] = "beating"
    BY <2>1 DEF LInv, WorkerTypeOK
  <2> QED BY <1>1, <1>3, <2>3, <2>4 DEF LInv, HeardOfInTime
<1>5. CASE ~answered
  <2>1. phase'[w] # "beating"
    BY <1>1, <1>2, <1>5 DEF LInv, WorkerTypeOK
  <2> QED BY <1>1, <1>3, <2>1 DEF LInv, HeardOfInTime
<1> QED BY <1>4, <1>5

LEMMA BeatKeepsTime ==
  ASSUME FailureCap > 2, LInv, NEW w \in Workers, Beat(w)
  PROVE  HeardOfInTime'
<1> DEFINE n == NodeOf(w)
<1>0. WorkerTypeOK
  BY DEF LInv
<1>1. /\ phase[w] = "beating" /\ wait[w] = 0
      /\ UNCHANGED <<phase, life>>
      /\ \A v \in Workers : NodeOf(v)' = NodeOf(v)
  BY DEF Beat, NodeOf
<1>2. /\ \A v \in Workers \ {w} : failures'[v] = failures[v] /\ wait'[v] = wait[v]
      /\ failures'[w] \in 0 .. FailureCap /\ wait'[w] \in Nat
      /\ UpdateHeartbeat(n) \/ UNCHANGED <<age, missed>>
  BY <1>0, BeatSteps
<1>3. failures[w] \in 0 .. FailureCap /\ FailureCap \in Nat /\ CallTime \in Nat
  BY <1>0, RegistryAssumption DEF WorkerTypeOK
<1>4. ASSUME NEW v \in Workers, v # w
      PROVE  NodeOf(v) \in Known' => NodeOf(v) \in Known /\ age'[NodeOf(v)] = age[NodeOf(v)]
  <2>1. NodeOf(v) # n
    BY <1>4, OtherNodes
  <2>2. CASE UpdateHeartbeat(n)
    <3>1. age' = [age EXCEPT ![n] = 0] \/ age' = age
      BY <2>2 DEF UpdateHeartbeat
    <3> QED BY <2>1, <3>1 DEF Known
  <2>3. CASE UNCHANGED <<age, missed>>
    BY <2>3 DEF Known
  <2> QED BY <1>2, <2>2, <2>3
<1>5. ASSUME n \in Known', failures'[w] <= 2
      PROVE  age'[n] + wait'[w] <= LongestWait(failures'[w])
  <2>1. /\ failures'[w] \in 0 .. 2
        /\ Backoff(failures'[w]) \in Nat /\ LongestWait(failures'[w]) \in Nat
        /\ Backoff(failures'[w]) + 2 * CallTime <= LongestWait(failures'[w])
    BY <1>2, <1>3, <1>5, NextWait
  <2>2. CASE UpdateHeartbeat(n) /\ wait'[w] <= Backoff(failures'[w]) + 2 * CallTime
    <3>1. n \in Known
      BY <1>5, <2>2 DEF UpdateHeartbeat, Known
    <3>2. age'[n] = 0
      BY <2>2, <3>1 DEF UpdateHeartbeat, Known
    <3> QED BY <1>2, <1>3, <2>1, <2>2, <3>2
  <2>3. CASE /\ UNCHANGED <<age, missed>>
             /\ failures'[w] = Failed(w)
             /\ wait'[w] <= Backoff(failures'[w]) + CallTime
    <3>1. failures[w] \in 0 .. 1 /\ failures'[w] = failures[w] + 1
      BY <1>3, <1>5, <2>3 DEF Failed, Smaller
    <3>2. n \in Known /\ age'[n] = age[n] /\ age[n] \in Nat
      BY <1>5, <2>3 DEF Known, LInv, IInv, RegistryTypeOK
    <3>3. age[n] + wait[w] <= LongestWait(failures[w])
      BY <1>1, <3>1, <3>2 DEF LInv, HeardOfInTime
    <3>4. LongestWait(failures'[w]) = LongestWait(failures[w]) + Backoff(failures'[w]) + CallTime
      BY <3>1, NextWait
    <3>5. LongestWait(failures[w]) \in Nat
      BY <3>1, NextWait
    <3> QED BY <1>1, <1>2, <1>3, <2>1, <2>3, <3>2, <3>3, <3>4, <3>5
  <2> QED BY <1>0, <2>2, <2>3, BeatSteps
<1> QED BY <1>1, <1>2, <1>4, <1>5 DEF LInv, HeardOfInTime

LEMMA ElapseKeepsTime ==
  ASSUME LInv, Elapse
  PROVE  HeardOfInTime'
<1>1. /\ UNCHANGED <<phase, life, failures>>
      /\ \A v \in Workers : NodeOf(v)' = NodeOf(v)
      /\ Known' = Known
  BY DEF Elapse, NodeOf, Known
<1>2. ASSUME NEW w \in Workers, phase[w] = "beating", NodeOf(w) \in Known
      PROVE  age'[NodeOf(w)] + wait'[w] = age[NodeOf(w)] + wait[w]
  <2>1. wait'[w] = wait[w] - 1 /\ age'[NodeOf(w)] = age[NodeOf(w)] + 1
    BY <1>2 DEF Elapse, Running
  <2>2. age[NodeOf(w)] \in Nat /\ wait[w] \in Nat
    BY <1>2 DEF LInv, IInv, RegistryTypeOK, WorkerTypeOK
  <2> QED BY <2>1, <2>2
<1> QED BY <1>1, <1>2 DEF LInv, HeardOfInTime

LEMMA NextKeepsTime ==
  ASSUME FailureCap > 2, LInv, [Next]_vars
  PROVE  HeardOfInTime'
<1>1. CASE CheckNodes
  <2>1. /\ Known' \subseteq Known
        /\ \A n \in Known' : age'[n] = age[n]
        /\ UNCHANGED <<phase, life, wait, failures>>
    BY <1>1 DEF CheckNodes, Restrict, Known, workerVars
  <2> QED BY <2>1 DEF LInv, HeardOfInTime, NodeOf
<1>2. CASE MasterRestarts
  <2>1. Known' = {} /\ UNCHANGED <<phase, failures>>
    BY <1>2 DEF MasterRestarts, Known, workerVars
  <2> QED BY <2>1 DEF LInv, HeardOfInTime
<1>3. ASSUME NEW w \in Workers, WorkerEnds(w)
      PROVE  HeardOfInTime'
  <2>1. /\ phase' = [phase EXCEPT ![w] = "gone"] \/ phase' = [phase EXCEPT ![w] = "aborted"]
        /\ wait' = [wait EXCEPT ![w] = 0]
        /\ failures' = [failures EXCEPT ![w] = 0]
        /\ UNCHANGED <<age, life>>
    BY <1>3 DEF WorkerEnds, masterVars
  <2>2. phase'[w] # "beating" /\ failures'[w] = 0
    BY <2>1 DEF LInv, WorkerTypeOK
  <2>3. \A v \in Workers \ {w} : /\ phase'[v] = phase[v] /\ wait'[v] = wait[v]
                                 /\ failures'[v] = failures[v]
    BY <2>1 DEF LInv, WorkerTypeOK
  <2> QED BY <2>1, <2>2, <2>3 DEF LInv, HeardOfInTime, NodeOf, Known
<1>4. ASSUME NEW w \in Workers, WorkerStarts(w)
      PROVE  HeardOfInTime'
  <2>1. /\ phase[w] = "gone"
        /\ phase' = [phase EXCEPT ![w] = "registering"]
        /\ life' = [life EXCEPT ![w] = life[w] + 1]
        /\ UNCHANGED <<age, wait, failures>>
    BY <1>4 DEF WorkerStarts, masterVars
  <2>2. phase'[w] = "registering" /\ failures'[w] = 0
    BY <2>1 DEF LInv, WorkerTypeOK, HeardOfInTime
  <2>3. \A v \in Workers \ {w} : phase'[v] = phase[v] /\ NodeOf(v)' = NodeOf(v)
    BY <2>1 DEF LInv, WorkerTypeOK, NodeOf
  <2> QED BY <2>1, <2>2, <2>3 DEF LInv, HeardOfInTime, Known
<1>5. CASE UNCHANGED vars
  BY <1>5 DEF vars, masterVars, workerVars, LInv, HeardOfInTime, NodeOf, Known
<1> QED BY <1>1, <1>2, <1>3, <1>4, <1>5, RegisterKeepsTime, BeatKeepsTime, ElapseKeepsTime DEF Next

(* Only a check of the nodes removes one from a master that goes on.       *)
LEMMA OnlyChecksRemove ==
  ASSUME LInv, Next, UNCHANGED masterLife, NEW n \in Known, n \notin Known'
  PROVE  CheckNodes
<1>1. ASSUME NEW w \in Workers, Register(w)
      PROVE  n \in Known'
  BY <1>1 DEF Register, Call, RegisterNode, With, Known
<1>2. ASSUME NEW w \in Workers, Beat(w)
      PROVE  n \in Known'
  BY <1>2 DEF Beat, UpdateHeartbeat, Known
<1>3. ASSUME NEW w \in Workers, WorkerEnds(w) \/ WorkerStarts(w)
      PROVE  n \in Known'
  BY <1>3 DEF WorkerEnds, WorkerStarts, masterVars, Known
<1>4. ~Elapse
  BY DEF Elapse, Known
<1>5. ~MasterRestarts
  BY DEF MasterRestarts, LInv, WorkerTypeOK
<1> QED BY <1>1, <1>2, <1>3, <1>4, <1>5 DEF Next

(* It removes none whose silence is within Patience.                       *)
LEMMA RemovedWhenSilent ==
  ASSUME LInv, CheckNodes, NEW n \in Known, n \notin Known'
  PROVE  age[n] > Patience
<1>1. /\ nextCheck = 0
      /\ ~(missed[n] + (IF Overdue(age[n]) THEN 1 ELSE 0) < MaxMissed)
  BY DEF CheckNodes, Restrict, Known
<1>2. ~(age[n] <= Patience)
  BY <1>1, CheckedByAge DEF LInv
<1> QED BY <1>2, PatienceCounts DEF LInv, IInv, RegistryTypeOK

(* A worker that runs is not removed for two heartbeats that fail in a     *)
(* row, nor while the call after them is still out, for any intervals with *)
(* which its first three waits and the calls between them, of CallTime     *)
(* each, are no longer than the silence the master forgives: with those of *)
(* the code 210 s and up to 80 s against 315 s.  The first hypothesis is   *)
(* about the bound of the model only: its count of failures tells two of   *)
(* them from more (worker.py:271-296, monitor.py).                         *)
THEOREM TwoLostCallsSurvived ==
  ASSUME FailureCap > 2, LongestWait(2) <= Patience
  PROVE  Spec => SurvivesTwoLost
<1>1. Init => LInv
  <2>1. Init => HeardOfInTime
    BY DEF Init, HeardOfInTime
  <2> QED BY <2>1, InitWorkers, InitIInv DEF LInv
<1>2. LInv /\ [Next]_vars => LInv'
  BY NextKeepsIInv, NextKeepsWorkers, NextKeepsTime DEF LInv
<1>3. ASSUME LInv, [Next]_vars, NEW w \in Workers, phase[w] = "beating", Removed(w)
      PROVE  failures[w] > 2
  <2> DEFINE n == NodeOf(w)
  <2>1. n \in Known /\ n \notin Known' /\ UNCHANGED masterLife
    BY <1>3 DEF Removed, Known
  <2>2. ~UNCHANGED vars
    BY <2>1 DEF vars, masterVars, Known
  <2>3. CheckNodes
    BY <1>3, <2>1, <2>2, OnlyChecksRemove
  <2>4. age[n] > Patience /\ Patience \in Int
    BY PatienceCounts, <1>3, <2>1, <2>3, RemovedWhenSilent
  <2>5. age[n] \in Nat /\ wait[w] \in Nat /\ failures[w] \in Nat
    BY <1>3, <2>1, RegistryAssumption DEF LInv, IInv, RegistryTypeOK, WorkerTypeOK
  <2> SUFFICES ASSUME failures[w] <= 2 PROVE FALSE
    BY <2>5
  <2>6. age[n] + wait[w] <= LongestWait(failures[w])
    BY <1>3, <2>1 DEF LInv, HeardOfInTime
  <2>7. LongestWait(failures[w]) <= LongestWait(2) /\ LongestWait(2) \in Nat
    <3>1. \A f \in 0 .. 2 : LongestWait(f) \in Nat /\ Backoff(f) \in Nat
      BY NextWait
    <3>2. LongestWait(0 + 1) = LongestWait(0) + Backoff(0 + 1) + CallTime
      BY NextWait
    <3>3. LongestWait(1 + 1) = LongestWait(1) + Backoff(1 + 1) + CallTime
      BY NextWait
    <3>4. failures[w] = 0 \/ failures[w] = 1 \/ failures[w] = 2
      BY <2>5
    <3>5. CallTime \in Nat
      BY RegistryAssumption
    <3>6. LongestWait(0) <= LongestWait(1) /\ LongestWait(1) <= LongestWait(2)
      BY <3>1, <3>2, <3>3, <3>5
    <3>7. LongestWait(0) \in Nat /\ LongestWait(1) \in Nat /\ LongestWait(2) \in Nat
      BY <3>1
    <3>8. CASE failures[w] = 0  BY <3>6, <3>7, <3>8
    <3>9. CASE failures[w] = 1  BY <3>6, <3>7, <3>9
    <3>10. CASE failures[w] = 2  BY <3>7, <3>10
    <3> QED BY <3>4, <3>8, <3>9, <3>10
  <2>8. LongestWait(failures[w]) \in Nat
    <3>1. failures[w] \in 0 .. 2
      BY <2>5
    <3>2. \A f \in 0 .. 2 : LongestWait(f) \in Nat
      BY NextWait
    <3> QED BY <3>1, <3>2
  <2> QED BY <2>4, <2>5, <2>6, <2>7, <2>8
<1>4. LInv /\ [Next]_vars
        => [\A w \in Workers : phase[w] = "beating" /\ Removed(w) => failures[w] > 2]_vars
  BY <1>3
<1> QED BY <1>1, <1>2, <1>4, PTL DEF Spec, SurvivesTwoLost
=============================================================================
