--------------------------- MODULE HealthStateProofs ---------------------------
(***************************************************************************)
(* Proofs about HealthState, for all thresholds, grace periods and bounds. *)
(* The state machine decides on degradation as failures are counted, the   *)
(* map to HTTP codes when it is asked; that they agree needs what links    *)
(* status, everReady and the counters (Linked), and that the counter stops *)
(* only past the thresholds.                                               *)
(***************************************************************************)
EXTENDS HealthState, TLAPS

(* status, everReady, backendOk and the counter of failures move together  *)
Linked ==
  /\ status = "minus" <=> ShouldDegrade(failures)
  /\ status = "zero" <=> ~everReady
  /\ status = "zero" => failures = 0
  /\ backendOk => everReady /\ failures = 0

(* Failures are counted after a success only, so there are never more of   *)
(* them than probes that failed in a row                                   *)
Counted == failures <= failRun

(* A warmup is started with the first success                              *)
WarmedUp ==
  /\ warmups = (IF warmupDone THEN 1 ELSE 0)
  /\ everReady => warmupDone

IInv == TypeOK /\ Linked /\ Counted /\ WarmedUp

----------------------------------------------------------------------------
LEMMA Constants ==
  /\ HealthTimeout \in Nat \ {0} /\ FailThreshold \in Nat \ {0} /\ FailGrace \in Nat \ {0}
  /\ StartupGrace \in Nat /\ TimeCap \in Nat
  /\ AccumCap \in Nat /\ ScoreCap \in Nat /\ CountCap \in Nat
  BY HealthAssumption

LEMMA UpToBounded ==
  ASSUME NEW x \in Nat, NEW cap \in Nat
  PROVE  UpTo(x, cap) \in 0 .. cap
  BY DEF UpTo

LEMMA MoreTimes ==
  ASSUME NEW m \in Nat, NEW n \in Nat, NEW k \in Nat, m <= n
  PROVE  m * k <= n * k
  <1>1. PICK d \in Nat : n = m + d
    BY n - m \in Nat
  <1>2. n * k = m * k + d * k
    BY <1>1
  <1>3. d * k \in Nat /\ m * k \in Nat
    OBVIOUS
  <1> QED  BY <1>2, <1>3

(* Not yet degraded, the counter has not reached its bound                 *)
LEMMA CounterRuns ==
  ASSUME NEW n \in 0 .. CountCap, ~ShouldDegrade(n)
  PROVE  n + 1 <= CountCap /\ UpTo(n + 1, CountCap) = n + 1
  <1>1. ShouldDegrade(CountCap)
    BY HealthAssumption, Constants DEF ShouldDegrade
  <1>2. n # CountCap
    BY <1>1
  <1> QED  BY <1>2, Constants DEF UpTo

LEMMA NoFailureNoDegradation == ~ShouldDegrade(0)
  BY Constants DEF ShouldDegrade

LEMMA WeightsAreSmall ==
  ASSUME NEW o \in Outcomes \ {"ok"}
  PROVE  Weight(o) \in 0 .. 4
  BY DEF Weight, Outcomes, ConnectFailures

LEMMA PenaltyTyped ==
  ASSUME TypeOK, NEW o \in Outcomes \ {"ok"}, NEW alive \in BOOLEAN,
         NEW lat \in {0, HealthTimeout}, Penalty(o, alive, lat)
  PROVE  timeouts' \in 0 .. CountCap /\ failScore' \in 0 .. ScoreCap /\ accumFail' \in 0 .. AccumCap
  <1>1. timeouts' \in 0 .. CountCap
    <2>1. timeouts \in Nat
      BY Constants DEF TypeOK
    <2>2. timeouts + (IF o = "read_timeout" THEN 1 ELSE 0) \in Nat
      BY <2>1
    <2> QED  BY <2>2, Constants, UpToBounded DEF Penalty
  <1>2. CASE InPidGrace(o, alive)
    BY <1>1, <1>2 DEF Penalty, TypeOK
  <1>3. CASE ~InPidGrace(o, alive)
    <2>1. Weight(o) \in Nat
      BY WeightsAreSmall
    <2>2. UpTo(lat, HealthTimeout) \in Nat
      BY Constants DEF UpTo
    <2>3. Weight(o) * UpTo(lat, HealthTimeout) \in Nat
      <3>1. \A y \in Nat : 0 * y \in Nat /\ 1 * y \in Nat /\ 2 * y \in Nat
                            /\ 3 * y \in Nat /\ 4 * y \in Nat
        OBVIOUS
      <3>2. Weight(o) \in {0, 1, 2, 3, 4}
        BY WeightsAreSmall
      <3> QED  BY <2>2, <3>1, <3>2
    <2>4. (Weight(o) * UpTo(lat, HealthTimeout)) \div 4 \in Nat
      <3>1. \A z \in Nat : z \div 4 \in Nat
        OBVIOUS
      <3> QED  BY <2>3, <3>1
    <2>5. /\ failScore' = UpTo(failScore + Weight(o), ScoreCap)
          /\ accumFail' =
               UpTo(accumFail + (Weight(o) * UpTo(lat, HealthTimeout)) \div 4, AccumCap)
      BY <1>3 DEF Penalty
    <2>6. failScore \in Nat /\ accumFail \in Nat
      BY Constants DEF TypeOK
    <2> QED  BY <1>1, <2>1, <2>4, <2>5, <2>6, Constants, UpToBounded
  <1> QED  BY <1>2, <1>3

----------------------------------------------------------------------------
LEMMA InitIInv == Init => IInv
  <1> SUFFICES ASSUME Init PROVE IInv
    OBVIOUS
  <1>1. TypeOK
    <2>1. 0 \in 0 .. CountCap /\ 0 \in 0 .. ScoreCap /\ 0 \in 0 .. AccumCap
      BY Constants
    <2>2. 0 \in 0 .. StartupGrace /\ NeverOk \in 0 .. NeverOk
      BY Constants DEF NeverOk
    <2>3. {failures, timeouts, failRun, timeoutRun} \subseteq 0 .. CountCap
      BY <2>1 DEF Init
    <2>4. {everReady, backendOk, warmupDone} \subseteq BOOLEAN
      BY DEF Init
    <2>5. /\ sglang \in BOOLEAN /\ beat \in BOOLEAN
          /\ status \in {"zero", "one", "minus"}
      BY DEF Init
    <2>6. /\ failScore \in 0 .. ScoreCap /\ accumFail \in 0 .. AccumCap
          /\ age \in 0 .. StartupGrace /\ sinceOk \in 0 .. NeverOk
          /\ warmups \in 0 .. 1
      BY <2>1, <2>2 DEF Init
    <2> QED  BY <2>3, <2>4, <2>5, <2>6 DEF TypeOK
  <1>2. Linked
    BY NoFailureNoDegradation DEF Init, Linked
  <1>3. Counted /\ WarmedUp
    BY DEF Init, Counted, WarmedUp
  <1> QED  BY <1>1, <1>2, <1>3 DEF IInv

LEMMA OkKeeps ==
  ASSUME IInv, ObserveOk, beat' = ~beat
  PROVE  IInv'
  <1>1. /\ status' = "one" /\ everReady' = TRUE /\ failures' = 0 /\ backendOk' = TRUE
        /\ failRun' = 0 /\ timeoutRun' = 0 /\ sinceOk' = 0
        /\ UNCHANGED <<sglang, age>>
    BY DEF ObserveOk
  <1>2. Linked' /\ Counted'
    BY <1>1, NoFailureNoDegradation DEF Linked, Counted, ShouldDegrade
  <1>3. warmupDone' = TRUE /\ warmups' = 1
    <2>1. warmups = (IF warmupDone THEN 1 ELSE 0) /\ (everReady => warmupDone)
      BY DEF IInv, WarmedUp
    <2> QED  BY <2>1 DEF ObserveOk
  <1>4. /\ failScore' \in 0 .. ScoreCap /\ accumFail' \in 0 .. AccumCap
        /\ timeouts' \in 0 .. CountCap
    <2>1. \A x, c \in Nat : x \in 0 .. c => x \div 2 \in 0 .. c
      OBVIOUS
    <2> QED  BY <2>1, Constants DEF ObserveOk, sglangVars, IInv, TypeOK
  <1>5. TypeOK'
    BY <1>1, <1>3, <1>4, Constants DEF IInv, TypeOK, NeverOk
  <1> QED  BY <1>2, <1>3, <1>5 DEF IInv, WarmedUp

LEMMA FailureKeeps ==
  ASSUME IInv, NEW o \in Outcomes \ {"ok"}, NEW alive \in BOOLEAN,
         NEW lat \in {0, HealthTimeout}, ObserveFailure(o, alive, lat), beat' = ~beat
  PROVE  IInv'
  <1>1. /\ backendOk' = FALSE
        /\ failRun' = UpTo(failRun + 1, CountCap)
        /\ UNCHANGED <<sglang, everReady, warmupDone, warmups, age, sinceOk>>
    BY DEF ObserveFailure
  <1>2. failures \in 0 .. CountCap /\ failRun \in 0 .. CountCap /\ failures <= failRun
    BY Constants DEF IInv, TypeOK, Counted
  <1>3. failRun' \in 0 .. CountCap /\ failRun <= failRun'
    BY <1>1, <1>2, Constants DEF UpTo
  <1>4. timeoutRun' \in 0 .. CountCap
    <2>1. timeoutRun \in Nat
      BY Constants DEF IInv, TypeOK
    <2> QED  BY <2>1, Constants, UpToBounded DEF ObserveFailure
  <1>5. /\ failScore' \in 0 .. ScoreCap /\ accumFail' \in 0 .. AccumCap
        /\ timeouts' \in 0 .. CountCap
    <2>1. CASE sglang
      BY <2>1, PenaltyTyped DEF ObserveFailure, IInv
    <2>2. CASE ~sglang
      BY <2>2 DEF ObserveFailure, sglangVars, IInv, TypeOK
    <2> QED  BY <2>1, <2>2
  <1>6. /\ status' \in {"one", "minus", "zero"} /\ failures' \in 0 .. CountCap
        /\ Linked' /\ Counted'
    <2>1. CASE status = "one"
      <3>1. ~ShouldDegrade(failures) /\ everReady
        BY <2>1, <1>2 DEF IInv, Linked, TypeOK
      <3>2. failures + 1 <= CountCap /\ UpTo(failures + 1, CountCap) = failures + 1
        BY <3>1, <1>2, CounterRuns
      <3>3. /\ failures' = failures + 1
            /\ status' = IF ShouldDegrade(failures + 1) THEN "minus" ELSE status
        BY <2>1, <3>2 DEF ObserveFailure
      <3>4. failRun' >= failures'
        BY <1>1, <1>2, <3>2, <3>3, Constants DEF UpTo
      <3>5. ShouldDegrade(failures)' <=> ShouldDegrade(failures + 1)
        BY <3>3 DEF ShouldDegrade
      <3>6. Linked'
        BY <2>1, <3>1, <3>3, <3>5, <1>1 DEF Linked
      <3> QED  BY <2>1, <3>2, <3>3, <3>4, <3>6, <1>2 DEF Counted
    <2>2. CASE status # "one"
      <3>1. UNCHANGED <<failures, status>>
        BY <2>2 DEF ObserveFailure
      <3>2. ShouldDegrade(failures)' <=> ShouldDegrade(failures)
        BY <3>1 DEF ShouldDegrade
      <3> QED  BY <3>1, <3>2, <1>1, <1>2, <1>3, Constants DEF IInv, Linked, Counted, TypeOK
    <2> QED  BY <2>1, <2>2
  <1>7. TypeOK'
    BY <1>1, <1>3, <1>4, <1>5, <1>6 DEF IInv, TypeOK, NeverOk
  <1>8. WarmedUp'
    BY <1>1 DEF IInv, WarmedUp
  <1> QED  BY <1>6, <1>7, <1>8 DEF IInv

LEMMA ElapseKeeps ==
  ASSUME IInv, Elapse
  PROVE  IInv'
  <1>1. UNCHANGED <<sglang, stateVars, sglangVars, historyVars, beat>>
    BY DEF Elapse
  <1>2. age' \in 0 .. StartupGrace
    <2>1. age \in Nat
      BY Constants DEF IInv, TypeOK
    <2> QED  BY <2>1, Constants, UpToBounded DEF Elapse
  <1>3. sinceOk' \in 0 .. NeverOk
    <2>1. sinceOk \in 0 .. TimeCap + 1
      BY DEF IInv, TypeOK, NeverOk
    <2> QED  BY <2>1, Constants DEF Elapse, UpTo, NeverOk
  <1>4. TypeOK'
    BY <1>1, <1>2, <1>3 DEF IInv, TypeOK, stateVars, sglangVars, historyVars, NeverOk
  <1>5. Linked' /\ Counted' /\ WarmedUp'
    BY <1>1 DEF IInv, Linked, Counted, WarmedUp, ShouldDegrade, stateVars, historyVars
  <1> QED  BY <1>4, <1>5 DEF IInv

LEMMA NextIInv == IInv /\ [Next]_vars => IInv'
  <1> SUFFICES ASSUME IInv, [Next]_vars PROVE IInv'
    OBVIOUS
  <1>1. CASE Tick
    BY <1>1, OkKeeps, FailureKeeps DEF Tick
  <1>2. CASE Elapse
    BY <1>2, ElapseKeeps
  <1>3. CASE UNCHANGED vars
    BY <1>3 DEF IInv, TypeOK, Linked, Counted, WarmedUp, ShouldDegrade, NeverOk,
                vars, stateVars, sglangVars, historyVars
  <1> QED  BY <1>1, <1>2, <1>3 DEF Next

LEMMA InvariantHolds == Spec => []IInv
  BY InitIInv, NextIInv, PTL DEF Spec

----------------------------------------------------------------------------
(***************************************************************************)
(* Theorems.                                                               *)
(***************************************************************************)
(* Every variable keeps its type, and one warmup is started at most,       *)
(* however often the engine goes down and recovers.                        *)
THEOREM TypeCorrect == Spec => []TypeOK
  <1>1. IInv => TypeOK
    BY DEF IInv
  <1> QED  BY <1>1, InvariantHolds, PTL

(* What /health answers with 503, in terms of the state                    *)
LEMMA CodeIs503 ==
  ASSUME ~sglang
  PROVE  Code = 503 <=> ~IsReady /\ everReady /\ ShouldDegrade(failures)
  BY DEF Code, Unavailable

(* The state machine and the map to HTTP codes decide apart from each      *)
(* other that the engine is degraded, and they always agree.               *)
THEOREM DegradationAgrees == Spec => []DegradedAgree
  <1>1. IInv => DegradedAgree
    <2> SUFFICES ASSUME IInv, ~sglang PROVE status = "minus" <=> Code = 503
      BY DEF DegradedAgree
    <2>1. Linked
      BY DEF IInv
    <2> QED  BY <2>1, CodeIs503 DEF Linked, IsReady
  <1> QED  BY <1>1, InvariantHolds, PTL

(* An engine that was ready is unavailable only after enough probes in a   *)
(* row have failed, for long enough.                                       *)
THEOREM ShortOutageTolerated == Spec => []ToleratesShortOutage
  <1>1. IInv => ToleratesShortOutage
    <2> SUFFICES ASSUME IInv, ~sglang, Code = 503
                 PROVE  failRun >= FailThreshold /\ failRun * HealthTimeout >= FailGrace
      BY DEF ToleratesShortOutage
    <2>1. failures >= FailThreshold /\ failures * HealthTimeout >= FailGrace
      BY CodeIs503 DEF ShouldDegrade
    <2>2. failures \in Nat /\ failRun \in Nat /\ failures <= failRun
      BY Constants DEF IInv, TypeOK, Counted
    <2>3. failures * HealthTimeout <= failRun * HealthTimeout
      BY <2>2, Constants, MoreTimes
    <2>4. failures * HealthTimeout \in Nat /\ failRun * HealthTimeout \in Nat
      BY <2>2, Constants
    <2> QED  BY <2>1, <2>2, <2>3, <2>4, Constants
  <1> QED  BY <1>1, InvariantHolds, PTL

(* Once ready, an engine is never again reported as starting or as one     *)
(* whose start failed.                                                     *)
THEOREM StartsOnce == Spec => NeverStartsAgain
  <1>1. IInv /\ [Next]_vars => (everReady => Code' \notin {201, 502})
    <2> SUFFICES ASSUME [Next]_vars, everReady PROVE Code' \notin {201, 502}
      OBVIOUS
    <2>1. everReady'
      BY DEF Next, Tick, ObserveOk, ObserveFailure, Elapse, vars, stateVars
    <2> QED  BY <2>1 DEF Code
  <1>2. IInv /\ [Next]_vars => [everReady => Code' \notin {201, 502}]_vars
    BY <1>1
  <1> QED  BY <1>2, InvariantHolds, PTL DEF Spec, NeverStartsAgain
=============================================================================
