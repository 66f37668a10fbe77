---------------------------- MODULE HealthState -----------------------------
(***************************************************************************)
(* proxy/health_router.py: the health state of one process (every gateway  *)
(* worker and the health service keep one of their own).  The monitor loop *)
(* probes the engine and advances the state; GET /health maps the state,   *)
(* and the time that has passed, to 200, 201, 502 or 503 (Code).           *)
(*                                                                         *)
(* A probe awaits only the engine's answer; what follows it in             *)
(* tick_observe_and_advance runs without a suspension, so a whole tick is  *)
(* one step and a reader of the state sees it before or after a tick.      *)
(* When a tick comes is left open: time passes between any two of them.    *)
(*                                                                         *)
(* Times count in units of a quarter of HEALTH_TIMEOUT_MS and stop at      *)
(* TimeCap, past every threshold.  fail_score counts in quarters, rounded  *)
(* down when it decays, and stops at ScoreCap, accum_fail_ms at AccumCap.  *)
(***************************************************************************)
EXTENDS Integers

CONSTANTS
  HealthTimeout,    (* HEALTH_TIMEOUT_MS                                   *)
  StartupGrace,     (* STARTUP_GRACE_MS                                    *)
  FailThreshold,    (* FAIL_THRESHOLD, in probes                           *)
  FailGrace,        (* FAIL_GRACE_MS                                       *)
  FailBudget,       (* SGLANG_FAIL_BUDGET, in quarters                     *)
  PidGrace,         (* SGLANG_PID_GRACE_MS                                 *)
  SilenceMax,       (* SGLANG_SILENCE_MAX_MS                               *)
  ConsecTimeoutMax, (* SGLANG_CONSEC_TIMEOUT_MAX, in probes                *)
  TimeCap,          (* bound: where the clocks stop                        *)
  AccumCap,         (* bound: where accum_fail_ms stops                    *)
  ScoreCap,         (* bound: where fail_score stops                       *)
  CountCap          (* bound: where the counters of probes stop            *)

ASSUME HealthAssumption ==
  /\ {HealthTimeout, FailThreshold, FailGrace} \subseteq Nat \ {0}
  /\ {StartupGrace, FailBudget, PidGrace, SilenceMax} \subseteq Nat
  /\ ConsecTimeoutMax \in Nat
  /\ {TimeCap, AccumCap, ScoreCap, CountCap} \subseteq Nat
  /\ \A x \in {PidGrace, SilenceMax} : x < TimeCap
  /\ FailGrace < AccumCap
  /\ FailBudget < ScoreCap
  /\ FailThreshold < CountCap
  /\ ConsecTimeoutMax < CountCap
  /\ FailGrace < CountCap * HealthTimeout

(* What _strict_probe_backend_health makes of an answer or an exception.   *)
ConnectFailures == {"connect_error", "connect_timeout", "read_timeout",
                    "request_error"}
Outcomes == {"ok", "503", "5xx", "other"} \cup ConnectFailures

NeverOk == TimeCap + 1  (* sinceOk before the first success                *)

VARIABLES
  sglang,       (* ENGINE = "sglang", read from the environment at start *)
  status,       (* 0 starting, 1 ready, -1 degraded, as "zero", "one",     *)
                (* "minus"                                                 *)
  everReady,
  failures,     (* consecutive_failures                                    *)
  backendOk,
  failScore, accumFail, timeouts,  (* fail_score, accum_fail_ms,           *)
                (* consecutive_timeouts                                    *)
  warmupDone,   (* warmup_executed                                         *)
  age,          (* time since first_seen, up to StartupGrace               *)
  sinceOk,      (* time since last_success_ts, or NeverOk                  *)
  warmups,      (* the warmup requests started                             *)
  failRun,      (* history: the failed probes since the last good one      *)
  timeoutRun,   (* history: the read timeouts since any other outcome      *)
  beat          (* history: the parity of the ticks, by which a tick that  *)
                (* changes nothing else is told from no tick               *)

stateVars   == <<status, everReady, failures, backendOk, warmupDone, warmups>>
sglangVars  == <<failScore, accumFail, timeouts>>
historyVars == <<failRun, timeoutRun>>
vars == <<sglang, stateVars, sglangVars, historyVars, age, sinceOk, beat>>

UpTo(x, cap) == IF x < cap THEN x ELSE cap

(* Type invariant, and with it "首次进入 ready 后只触发一次 warmup": however  *)
(* often the engine goes down and recovers, one warmup is started.         *)
TypeOK ==
  /\ sglang \in BOOLEAN
  /\ status \in {"zero", "one", "minus"}
  /\ {everReady, backendOk, warmupDone} \subseteq BOOLEAN
  /\ {failures, timeouts, failRun, timeoutRun} \subseteq 0 .. CountCap
  /\ failScore \in 0 .. ScoreCap
  /\ accumFail \in 0 .. AccumCap
  /\ age \in 0 .. StartupGrace
  /\ beat \in BOOLEAN
  /\ sinceOk \in 0 .. NeverOk
  /\ warmups \in 0 .. 1

Init ==
  /\ sglang \in BOOLEAN
  /\ status = "zero"
  /\ everReady = FALSE
  /\ failures = 0
  /\ backendOk = FALSE
  /\ failScore = 0
  /\ accumFail = 0
  /\ timeouts = 0
  /\ warmupDone = FALSE
  /\ age = 0
  /\ sinceOk = NeverOk
  /\ warmups = 0
  /\ failRun = 0
  /\ timeoutRun = 0
  /\ beat = FALSE

-----------------------------------------------------------------------------
ShouldDegrade(n) ==
  /\ n >= FailThreshold
  /\ n * HealthTimeout >= FailGrace

(* In quarters.                                                            *)
Weight(o) ==
  CASE o \in {"connect_error", "503"}     -> 4
    [] o = "connect_timeout"              -> 3
    [] o \in {"request_error", "5xx"}     -> 2
    [] o = "read_timeout"                 -> 1
    [] o = "other"                        -> 0

(* Read timeouts of an engine whose port answers cost nothing for a while  *)
(* after the last success.                                                 *)
InPidGrace(o, alive) ==
  /\ alive
  /\ o = "read_timeout"
  /\ sinceOk # NeverOk
  /\ sinceOk <= PidGrace

(* Mutant: a success takes one failure off the count.                      *)
ObserveOkCountingDown ==
  /\ status' = "one"
  /\ everReady' = TRUE
  /\ backendOk' = TRUE
  /\ warmupDone' = TRUE
  /\ warmups' = warmups + (IF everReady \/ warmupDone THEN 0 ELSE 1)
  /\ sinceOk' = 0
  /\ IF sglang
     THEN /\ failScore' = failScore \div 2
          /\ accumFail' = accumFail \div 2
          /\ timeouts' = 0
     ELSE UNCHANGED sglangVars
  /\ failRun' = 0
  /\ timeoutRun' = 0
  /\ failures' = failures - 1
  /\ UNCHANGED <<sglang, age>>

(* Mutant: every recovery warms the engine up again.                       *)
ObserveOkWarmingUp ==
  /\ status' = "one"
  /\ everReady' = TRUE
  /\ failures' = 0
  /\ backendOk' = TRUE
  /\ warmupDone' = TRUE
  /\ warmups' = warmups + (IF status = "one" THEN 0 ELSE 1)
  /\ sinceOk' = 0
  /\ IF sglang
     THEN /\ failScore' = failScore \div 2
          /\ accumFail' = accumFail \div 2
          /\ timeouts' = 0
     ELSE UNCHANGED sglangVars
  /\ failRun' = 0
  /\ timeoutRun' = 0
  /\ UNCHANGED <<sglang, age>>

(* A tick whose probe is answered 200.                                     *)
ObserveOk ==
  /\ status' = "one"
  /\ everReady' = TRUE
  /\ failures' = 0
  /\ backendOk' = TRUE
  /\ warmupDone' = TRUE
  /\ warmups' = warmups + (IF everReady \/ warmupDone THEN 0 ELSE 1)
  /\ sinceOk' = 0
  /\ IF sglang
     THEN /\ failScore' = failScore \div 2
          /\ accumFail' = accumFail \div 2
          /\ timeouts' = 0
     ELSE UNCHANGED sglangVars
  /\ failRun' = 0
  /\ timeoutRun' = 0
  /\ UNCHANGED <<sglang, age>>

(* _handle_sglang_specifics after a failed probe that took lat.            *)
Penalty(o, alive, lat) ==
  /\ timeouts' = UpTo(timeouts + (IF o = "read_timeout" THEN 1 ELSE 0), CountCap)
  /\ IF InPidGrace(o, alive)
     THEN UNCHANGED <<failScore, accumFail>>
     ELSE /\ failScore' = UpTo(failScore + Weight(o), ScoreCap)
          /\ accumFail' =
               UpTo(accumFail + (Weight(o) * UpTo(lat, HealthTimeout)) \div 4, AccumCap)

(* Mutant: the state is degraded one failure too early.                    *)
ObserveFailureEarly(o, alive, lat) ==
  /\ backendOk' = FALSE
  /\ IF status = "one"
     THEN /\ failures' = UpTo(failures + 1, CountCap)
          /\ status' = IF ShouldDegrade(failures + 2) THEN "minus" ELSE status
     ELSE UNCHANGED <<failures, status>>
  /\ IF sglang THEN Penalty(o, alive, lat) ELSE UNCHANGED sglangVars
  /\ failRun' = UpTo(failRun + 1, CountCap)
  /\ timeoutRun' = IF o = "read_timeout" THEN UpTo(timeoutRun + 1, CountCap) ELSE 0
  /\ UNCHANGED <<sglang, everReady, warmupDone, warmups, age, sinceOk>>

(* A tick whose probe fails.  Failures count only while the state is ready.*)
ObserveFailure(o, alive, lat) ==
  /\ backendOk' = FALSE
  /\ IF status = "one"
     THEN /\ failures' = UpTo(failures + 1, CountCap)
          /\ status' = IF ShouldDegrade(failures + 1) THEN "minus" ELSE status
     ELSE UNCHANGED <<failures, status>>
  /\ IF sglang THEN Penalty(o, alive, lat) ELSE UNCHANGED sglangVars
  /\ failRun' = UpTo(failRun + 1, CountCap)
  /\ timeoutRun' = IF o = "read_timeout" THEN UpTo(timeoutRun + 1, CountCap) ELSE 0
  /\ UNCHANGED <<sglang, everReady, warmupDone, warmups, age, sinceOk>>

Elapse ==
  /\ age' = UpTo(age + 1, StartupGrace)
  /\ sinceOk' = IF sinceOk = NeverOk THEN NeverOk ELSE UpTo(sinceOk + 1, TimeCap)
  /\ UNCHANGED <<sglang, stateVars, sglangVars, historyVars, beat>>

(* health_monitor_loop: a probe that times out has taken HEALTH_TIMEOUT_MS,*)
(* any other one no time or that much.                                     *)
Tick ==
  /\ beat' = ~beat
  /\ \/ ObserveOk
     \/ \E o \in Outcomes \ {"ok"}, alive \in BOOLEAN, lat \in {0, HealthTimeout} :
          /\ o \in {"connect_timeout", "read_timeout"} => lat = HealthTimeout
          /\ ObserveFailure(o, alive, lat)

Next == Tick \/ Elapse

Spec == Init /\ [][Next]_vars

(* The loop goes on for ever, whatever a probe raises, and time passes.    *)
Fairness == WF_vars(Tick) /\ WF_vars(Elapse)

FairSpec == Spec /\ Fairness

-----------------------------------------------------------------------------
(* map_http_code_from_state, evaluated when a request for /health comes.   *)

IsReady == backendOk /\ everReady /\ status = "one"

SilenceHit == sinceOk # NeverOk /\ sinceOk >= SilenceMax

TimeoutsHit ==
  /\ sinceOk # NeverOk
  /\ timeouts >= ConsecTimeoutMax
  /\ sinceOk >= PidGrace

BudgetHit == failScore >= FailBudget \/ accumFail >= FailGrace

(* Mutant: the engine's silence is not looked at.                          *)
UnavailableUnlessSilent ==
  IF sglang THEN TimeoutsHit \/ BudgetHit ELSE ShouldDegrade(failures)

Unavailable ==
  IF sglang THEN SilenceHit \/ TimeoutsHit \/ BudgetHit
  ELSE ShouldDegrade(failures)

(* Mutant: the present probe alone decides between starting and ready.     *)
CodeForgettingReady ==
  CASE IsReady                              -> 200
    [] ~IsReady /\ ~backendOk               -> IF age < StartupGrace THEN 201 ELSE 502
    [] OTHER                                -> 503

Code ==
  CASE IsReady                              -> 200
    [] ~IsReady /\ ~everReady               -> IF age < StartupGrace THEN 201 ELSE 502
    [] ~IsReady /\ everReady /\ Unavailable -> 503
    [] OTHER                                -> 200

-----------------------------------------------------------------------------
(* Properties.                                                             *)

(* The state machine and the map to HTTP codes decide apart from each      *)
(* other whether the engine is degraded; on engines other than sglang they *)
(* agree at every moment: X-Wings-Status -1 goes with 503 and only with it.*)
DegradedAgree == ~sglang => (status = "minus" <=> Code = 503)

(* An engine that was ready is reported unavailable only after as many     *)
(* probes in a row as the threshold asks have failed, and for at least the *)
(* grace period of probing (engines other than sglang).                    *)
ToleratesShortOutage ==
  ~sglang /\ Code = 503 => failRun >= FailThreshold
                           /\ failRun * HealthTimeout >= FailGrace

(* Once the engine has been ready, /health never says again that it is     *)
(* starting or that its start failed, whatever fails afterwards.           *)
NeverStartsAgain ==
  [][everReady => Code' \notin {201, 502}]_vars

(* An engine that stays down is reported unavailable for good, on sglang   *)
(* too, where single failures cost little and some of them nothing.        *)
DownIsReported ==
  <>[](everReady /\ ~backendOk) => <>[](Code = 503)

(* A start that never succeeds is reported as failed.                      *)
FailedStartIsReported ==
  []~everReady => <>[](Code = 502)

(* Both: no outage goes unnoticed, whatever the probes say meanwhile.      *)
OutageIsReported == DownIsReported /\ FailedStartIsReported

(* "单独跟踪 sglang 的连续读超时次数": consecutive_timeouts counts read        *)
(* timeouts that follow each other.                                        *)
TimeoutsAreConsecutive == timeouts <= timeoutRun
=============================================================================
