----------------------------- MODULE Supervisor -----------------------------
(***************************************************************************)
(* wings_control.py: the launcher and the child processes it manages, in   *)
(* standalone mode (launch attempts, then the daemon loop), master and     *)
(* worker mode (the daemon loop at once).  The launcher is one thread; a   *)
(* child exits, time passes and a signal arrives between any two of its    *)
(* steps, so a child may also exit between the two polls of one round.     *)
(*                                                                         *)
(* Time counts in units of which CrashThreshold (30 s) and MaxBackoff      *)
(* (60 s) are multiples.  Not modelled: a child that outlives SIGKILL, and *)
(* a signal before _daemon_loop has installed its handlers.                *)
(***************************************************************************)
EXTENDS Integers, Sequences, Functions

CONSTANTS
  Roles,            (* the values of _determine_role considered            *)
  Services,         (* what _build_processes returns, in its order         *)
  WorkerServices,   (* what worker mode keeps of it                        *)
  CrashThreshold,   (* crash_threshold_sec                                 *)
  MaxBackoff,       (* max_backoff_sec                                     *)
  MaxRetries,       (* max_launch_retries                                  *)
  CrashCap          (* bound: crash_count stops where the backoff is       *)
                    (* MaxBackoff                                          *)

Names == Range(Services) \cup Range(WorkerServices)

ASSUME SupervisorAssumption ==
  /\ Roles \subseteq {"standalone", "master", "worker"}
  /\ Services # <<>> /\ WorkerServices # <<>>
  /\ {Services, WorkerServices} \subseteq Seq(Names)
  /\ IsInjective(Services) /\ IsInjective(WorkerServices)
  /\ {CrashThreshold, MaxBackoff} \subseteq Nat \ {0}
  /\ {MaxRetries, CrashCap} \subseteq Nat
  /\ 2 ^ CrashCap >= MaxBackoff

(* A fact of arithmetic that the provers do not know: they have no powers. *)
ASSUME PowersAssumption == \A k \in 0 .. CrashCap : 2 ^ k \in Nat

Phases == {"plan",      (* build_launcher_plan and _write_start_command    *)
           "start",     (* the first _start of each process                *)
           "settle",    (* the sleep before _check_all_running             *)
           "round",     (* between two rounds of the daemon loop           *)
           "check",     (* _restart_if_needed of the process at idx        *)
           "look",      (* the poll after it                               *)
           "stop",      (* _stop of the process at idx                     *)
           "ended"}
NeverSet == -1

VARIABLES
  mode,        (* _determine_role                                          *)
  phase, idx,  (* where the launcher is, and at which process              *)
  failed,      (* the launch attempts that have failed: attempt            *)
  allDead,     (* all_dead                                                 *)
  stopEvent,   (* stop_event is set                                        *)
  exitCode,
  handle,      (* handle[n]: proc is not None                              *)
  alive,       (* alive[n]: the child that was started last is running     *)
  orphans,     (* orphans[n]: running children no ManagedProc refers to    *)
  uptime,      (* uptime[n]: time since last_start_ts, NeverSet when 0.0   *)
  crashCount,  (* crash_count                                              *)
  backoff,     (* backoff[n]: what is left until backoff_until             *)
  due          (* history, due[n]: n exited and was not started again yet  *)

ctlVars  == <<mode, phase, idx, failed, allDead, stopEvent, exitCode>>
procVars == <<handle, alive, orphans, uptime, crashCount, backoff, due>>
vars     == <<ctlVars, procVars>>

Procs == IF mode = "worker" THEN WorkerServices ELSE Services

TypeOK ==
  /\ mode \in Roles
  /\ phase \in Phases
  /\ idx \in 1 .. Len(Procs)
  /\ failed \in 0 .. MaxRetries + 1
  /\ {allDead, stopEvent} \subseteq BOOLEAN
  /\ exitCode \in {0, 1}
  /\ {handle, alive, due} \subseteq [Names -> BOOLEAN]
  /\ orphans \in [Names -> Nat]
  /\ uptime \in [Names -> NeverSet .. CrashThreshold]
  /\ crashCount \in [Names -> 0 .. CrashCap]
  /\ backoff \in [Names -> 0 .. MaxBackoff]

Init ==
  /\ mode \in Roles
  /\ phase = IF mode = "worker" THEN "start" ELSE "plan"
  /\ idx = 1
  /\ failed = 0
  /\ allDead = TRUE
  /\ stopEvent = FALSE
  /\ exitCode = 0
  /\ handle = [n \in Names |-> FALSE]
  /\ alive = [n \in Names |-> FALSE]
  /\ orphans = [n \in Names |-> 0]
  /\ uptime = [n \in Names |-> NeverSet]
  /\ crashCount = [n \in Names |-> 0]
  /\ backoff = [n \in Names |-> 0]
  /\ due = [n \in Names |-> FALSE]

-----------------------------------------------------------------------------
Smaller(x, y) == IF x < y THEN x ELSE y

(* _start: Popen succeeds, or fails with OSError and leaves proc as it is. *)
(* A running child that is still referred to would lose its reference.     *)
Start(n) ==
  /\ \/ /\ handle' = [handle EXCEPT ![n] = TRUE]
        /\ alive' = [alive EXCEPT ![n] = TRUE]
        /\ orphans' = [orphans EXCEPT ![n] = @ + (IF alive[n] THEN 1 ELSE 0)]
     \/ UNCHANGED <<handle, alive, orphans>>
  /\ due' = [due EXCEPT ![n] = FALSE]

(* On to the next process, or to phase p after the last one.               *)
NextProc(again, p) ==
  IF idx < Len(Procs)
  THEN idx' = idx + 1 /\ phase' = again
  ELSE idx' = 1 /\ phase' = p

-----------------------------------------------------------------------------
(* _launch_attempt, and its counterpart in the other modes.                *)

PlanOk ==
  /\ phase = "plan"
  /\ phase' = "start"
  /\ UNCHANGED <<mode, idx, failed, allDead, stopEvent, exitCode, procVars>>

StartNext ==
  /\ phase = "start"
  /\ Start(Procs[idx])
  /\ NextProc("start", IF mode = "standalone" THEN "settle" ELSE "round")
  /\ UNCHANGED <<mode, failed, allDead, stopEvent, exitCode,
                 uptime, crashCount, backoff>>

(* _check_all_running looks at the processes that were started.            *)
ExitedAtOnce == \E n \in Range(Procs) : handle[n] /\ ~alive[n]

Settled ==
  /\ phase = "settle"
  /\ ~ExitedAtOnce
  /\ phase' = "round"
  /\ UNCHANGED <<mode, idx, failed, allDead, stopEvent, exitCode, procVars>>

(* The attempt raises.  _run_standalone_mode has not been given the        *)
(* processes of the attempt, so it stops none of them: those that run are  *)
(* left behind, to the next attempt or, after the last, when the launcher  *)
(* has ended.  In master mode the exception ends the launcher.             *)
LaunchFailed ==
  /\ phase = "plan" \/ (phase = "settle" /\ ExitedAtOnce)
  /\ orphans' = [n \in Names |-> orphans[n] + (IF alive[n] THEN 1 ELSE 0)]
  /\ handle' = [n \in Names |-> FALSE]
  /\ alive' = [n \in Names |-> FALSE]
  /\ due' = [n \in Names |-> FALSE]
  /\ failed' = failed + 1
  /\ IF mode = "standalone" /\ failed < MaxRetries
     THEN phase' = "plan" /\ UNCHANGED exitCode
     ELSE phase' = "ended" /\ exitCode' = 1
  /\ UNCHANGED <<mode, idx, allDead, stopEvent, uptime, crashCount, backoff>>

-----------------------------------------------------------------------------
(* _restart_if_needed                                                      *)

(* Mutant: the backoff is not looked at.                                   *)
NotStartedAtOnce(n) ==
  /\ ~handle[n]
  /\ Start(n)
  /\ uptime' = [uptime EXCEPT ![n] = 0]
  /\ UNCHANGED <<crashCount, backoff>>

NotStarted(n) ==
  /\ ~handle[n]
  /\ IF backoff[n] > 0
     THEN UNCHANGED <<handle, alive, orphans, uptime, due>>
     ELSE Start(n) /\ uptime' = [uptime EXCEPT ![n] = 0]
  /\ UNCHANGED <<crashCount, backoff>>

StillRunning(n) ==
  /\ handle[n]
  /\ alive[n]
  /\ UNCHANGED procVars

(* Without a last_start_ts the uptime counts as 0.                         *)
Crashed(n) == ~alive[n] /\ uptime[n] < CrashThreshold

NoticeCrash(n) ==
  /\ handle[n]
  /\ Crashed(n)
  /\ handle' = [handle EXCEPT ![n] = FALSE]
  /\ crashCount' = [crashCount EXCEPT ![n] = Smaller(@ + 1, CrashCap)]
  /\ backoff' = [backoff EXCEPT ![n] = Smaller(2 ^ (crashCount'[n]), MaxBackoff)]
  /\ UNCHANGED <<alive, orphans, uptime, due>>

(* proc is None when _start runs here, and stays None when it fails.       *)
RestartAtOnce(n) ==
  /\ handle[n]
  /\ ~alive[n]
  /\ ~Crashed(n)
  /\ crashCount' = [crashCount EXCEPT ![n] = 0]
  /\ uptime' = [uptime EXCEPT ![n] = 0]
  /\ \E ok \in BOOLEAN : /\ handle' = [handle EXCEPT ![n] = ok]
                         /\ alive' = [alive EXCEPT ![n] = ok]
  /\ due' = [due EXCEPT ![n] = FALSE]
  /\ UNCHANGED <<orphans, backoff>>

(* Mutant: a process is started whether it runs or not.                    *)
RestartAnyhow(n) ==
  /\ Start(n)
  /\ uptime' = [uptime EXCEPT ![n] = 0]
  /\ UNCHANGED <<crashCount, backoff>>

(* Mutant: the handle of a process that has exited is kept, and the        *)
(* crash noticed again in every round.                                     *)
NoticeCrashForEver(n) ==
  \/ NotStarted(n)
  \/ StillRunning(n)
  \/ /\ handle[n]
     /\ Crashed(n)
     /\ crashCount' = [crashCount EXCEPT ![n] = Smaller(@ + 1, CrashCap)]
     /\ backoff' = [backoff EXCEPT ![n] = Smaller(2 ^ (crashCount'[n]), MaxBackoff)]
     /\ UNCHANGED <<handle, alive, orphans, uptime, due>>
  \/ RestartAtOnce(n)

RestartIfNeeded(n) ==
  NotStarted(n) \/ StillRunning(n) \/ NoticeCrash(n) \/ RestartAtOnce(n)

-----------------------------------------------------------------------------
(* _daemon_loop and _check_and_restart_all.                                *)

BeginRound ==
  /\ phase = "round"
  /\ IF stopEvent THEN phase' = "stop" /\ UNCHANGED allDead
     ELSE phase' = "check" /\ allDead' = TRUE
  /\ UNCHANGED <<mode, idx, failed, stopEvent, exitCode, procVars>>

CheckProc ==
  /\ phase = "check"
  /\ RestartIfNeeded(Procs[idx])
  /\ phase' = "look"
  /\ UNCHANGED <<mode, idx, failed, allDead, stopEvent, exitCode>>

Down(n) == ~handle[n] \/ ~alive[n]

(* Mutant: the last process alone decides whether all are down.            *)
LookAtProcLast ==
  /\ phase = "look"
  /\ allDead' = Down(Procs[idx])
  /\ IF idx = Len(Procs) /\ allDead'
     THEN exitCode' = 1 /\ idx' = 1 /\ phase' = "stop"
     ELSE NextProc("check", "round") /\ UNCHANGED exitCode
  /\ UNCHANGED <<mode, failed, stopEvent, procVars>>

LookAtProc ==
  /\ phase = "look"
  /\ allDead' = (allDead /\ Down(Procs[idx]))
  /\ IF idx = Len(Procs) /\ allDead'
     THEN exitCode' = 1 /\ idx' = 1 /\ phase' = "stop"
     ELSE NextProc("check", "round") /\ UNCHANGED exitCode
  /\ UNCHANGED <<mode, failed, stopEvent, procVars>>

(* _stop: SIGTERM, then SIGKILL, and wait.                                 *)
StopNext ==
  /\ phase = "stop"
  /\ LET n == Procs[idx] IN
     /\ handle' = [handle EXCEPT ![n] = FALSE]
     /\ alive' = [alive EXCEPT ![n] = IF handle[n] THEN FALSE ELSE @]
  /\ NextProc("stop", "ended")
  /\ UNCHANGED <<mode, failed, allDead, stopEvent, exitCode,
                 orphans, uptime, crashCount, backoff, due>>

-----------------------------------------------------------------------------
(* What happens around the launcher.                                       *)

ChildExits(n) ==
  /\ alive[n]
  /\ alive' = [alive EXCEPT ![n] = FALSE]
  /\ due' = [due EXCEPT ![n] = TRUE]
  /\ UNCHANGED <<ctlVars, handle, orphans, uptime, crashCount, backoff>>

OrphanExits(n) ==
  /\ orphans[n] > 0
  /\ orphans' = [orphans EXCEPT ![n] = @ - 1]
  /\ UNCHANGED <<ctlVars, handle, alive, uptime, crashCount, backoff, due>>

Signal ==
  /\ phase \in {"round", "check", "look", "stop"}
  /\ ~stopEvent
  /\ stopEvent' = TRUE
  /\ UNCHANGED <<mode, phase, idx, failed, allDead, exitCode, procVars>>

Elapse ==
  /\ phase # "ended"
  /\ uptime' = [n \in Names |-> IF uptime[n] = NeverSet THEN NeverSet
                                ELSE Smaller(uptime[n] + 1, CrashThreshold)]
  /\ backoff' = [n \in Names |-> IF backoff[n] = 0 THEN 0 ELSE backoff[n] - 1]
  /\ UNCHANGED <<ctlVars, handle, alive, orphans, crashCount, due>>

Launcher ==
  \/ PlanOk
  \/ StartNext
  \/ Settled
  \/ LaunchFailed
  \/ BeginRound
  \/ CheckProc
  \/ LookAtProc
  \/ StopNext

Next ==
  \/ Launcher
  \/ \E n \in Names : ChildExits(n) \/ OrphanExits(n)
  \/ Signal
  \/ Elapse

Spec == Init /\ [][Next]_vars

(* The launcher's thread runs and time passes.                             *)
Fairness == WF_vars(Launcher) /\ WF_vars(Elapse)

FairSpec == Spec /\ Fairness

-----------------------------------------------------------------------------
(* Properties.                                                             *)

(* The daemon loop never loses a child: whatever crashes, restarts and     *)
(* failed starts it goes through, a child that runs without a ManagedProc  *)
(* was left behind by a launch attempt that failed, at most one by each.   *)
DaemonLosesNoChild == \A n \in Names : orphans[n] <= failed

(* The children of n that run, whoever refers to them.                     *)
Running(n) == orphans[n] + (IF alive[n] THEN 1 ELSE 0)

(* A launcher that ends leaves nothing running but what its failed launch  *)
(* attempts started, of each service at most one for each of them; without *)
(* such an attempt, nothing.                                               *)
EndsItsChildren == phase = "ended" => \A n \in Names : Running(n) <= failed

(* Type invariant, and every child that runs is accounted for: either the  *)
(* launcher refers to it, and stops it in the end, or an attempt that      *)
(* failed, the last one too, has left it.                                  *)
ChildrenAccountedFor == TypeOK /\ DaemonLosesNoChild /\ EndsItsChildren

(* A launcher that ends leaves nothing running at all (it fails: what an   *)
(* attempt has started is not known to the handler that should stop it).   *)
NoneOutlivesTheLauncher == phase = "ended" => \A n \in Names : Running(n) = 0

(* "退避期内不重启": no child is started while its backoff runs, on the path *)
(* of an immediate restart neither.                                        *)
BackoffIsKept ==
  [][\A n \in Names : ~alive[n] /\ alive'[n] => backoff[n] = 0]_vars

(* The launcher gives up only when no child runs, although it polls them   *)
(* one after the other while they start and exit.                          *)
GivesUpOnlyWhenAllDown ==
  [][phase = "look" /\ phase' = "stop" => \A n \in Names : ~alive[n]]_vars

(* A child that exits is started again, or the launcher stops, whatever    *)
(* the other children do and however often it crashed before.              *)
ExitIsHandled ==
  \A n \in Names : due[n] ~> ~due[n] \/ stopEvent \/ exitCode = 1

(* A signal ends the launcher.                                             *)
SignalEndsLauncher == stopEvent ~> phase = "ended"

(* Whatever comes between two polls is acted upon.                         *)
EventsAreHandled == ExitIsHandled /\ SignalEndsLauncher

(* "监控子进程状态，异常退出时自动拉起": a child that exits is started again  *)
(* unless the launcher was told to stop or never got past the launch.      *)
ExitedIsRestarted ==
  \A n \in Names : due[n] /\ phase = "round" ~> ~due[n] \/ stopEvent
=============================================================================
